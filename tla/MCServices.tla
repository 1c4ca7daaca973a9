------------------------------ MODULE MCServices -------------------------------
(***************************************************************************)
(* The services around the index, as a sum of its parts: what is asked     *)
(* first decides which of them runs.                                       *)
(***************************************************************************)
EXTENDS Integers, Sequences, FiniteSets, TLC

CONSTANTS
    Inputs, Runs, Level, Providers, Queries, MaxRuns,     \* see SemanticIndex
    FileOf, RepoOf, Databases, MaxIndexRuns,               \* see LexicalStore
    Callers, Operations, MaxCalls, MaxOpens,              \* see ClientSession
    Pids, Ports, Commands, Workspaces, MaxCommands,       \* see OwnerServer
    Requests, MaxTime                                     \* see ProviderRun

VARIABLES asked, ask, work, semantic, lexical, client, owner, configs

vars == <<asked, ask, work, semantic, lexical, client, owner, configs>>
-----------------------------------------------------------------------------
(* A database of three repositories.  Symbol 1 of the first calls 2 of the  *)
(* second, which calls 3; 2 implements contract 5, section 4 documents 1.   *)

Item(repo, kind, id, doc, path) == [repo |-> repo, kind |-> kind, id |-> id, doc |-> doc, path |-> path]
Symbols == <<Item(1, "code", 1, 1, 1), Item(2, "code", 2, 2, 2), Item(2, "code", 3, 3, 2)>>
Section == Item(1, "section", 4, 4, 1)
ContractOf(exact) == [Item(2, "contract", 5, 5, 2) EXCEPT !.doc = 5] @@ [exact |-> exact]
Entity == Item(1, "entity", 6, 6, 1)
Hit(item, doc, path, reasons) == [item EXCEPT !.doc = doc, !.path = path] @@ [reasons |-> reasons]
File == Item(1, "file", 7, 7, 1)
Elsewhere == Item(3, "file", 8, 9, 4)
Document(item, path, active) ==
    [repo |-> item.repo, kind |-> item.kind, id |-> item.id, path |-> path, active |-> active]
Stored ==
    [d \in 1..9 |-> CASE d <= 3 -> Document(Symbols[d], Symbols[d].path, TRUE)
                      [] d = 4 -> Document(Section, 1, TRUE)
                      [] d = 5 -> Document(ContractOf(TRUE), 2, TRUE)
                      [] d = 6 -> Document(Entity, 1, TRUE)
                      [] d = 7 -> Document(File, 1, TRUE)
                      [] d = 9 -> Document(Elsewhere, 4, TRUE)
                      [] OTHER -> Document(Symbols[2], 2, TRUE)]

NoPlan ==
    [kind |-> "general", strict |-> FALSE, enabled |-> {"exact", "entity", "lexical", "graph", "semantic"},
     topK |-> 2, graphHops |-> 1, fitting |-> 3, exactPaths |-> {}, canonicalIds |-> {},
     code |-> <<>>, sections |-> <<>>, contracts |-> <<>>, entities |-> <<>>, hits |-> <<>>, semantic |-> <<>>]
Api == [NoPlan EXCEPT !.strict = TRUE, !.enabled = {"exact", "contract", "graph"}, !.code = <<Symbols[1]>>]
QuestionPlans ==
    {NoPlan,
     [NoPlan EXCEPT !.kind = "impact", !.code = <<Symbols[1]>>, !.entities = <<Entity>>, !.graphHops = 2,
        !.hits = <<Hit(Symbols[2], 2, 2, {"full-text"}), Hit(Symbols[2], 8, 2, {"full-text"})>>],
     [NoPlan EXCEPT !.enabled = {"entity", "lexical", "semantic"}, !.entities = <<Entity>>, !.topK = 3,
        !.hits = <<Hit(Entity, 6, 1, {"full-text"}), Hit(Symbols[2], 2, 0, {"full-text"}),
                   Hit(Symbols[3], 3, 2, {"prefix"})>>,
        !.semantic = <<Symbols[3], Item(0, "code", 1, 0, 0)>>],
     [NoPlan EXCEPT !.exactPaths = {1}, !.code = <<Symbols[1]>>, !.sections = <<Section>>, !.topK = 3,
        !.graphHops = 0, !.hits = <<Hit(Symbols[3], 3, 2, {"exact-identifier"}), Hit(File, 7, 1, {"full-text"})>>],
     [NoPlan EXCEPT !.code = <<Symbols[1]>>, !.sections = <<Section>>, !.exactPaths = {1}, !.topK = 4,
        !.graphHops = 0, !.fitting = 4,
        !.hits = <<Hit(Symbols[2], 2, 2, {"full-text"}), Hit(Symbols[3], 3, 2, {"full-text"}),
                   Hit(Elsewhere, 9, 4, {"full-text"})>>],
     [NoPlan EXCEPT !.hits = <<Hit(Symbols[3], 3, 2, {"exact-identifier"})>>, !.topK = 1],
     [NoPlan EXCEPT !.canonicalIds = {1, 6}, !.hits = <<Hit(Entity, 6, 1, {"full-text"}),
        Hit(Symbols[1], 1, 1, {"full-text"}), Hit(Symbols[3], 3, 2, {"full-text"})>>, !.topK = 3],
     [Api EXCEPT !.contracts = <<<<ContractOf(TRUE)>>, <<>>>>, !.topK = 3],
     [Api EXCEPT !.contracts = <<<<ContractOf(FALSE)>>>>, !.graphHops = 2],
     [Api EXCEPT !.contracts = <<<<>>>>]}

Asks == INSTANCE AskRetrieval WITH
    Plans <- QuestionPlans,
    Budgets <- [exact |-> 2, contract |-> 2, entity |-> 2, graph |-> 3, semantic |-> 2],
    MaxPerKind <- 4,
    Code <- Symbols,
    Calls <- {[from |-> 1, to |-> 2, exact |-> TRUE], [from |-> 2, to |-> 3, exact |-> FALSE]},
    Implementations <- [c \in {5} |-> {2}],
    DocumentedIn <- [c \in 1..3 |-> IF c = 1 THEN {Section} ELSE {}],
    Documents <- Stored,
    Changed <- {Stored, [Stored EXCEPT ![2] = [@ EXCEPT !.active = FALSE]], [d \in 2..9 |-> Stored[d]],
                [Stored EXCEPT ![7] = [@ EXCEPT !.path = 3], ![5] = [@ EXCEPT !.path = 3]]}
-----------------------------------------------------------------------------
(* Phases that call a remote model: seven units of time, two workers. *)

Policy ==
    [maxRetries |-> 1, initialDelay |-> 1, maxDelay |-> 2, jitter |-> 0, timeout |-> 2, minDelay |-> 2,
     maxRequests |-> {}, maxEstimatedTokens |-> {}, maxElapsed |-> {}, maxFailures |-> {}]
Unlimited == [Policy EXCEPT !.minDelay = 0]
Fault(status, network) == [status |-> status, network |-> network]
Phase(kind, policy) ==
    [kind |-> kind, policy |-> policy, concurrency |-> 2, refused |-> {}, largest |-> 4, errors |-> {}]
Nodes(ids) == [k \in DOMAIN ids |-> [id |-> ids[k], summarized |-> ids[k] = 2]]

PhaseRequests ==
    {[Phase("embeddings", Unlimited) EXCEPT !.refused = {2}] @@ [texts |-> <<1, 2, 3, 4>>, size |-> 3],
     [Phase("embeddings", Unlimited) EXCEPT !.largest = 1] @@ [texts |-> <<1, 2, 3>>, size |-> 2],
     [Phase("embeddings", Policy) EXCEPT !.errors = {Fault(429, FALSE)}, !.policy.maxEstimatedTokens = {2}]
       @@ [texts |-> <<1, 2, 3>>, size |-> 1],
     [Phase("summaries", Policy) EXCEPT !.errors = {Fault(500, FALSE), Fault(401, FALSE)}, !.policy.maxFailures = {1}]
       @@ [level |-> "file", files |-> <<[id |-> 1, doc |-> TRUE, nodes |-> <<>>], [id |-> 2, doc |-> FALSE, nodes |-> <<>>]>>],
     [Phase("summaries", Unlimited) EXCEPT !.errors = {Fault(0, TRUE)}, !.policy.maxRequests = {2}]
       @@ [level |-> "node", files |-> <<[id |-> 9, doc |-> FALSE, nodes |-> Nodes(<<1, 2, 3>>)],
                                         [id |-> 8, doc |-> TRUE, nodes |-> Nodes(<<4>>)]>>],
     [Phase("graph", Policy) EXCEPT !.errors = {Fault(0, FALSE)}, !.policy.maxElapsed = {3}] @@ [repos |-> <<1, 2>>]}

Phases == INSTANCE ProviderRun
-----------------------------------------------------------------------------
(* The semantic index: two runs at a time, of one repository each; a symbol *)
(* of the first changes, and both mention the same entity.                  *)

Mention(id, text, entities) == [id |-> id, text |-> <<text>>, entities |-> entities]
Source(id, doc, nodes) == [id |-> id, doc |-> doc, nodes |-> nodes]
IndexInput(repo, files) == [repos |-> <<<<repo, 0>>>>, files |-> files]

OverlappingInputs ==
    {IndexInput(1, <<Source(1, FALSE, <<Mention(11, 1, {30})>>)>>),
     IndexInput(1, <<Source(1, FALSE, <<Mention(11, 2, {})>>)>>),
     IndexInput(2, <<Source(2, TRUE, <<Mention(12, 3, {30})>>)>>)}
QueriedNodes == {{[kind |-> "Code", id |-> 11]}, {[kind |-> "Entity", id |-> 30], [kind |-> "Section", id |-> 12]}}

Embeddings == INSTANCE SemanticIndex
-----------------------------------------------------------------------------
(* The lexical store: two repositories of two documents and one; the second *)
(* document of the first is of no file.                                      *)

FileOfDocument == <<1, 0, 2>>
RepoOfDocument == <<1, 1, 2>>

Lexical == INSTANCE LexicalStore
-----------------------------------------------------------------------------
(* Clients: two callers of one client; two servers, the second perhaps of   *)
(* another workspace, and a command that attaches.                          *)

OneOfTwo == <<{TRUE}, BOOLEAN>>

Clients == INSTANCE ClientSession
Owners == INSTANCE OwnerServer

ASSUME ServicesAssumption ==
    /\ Phases!RequestsAssumption
    /\ Lexical!FilesAssumption
    /\ Clients!OperationsAssumption
    /\ Owners!WorkspacesAssumption
-----------------------------------------------------------------------------
(* The configurations of coding agents: two edits between three commands.   *)

Agents == INSTANCE AgentConfigs WITH MaxEdits <- 2, MaxCommands <- 3
-----------------------------------------------------------------------------
(* What is answered at once. *)

Planning == INSTANCE QuestionPlanning
Contexts == INSTANCE AnswerContext WITH Wrapping <- 4, Marker <- 2, PerItem <- 3, Fixed <- 75

Upto(n, S) == UNION {[1..k -> S] : k \in 0..n}

W(shapes, roles) == Planning!Word(shapes, roles, {}, "")
Route == W({"slash"}, {})
Evidence ==
    {W({"code"}, {"method"}), W({}, {"file-leading"}), W({}, {"file-label"}), W({}, {"api-label", "code"}),
     W({}, {"contract-kind"}), W({}, {"url"}), W({}, {"connector"})}
Targets ==
    {Route, Planning!Word({"slash", "generic-file"}, {}, {}, ".ts"), W({"generic-file", "dotted", "structured"}, {}),
     W({"relative"}, {}), W({"pascal"}, {}), W({"code"}, {})}
Said(words, marks) ==
    {<<x[1], Planning!SPACE, x[2]>> : x \in words \X words} \union {<<w>> \o m : w \in words, m \in marks}
PlanQuestions ==
    [about : {"plan"},
     left : Said(Evidence \union {Route}, {<<>>, <<Planning!STOP>>}),
     right : Said(Evidence \union Targets, {<<>>, <<Planning!APOSTROPHE, Route>>, <<Planning!STOP, Route>>})
             \union {<<e, Planning!SPACE, Planning!QUOTE>> \o m \o <<Planning!QUOTE>> :
                        e \in Evidence, m \in {<<>>, <<W({}, {})>>, <<Route, Planning!SPACE, Route>>}}]

Texts == {<<"plain", "plain", "plain">>, [i \in 1..6 |-> IF i % 2 = 1 THEN "high" ELSE "low"],
          <<"escaped", "plain", "escaped", "plain", "escaped", "escaped", "plain">>}
ContextQuestions == [about : {"context"}, texts : Upto(2, Texts), maxItem : {7, 12}, maxChars : 60..125]
-----------------------------------------------------------------------------
Nothing == [about |-> "nothing"]
Questions == PlanQuestions \union ContextQuestions
Running == {"retrieval", "phase", "embeddings", "lexical", "client", "owner", "agent"}
machines == <<ask, work, semantic, lexical, client, owner, configs>>

Init ==
    /\ asked \in {Nothing} \union [about : Running]
    /\ Asks!Init /\ Phases!Init /\ Embeddings!Init /\ Lexical!Init
    /\ Clients!Init /\ Owners!Init /\ Agents!Init
    /\ asked.about = "embeddings" \/ semantic.provider = "json"

Ask == asked = Nothing /\ asked' \in Questions /\ UNCHANGED machines
Answer == asked.about \notin Running \union {"nothing"} /\ asked' = Nothing /\ UNCHANGED machines

Next ==
    \/ asked.about = "retrieval" /\ Asks!Next /\ UNCHANGED <<asked, work, semantic, lexical, client, owner, configs>>
    \/ asked.about = "phase" /\ Phases!Next /\ UNCHANGED <<asked, ask, semantic, lexical, client, owner, configs>>
    \/ asked.about = "embeddings" /\ Embeddings!Next /\ UNCHANGED <<asked, ask, work, lexical, client, owner, configs>>
    \/ asked.about = "lexical" /\ Lexical!Next /\ UNCHANGED <<asked, ask, work, semantic, client, owner, configs>>
    \/ asked.about = "client" /\ Clients!Next /\ UNCHANGED <<asked, ask, work, semantic, lexical, owner, configs>>
    \/ asked.about = "owner" /\ Owners!Next /\ UNCHANGED <<asked, ask, work, semantic, lexical, client, configs>>
    \/ asked.about = "agent" /\ Agents!Next /\ UNCHANGED <<asked, ask, work, semantic, lexical, client, owner>>
    \/ Ask
    \/ Answer

WholeSpec == Init /\ [][Next]_vars
-----------------------------------------------------------------------------
(* Properties. *)

\* See AskRetrieval: an answer that reports no problem is the whole answer, but for
\* embeddings in a file that cannot be read.
SilenceIsComplete == Asks!SilenceIsComplete

\* See AskRetrieval: the fair share of selection.ts:187-192.
EveryRepoIsHeard == Asks!EveryRepoIsHeard

\* See ProviderRun: budget, attempts and delays of the calls of a phase, and a
\* phase that ends has an answer for each text.
PhasesKeepTheirWord == Phases!PolicyIsKept /\ Phases!EveryTextIsServed

\* See SemanticIndex: overlapping index runs keep each other's records, and a search
\* without a reported problem finds what it could read.
NothingStoredIsLost == Embeddings!NothingStoredIsLost

\* See LexicalStore: what an open gate promises, and what a finished index run
\* leaves to be found.
LexicalIndexIsHonest == Lexical!ReadyMeansSound /\ Lexical!FinishedRunServes

\* See ClientSession: one connection, accepted index runs are served, a closed
\* client holds nothing, answers follow the index, the watcher is its own.
ClientKeepsOrder == Clients!ClientKeepsOrder

\* See OwnerServer: a command attaches to the owner of its workspace, and uninit
\* finds the graph closed, but for a server of more than seven days.
OwnershipIsHonest == Owners!OwnershipIsHonest

\* See AgentConfigs: install and uninstall take effect, repeat, and leave the user's
\* lines alone, but for comments at the end of our table and files that could not be
\* read or backed up.
ConfigsComeAndGo ==
    [][Agents!UserLinesStay /\ Agents!CommandsTakeEffect /\ Agents!CommandsRepeat]_configs

\* See QuestionPlanning: what binds a word to a target ends with the clause
\* (queryTargets.ts:39-44); and AnswerContext: the budget of the language model
\* is kept and used (context.ts:158-259).
QuestionsFit ==
    /\ asked.about = "plan" => Planning!ClausesStandAlone(asked.left, asked.right, {".ts"})
    /\ asked.about = "context" => Contexts!BudgetIsUsed(asked.texts, asked.maxItem, asked.maxChars)
=============================================================================

----------------------------- MODULE AgentConfigs -----------------------------
(***************************************************************************)
(* The installer writes the server into the configuration of coding agents *)
(* and takes it out again: JSON and JSONC files, a TOML table, a YAML file  *)
(* edited line by line, and a marked block in Markdown instructions.  The   *)
(* files belong to the user, who edits them between the commands; an        *)
(* earlier version of the program may have written them; a command may die  *)
(* between two files (each file is replaced by a rename).                   *)
(*                                                                         *)
(* A file is a sequence of lines: what is ours ("ours" of this version,     *)
(* "old" of an earlier one), what is the user's, and the lines by which the *)
(* editors of the code find their way.  Of JSON the lines are its entries.  *)
(* Agents have no file in common: a behaviour is about one of them.         *)
(***************************************************************************)
EXTENDS Naturals, Sequences, FiniteSets
LOCAL INSTANCE SequencesExt

CONSTANTS MaxEdits,     \* bound: how often the user edits
          MaxCommands   \* bound: how many commands are run

VARIABLE configs    \* the agent, its files, the last command, and how much happened

Agents == {"claude", "cursor", "codex", "opencode", "hermes", "gemini", "antigravity", "kiro"}
Formats ==
    [config |-> "json", permissions |-> "list", unified |-> "json", legacy |-> "json", migrated |-> "marker",
     jsonc |-> "jsonc", plain |-> "jsonc", appdata |-> "jsonc",
     toml |-> "toml", yaml |-> "yaml", instructions |-> "markdown", steering |-> "own"]
Roles == DOMAIN Formats

\* The files of an agent.
RolesOf(agent) ==
    CASE agent = "claude" -> {"config", "permissions", "instructions"}
      [] agent = "cursor" -> {"config"}
      [] agent = "gemini" -> {"config", "instructions"}
      [] agent = "antigravity" -> {"unified", "legacy", "migrated"}
      [] agent = "kiro" -> {"config", "steering"}
      [] agent = "codex" -> {"toml", "instructions"}
      [] agent = "opencode" -> {"jsonc", "plain", "appdata", "instructions"}
      [] agent = "hermes" -> {"yaml"}

NoFile == [there |-> FALSE, parses |-> TRUE, lines |-> <<>>, backup |-> <<>>]
File(lines) == [NoFile EXCEPT !.there = TRUE, !.lines = lines]
Has(f, line) == Contains(f.lines, line)

-----------------------------------------------------------------------------
(* Lines. *)

\* readText of hermes.ts: an error is taken for an empty file, and of such a file
\* no backup is made.
readText(f, trouble) == IF trouble = "unread" THEN <<>> ELSE f.lines

\* The first position at or after i of one of the lines, or the one behind the end.
From(s, i, lines) ==
    LET found == {k \in i..Len(s) : s[k] \in lines} IN IF found = {} THEN Len(s) + 1 ELSE CHOOSE k \in found : \A j \in found : k <= j
Found(s, k) == k <= Len(s)

Comment == "# user"

\* s with the lines from i up to but not including j replaced by t.
Splice(s, i, j, t) == SubSeq(s, 1, i - 1) \o t \o SubSeq(s, j, Len(s))
Without(s, lines) == SelectSeq(s, LAMBDA line : line \notin lines)

-----------------------------------------------------------------------------
(* What goes wrong while a command runs: "no backup" can be made, or the    *)
(* files are "unread" although they can be replaced.                        *)

Troubles == {"none", "no backup", "unread"}

\* A reader that lets the error out ends the command; the others take the file
\* for empty, or have nothing to remove from it.
Throws(role, way) == Formats[role] \in {"toml", "jsonc"} \/ (Formats[role] = "markdown" /\ way = "add")

-----------------------------------------------------------------------------
(* JSON: a file that cannot be read or does not parse is taken for empty;   *)
(* a backup of it is made, if one can be made.                              *)

Understood(f, trouble) == f.parses /\ trouble # "unread"
readJsonFile(f, trouble) == IF f.parses \/ trouble # "none" THEN f ELSE [f EXCEPT !.backup = f.lines]

Written(f, trouble, gone) ==
    LET config == IF Understood(f, trouble) THEN f.lines ELSE <<>>
    IN  IF Contains(config, "ours") THEN f
        ELSE [readJsonFile(f, trouble) EXCEPT !.there = TRUE, !.parses = TRUE, !.lines = Append(Without(config, gone), "ours")]
Removed(f, trouble, gone) ==
    IF Understood(f, trouble) THEN [f EXCEPT !.lines = Without(@, gone)] ELSE readJsonFile(f, trouble)

AddToJson(f, trouble) == Written(f, trouble, {"old"})
DropFromJson(f, trouble) == Removed(f, trouble, {"ours", "old"})

\* The permissions are merged into those that are granted; only the same names go again.
AddToList(f, trouble) == Written(f, trouble, {})
DropFromList(f, trouble) == Removed(f, trouble, {"ours"})

-----------------------------------------------------------------------------
(* TOML: a table ends where the next table begins, with all that stands     *)
(* above it; the header of an array of tables is not taken for one.         *)

EndOfFile(s, i) == Len(s) + 1
TomlEnd(s, i) == From(s, i + 1, {"[ours]", "[user]"})

upsertTomlTable(s) ==
    LET i == From(s, 1, {"[ours]"})
    IN  IF Found(s, i) THEN Splice(s, i, TomlEnd(s, i), <<"[ours]", "ours">>) ELSE s \o <<"[ours]", "ours">>

removeTomlTable(s) ==
    LET i == From(s, 1, {"[ours]"}) IN IF Found(s, i) THEN Splice(s, i, TomlEnd(s, i), <<>>) ELSE s

-----------------------------------------------------------------------------
(* Markdown: the block between the first start and the first end marker.    *)

Block == <<"start", "ours", "end">>
HasBlock(s) == LET i == From(s, 1, {"start"}) IN Found(s, i) /\ Found(s, From(s, 1, {"end"})) /\ From(s, 1, {"end"}) > i
SpliceBlock(s, block) == Splice(s, From(s, 1, {"start"}), From(s, 1, {"end"}) + 1, block)

replaceOrAppendMarkedSection(s) == IF HasBlock(s) THEN SpliceBlock(s, Block) ELSE s \o Block
removeMarkedSection(s) == IF HasBlock(s) THEN SpliceBlock(s, <<>>) ELSE s

-----------------------------------------------------------------------------
(* YAML: a section ends at the next key without a value; a server ends at   *)
(* the next line indented by two; the items of cli at what is neither an    *)
(* item nor indented by four.  A comment that is not indented ends only the *)
(* items.                                                                   *)

Sections == {"mcp_servers:", "platform_toolsets:", "user:"}
Children == {"  ours:", "  user:", "  cli:"}
Bodies == {"    ours", "    old", "    - ours", "    - hermes", "    - user"}
Scalar == "user: 1"

topLevelRange(s, key) == LET i == From(s, 1, {key}) IN [start |-> i, end |-> From(s, i + 1, Sections)]
childRange(s, parent, child) ==
    LET i == From(s, parent.start + 1, {child})  j == From(s, i + 1, Children)
    IN  [start |-> i, end |-> IF j < parent.end THEN j ELSE parent.end]
listChildBlock(s, parent) ==
    LET i == From(s, parent.start + 1, {"  cli:"}) IN [start |-> i, end |-> From(s, i + 1, Sections \union Children \union {Scalar, Comment})]
Inside(range, parent) == range.start < parent.end

Server == <<"  ours:", "    ours">>
Toolset == <<"  cli:", "    - hermes", "    - ours">>

upsertServer(s, parent, child) ==
    CASE ~Found(s, parent.start) -> s \o <<"mcp_servers:">> \o Server
      [] Found(s, parent.start) /\ Inside(child, parent) -> Splice(s, child.start, child.end, Server)
      [] OTHER -> Splice(s, parent.end, parent.end, Server)
upsertBrandedMcpServer(s) ==
    LET parent == topLevelRange(s, "mcp_servers:") IN upsertServer(s, parent, childRange(s, parent, "  ours:"))

removeBrandedMcpServer(s) ==
    LET parent == topLevelRange(s, "mcp_servers:")  child == childRange(s, parent, "  ours:")
    IN  IF Found(s, parent.start) /\ Inside(child, parent) THEN Splice(s, child.start, child.end, <<>>) ELSE s

upsertToolset(s, parent, cli) ==
    CASE ~Found(s, parent.start) -> s \o <<"platform_toolsets:">> \o Toolset
      [] Found(s, parent.start) /\ ~Inside(cli, parent) -> Splice(s, parent.end, parent.end, Toolset)
      [] OTHER -> IF From(s, cli.start, {"    - ours"}) < cli.end THEN s ELSE Splice(s, cli.end, cli.end, <<"    - ours">>)
upsertBrandedToolset(s) ==
    LET parent == topLevelRange(s, "platform_toolsets:") IN upsertToolset(s, parent, listChildBlock(s, parent))

removeBrandedToolset(s) ==
    LET parent == topLevelRange(s, "platform_toolsets:")  cli == listChildBlock(s, parent)
    IN  IF Found(s, parent.start) /\ Inside(cli, parent)
        THEN SubSeq(s, 1, cli.start) \o Without(SubSeq(s, cli.start + 1, cli.end - 1), {"    - ours"}) \o SubSeq(s, cli.end, Len(s))
        ELSE s

-----------------------------------------------------------------------------
(* What a command does to a file. *)

OfText(f, s, deleteEmpty) ==
    IF s = f.lines THEN f ELSE IF deleteEmpty /\ s = <<>> THEN NoFile ELSE File(s)

Added(role, f, trouble) ==
    CASE Formats[role] \in {"json", "jsonc"} -> AddToJson(f, trouble)
      [] Formats[role] = "list" -> AddToList(f, trouble)
      [] Formats[role] = "toml" -> OfText(f, upsertTomlTable(f.lines), FALSE)
      [] Formats[role] = "markdown" -> OfText(f, replaceOrAppendMarkedSection(f.lines), FALSE)
      [] Formats[role] = "yaml" ->
             OfText(f, upsertBrandedToolset(upsertBrandedMcpServer(readText(f, trouble))), FALSE)

Dropped(role, f, trouble) ==
    CASE ~f.there -> f
      [] f.there /\ Formats[role] \in {"json", "jsonc"} -> DropFromJson(f, trouble)
      [] f.there /\ Formats[role] = "list" -> DropFromList(f, trouble)
      [] f.there /\ Formats[role] = "toml" -> OfText(f, removeTomlTable(f.lines), TRUE)
      [] f.there /\ Formats[role] = "markdown" ->
             IF trouble = "unread" THEN f ELSE OfText(f, removeMarkedSection(f.lines), TRUE)
      [] f.there /\ Formats[role] = "yaml" ->
             IF trouble = "unread" THEN f ELSE OfText(f, removeBrandedToolset(removeBrandedMcpServer(f.lines)), FALSE)
      [] f.there /\ Formats[role] = "own" -> NoFile

Add(role) == <<role, "add">>
Drop(role) == <<role, "drop">>
DoAll(files, steps, trouble) ==
    LET Do(done, step) ==
            [done EXCEPT ![step[1]] = IF step[2] = "add" THEN Added(step[1], @, trouble) ELSE Dropped(step[1], @, trouble)]
    IN  FoldLeft(Do, files, steps)

\* The configuration that Antigravity reads: the unified one once it is there, or
\* once Antigravity has left its marker.
Preferred(files) == IF files["migrated"].there \/ files["unified"].there THEN "unified" ELSE "legacy"
PreferredAgain(files) == Preferred(files)
Other(files) == IF Preferred(files) = "unified" THEN "legacy" ELSE "unified"
OpencodePath(files) == IF files["jsonc"].there \/ ~files["plain"].there THEN "jsonc" ELSE "plain"

InstallSteps(agent, files, autoAllow) ==
    CASE agent = "claude" -> <<Add("config")>> \o (IF autoAllow THEN <<Add("permissions")>> ELSE <<>>) \o <<Add("instructions")>>
      [] agent = "cursor" -> <<Add("config")>>
      [] agent = "gemini" -> <<Add("config"), Add("instructions")>>
      [] agent = "antigravity" ->
             <<Add(Preferred(files))>> \o (IF Preferred(files) = "unified" THEN <<Drop("legacy")>> ELSE <<>>)
      [] agent = "kiro" -> <<Add("config"), Drop("steering")>>
      [] agent = "codex" -> <<Add("toml"), Add("instructions")>>
      [] agent = "opencode" -> <<Add(OpencodePath(files)), Add("instructions"), Drop("appdata")>>
      [] agent = "hermes" -> <<Add("yaml")>>

UninstallSteps(agent, files) ==
    CASE agent = "claude" -> <<Drop("config"), Drop("permissions"), Drop("instructions")>>
      [] agent = "cursor" -> <<Drop("config")>>
      [] agent = "gemini" -> <<Drop("config"), Drop("instructions")>>
      [] agent = "antigravity" -> <<Drop(Preferred(files)), Drop(Other(files))>>
      [] agent = "kiro" -> <<Drop("config"), Drop("steering")>>
      [] agent = "codex" -> <<Drop("toml"), Drop("instructions")>>
      [] agent = "opencode" -> <<Drop(OpencodePath(files)), Drop("instructions"), Drop("appdata")>>
      [] agent = "hermes" -> <<Drop("yaml")>>

-----------------------------------------------------------------------------
(* Commands and edits. *)

Nothing == [agent |-> "none", files |-> [role \in Roles |-> NoFile], last |-> "none", trouble |-> "none", edits |-> 0, commands |-> 0]
Init == configs = Nothing

Choose(agent) == configs.agent = "none" /\ configs' = [configs EXCEPT !.agent = agent]

\* What can go wrong with the files there are.
Possible(trouble) ==
    /\ trouble = "no backup" => \E role \in Roles : ~configs.files[role].parses
    /\ trouble = "unread" => \E role \in Roles : configs.files[role].there

\* The steps before the first that throws.
Done(steps, trouble) ==
    LET throwing == {k \in DOMAIN steps : /\ trouble = "unread" /\ configs.files[steps[k][1]].there
                                           /\ Throws(steps[k][1], steps[k][2])}
    IN  SelectSeq([k \in DOMAIN steps |-> IF \E j \in throwing : j <= k THEN <<>> ELSE steps[k]],
                  LAMBDA step : step # <<>>)

Command(steps, name, trouble) ==
    /\ configs.agent # "none" /\ configs.commands < MaxCommands /\ Possible(trouble)
    /\ LET done == Done(steps, trouble)
       IN configs' = [configs EXCEPT !.files = DoAll(@, done, trouble), !.last = IF done = steps THEN name ELSE "dead",
                                     !.trouble = trouble, !.commands = @ + 1]

Install(autoAllow, trouble) ==
    Command(InstallSteps(configs.agent, configs.files, autoAllow), IF autoAllow THEN "install" ELSE "install quietly", trouble)

Uninstall(trouble) == Command(UninstallSteps(configs.agent, configs.files), "uninstall", trouble)

\* The process ends after k of the files.
Dies(steps, k) == k < Len(steps) /\ Command(SubSeq(steps, 1, k), "dead", "none")
InstallDies(k) == Dies(InstallSteps(configs.agent, configs.files, TRUE), k)
UninstallDies(k) == Dies(UninstallSteps(configs.agent, configs.files), k)

\* A YAML file that is one: no key twice, every line below what it belongs to.
ParentsOf(line) ==
    CASE line \in {"  ours:", "  user:"} -> {"mcp_servers:"}
      [] line = "  cli:" -> {"platform_toolsets:"}
      [] line \in {"    - ours", "    - hermes", "    - user"} -> {"  cli:"}
      [] line \in {"    ours", "    old"} -> {"  ours:"}
      [] OTHER -> {}
Outer(line) == IF line \in Children THEN Sections \union {Scalar} ELSE Sections \union {Scalar} \union Children
IsYaml(s) ==
    /\ \A i, j \in DOMAIN s : s[i] = s[j] => i = j
    /\ \A i \in DOMAIN s : s[i] \in Children \union Bodies =>
          \E j \in 1..(i - 1) : s[j] \in ParentsOf(s[i]) /\ \A k \in (j + 1)..(i - 1) : s[k] \notin Outer(s[i])

\* A TOML file in which our table has its body behind its header.
IsToml(s) ==
    /\ Cardinality({i \in DOMAIN s : s[i] = "[ours]"}) <= 1
    /\ \A i \in DOMAIN s : s[i] \in {"ours", "old"} =>
          \E j \in 1..(i - 1) : s[j] = "[ours]" /\ \A k \in (j + 1)..(i - 1) : s[k] = Comment
Parses(format, s) == (format = "yaml" => IsYaml(s)) /\ (format = "toml" => IsToml(s))

\* What may be a line of a file that its user or an earlier version has written.
LinesOf(format) ==
    CASE format \in {"json", "jsonc"} -> {"user", "old"}
      [] format \in {"list", "marker"} -> {"user"}
      [] format = "toml" -> {"[user]", "[[user]]", Comment}
      [] format = "markdown" -> {"user"}
      [] format = "yaml" -> Sections \union {Scalar, Comment, "  user:", "  cli:", "    - user"}
      [] OTHER -> {"ours"}

Edit(role, f) ==
    /\ configs.agent # "none" /\ role \in RolesOf(configs.agent) /\ configs.edits < MaxEdits /\ f # configs.files[role]
    /\ configs' = [configs EXCEPT !.files[role] = f, !.last = "edit", !.edits = @ + 1]

\* A line is added, an entry in JSON once.
WriteLine(role, i, line) ==
    LET f == configs.files[role]  s == Splice(f.lines, i, i, <<line>>)
    IN  /\ f.parses /\ (Formats[role] \in {"json", "jsonc", "list", "marker", "own"} => i = 1 /\ ~Has(f, line) /\ ~Has(f, "ours"))
        /\ Parses(Formats[role], s)
        /\ Edit(role, [File(s) EXCEPT !.backup = f.backup])

\* A line is removed: also one of two markers.
RemoveLine(role, i) ==
    LET s == Splice(configs.files[role].lines, i, i + 1, <<>>)
    IN  /\ i \in DOMAIN configs.files[role].lines /\ Parses(Formats[role], s)
        /\ Edit(role, [configs.files[role] EXCEPT !.lines = s])

\* The program has changed since it wrote the file.
Upgrade(role) ==
    /\ Formats[role] \notin {"own", "list", "marker"}
    /\ Edit(role, [configs.files[role] EXCEPT !.lines = ReplaceAll(ReplaceAll(@, "ours", "old"), "    ours", "    old")])

\* A comma too many: the readers of JSON take it for nothing, that of JSONC not.
Break(role) ==
    /\ Formats[role] \in {"json", "list"} /\ configs.files[role].there
    /\ Edit(role, [configs.files[role] EXCEPT !.parses = FALSE])

Renew == configs.agent # "none" /\ configs.commands = MaxCommands /\ configs' = Nothing

Next ==
    \/ \E agent \in Agents : Choose(agent)
    \/ \E trouble \in Troubles : (\E autoAllow \in BOOLEAN : Install(autoAllow, trouble)) \/ Uninstall(trouble)
    \/ \E k \in 1..2 : configs.agent # "none" /\ (InstallDies(k) \/ UninstallDies(k))
    \/ \E role \in Roles :
          \/ \E i \in 1..(Len(configs.files[role].lines) + 1) :
                \/ \E line \in LinesOf(Formats[role]) : WriteLine(role, i, line)
                \/ RemoveLine(role, i)
          \/ Upgrade(role) \/ Break(role)
    \/ Renew

-----------------------------------------------------------------------------
(* Properties. *)

UserLines == {"user", "[user]", "[[user]]", "user:", "  user:", "    - user", Scalar, Comment}
OurLines == {"ours", "old", "[ours]", "start", "end", "  ours:", "    ours", "    old", "    - ours"}

\* The lines between a line and the next of some others.
Behind(s, line, until) == UNION {(i + 1)..(From(s, i + 1, until) - 1) : i \in {k \in DOMAIN s : s[k] = line}}
\* What of the user stands there, down to the header of the next table or server.
OfOurTable(format, s) ==
    CASE format = "toml" -> Behind(s, "[ours]", {"[user]"})
      [] format = "yaml" -> Behind(s, "  ours:", Sections \union Children)
      [] OTHER -> {}

\* Files in which the line editors find their way: one block between two
\* markers, no array of tables behind our table, no plain value behind a section,
\* no comment between the items of cli.
Sound(role, f) ==
    LET s == f.lines
        once(line) == Cardinality({i \in DOMAIN s : s[i] = line}) <= 1
        after(line, lines, until) == \E j \in Behind(s, line, until) : s[j] \in lines
    IN  CASE Formats[role] = "markdown" -> once("start") /\ once("end") /\ (Has(f, "start") \/ Has(f, "end") => HasBlock(s))
                                             /\ \A line \in {"ours", "old"} : ~Contains(removeMarkedSection(s), line)
          [] Formats[role] = "toml" -> IsToml(s) /\ ~after("[ours]", {"[[user]]"}, {"[user]"})
          [] Formats[role] = "yaml" -> /\ IsYaml(s) /\ \A section \in Sections : ~after(section, {Scalar}, {})
                                       /\ ~after(Comment, {"    - ours"}, Sections \union Children)
          [] OTHER -> TRUE

\* What is the user's in some lines: outside of our block.
OfUser(role, lines) ==
    LET s == IF Formats[role] = "markdown" THEN removeMarkedSection(lines) ELSE lines
    IN  SelectSeq(s, LAMBDA line : line \in UserLines)

\* The same without the comments in our table, or above the one that follows it.
Uncommented(format, s) ==
    LET ours == OfOurTable(format, s)
    IN  SelectSeq([i \in DOMAIN s |-> IF i \in ours /\ s[i] = Comment THEN "" ELSE s[i]], LAMBDA line : line # "")

IsCommand == configs'.commands = configs.commands + 1

\* A command takes no line of the user from a file that its editor understands, with
\* three exceptions: comments between our table and the header that follows it are
\* taken for ours (toml.ts:86-98, hermes.ts:166-174); of a JSON file that does not
\* parse there is a backup, but not when it could not be made (shared.ts:44-46); and
\* a JSON or YAML file that could not be read is replaced by ours (shared.ts:38,
\* hermes.ts:105-111).
UserLinesStay ==
    IsCommand => \A role \in Roles :
        LET before == configs.files[role]  after == configs'.files[role]
        IN  Sound(role, before) =>
               /\ Sound(role, after)
               /\ \/ OfUser(role, after.lines) \in {OfUser(role, before.lines), OfUser(role, Uncommented(Formats[role], before.lines))}
                  \/ ~before.parses /\ (after.backup = before.lines \/ configs'.trouble = "no backup")
                  \/ Formats[role] \in {"json", "list", "yaml"} /\ configs'.trouble = "unread"

\* A file of which our text has gone: an unparsed JSON file is left alone, and
\* so is opencode.json once there is an opencode.jsonc.
Clean(role, files) ==
    LET f == files[role]
    IN  \/ ~f.parses
        \/ Formats[role] \in {"markdown", "toml", "yaml"} /\ ~Sound(role, f)
        \/ role = "plain" /\ files["jsonc"].there
        \/ \A i \in DOMAIN f.lines : f.lines[i] \notin OurLines

\* After an install what the agent reads is this version's, once; after an
\* uninstall nothing of ours is left, whatever was interrupted or written before.
CommandsTakeEffect ==
    LET files == configs'.files
        ours(role) ==
            /\ files[role].there
            /\ \A line \in {"old", "    old"} : ~Has(files[role], line)
            /\ \E line \in {"ours", "    ours"} : Has(files[role], line)
    IN  IsCommand =>
           /\ configs'.last \in {"install", "install quietly"} =>
                 \A role \in {step[1] : step \in {x \in ToSet(InstallSteps(configs.agent, configs.files, configs'.last = "install")) : x[2] = "add"}} :
                    Sound(role, configs.files[role]) => ours(role)
           /\ configs'.last = "uninstall" =>
                 \A role \in RolesOf(configs.agent) :
                    Sound(role, configs.files[role]) => Clean(role, files) \/ configs'.trouble = "unread"

\* A command that is repeated changes nothing, if nothing went wrong.
CommandsRepeat ==
    IsCommand /\ configs'.last = configs.last /\ configs.last # "dead" /\ {configs.trouble, configs'.trouble} = {"none"} /\ (\A role \in Roles : Sound(role, configs.files[role]))
        => configs'.files = configs.files
=============================================================================

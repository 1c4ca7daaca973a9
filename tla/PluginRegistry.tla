---------------------------- MODULE PluginRegistry ----------------------------
(***************************************************************************)
(* The registries of the process (core/registries/registry.ts) and those   *)
(* that fill them: the bootstrap of every index run, of a watcher that     *)
(* starts and of `frameworks` (core/plugins/register.ts), which takes out  *)
(* what the one before put in, looks at plugins and repositories, and puts *)
(* in what it found; then the run's parsing and extraction, which register *)
(* the builtin capabilities they miss.  The registries are global to the   *)
(* process: only the work of one client is queued (client.ts:363), a       *)
(* watcher's start and other clients come in between.                      *)
(***************************************************************************)
LOCAL INSTANCE Integers
LOCAL INSTANCE Sequences
LOCAL INSTANCE FiniteSets
LOCAL INSTANCE SequencesExt
LOCAL INSTANCE TLC

CONSTANTS
    Owners,        \* the bootstraps that may overlap: a client's runs, a watcher, another client
    Plugins,       \* id -> [name, languages, extractors]: what a plugin's manifest and module say
    Installed,     \* owner -> a set of sequences of plugin ids: workspace, then global, then configured
    Contents,      \* owner -> a set of: the languages whose files or markers its repositories hold
    FailFast,      \* the owners whose configuration says so
    MaxBootstraps  \* bound on the bootstraps of a behaviour

VARIABLE registry

\* A language stands for its extensions too.  Builtin languages: "java" comes and goes with its signals, a "vue" file is
\* parsed by its script's parser ("tsx"), "markdown" stands for the common ones.
Common == {"markdown"}
Builtin == {"java", "tsx", "vue"} \union Common
Requires == [l \in {"vue"} |-> {"tsx"}]
Languages == Builtin \union UNION {Plugins[p].languages : p \in DOMAIN Plugins}

\* Named capabilities, extractors and detectors alike: the common ones, those of
\* Java sources, of Java builds and of Dubbo, and what plugins bring.
JavaNames == {"java-source", "java-build", "dubbo"}
Names == {"common"} \union JavaNames \union UNION {Plugins[p].extractors : p \in DOMAIN Plugins}

NoOne == <<"none">>
BuiltinOne == <<"builtin">>
Of(owner, plugin) == <<owner, plugin>>
Idle == [pc |-> "idle", alone |-> TRUE, plugins |-> <<>>, active |-> {}, content |-> {}, loaded |-> <<>>, file |-> "none"]

Init ==
    registry = [stacks |-> [l \in Languages |-> <<>>], named |-> [n \in Names |-> NoOne],
                tracked |-> [parsers |-> {}, names |-> {}],
                boots |-> [o \in Owners |-> Idle], started |-> 0]
-----------------------------------------------------------------------------
(* The registries. *)

Resolve(s, language) == IF s.stacks[language] = <<>> THEN NoOne ELSE Last(s.stacks[language])
Removed(stack, parser) == SelectSeq(stack, LAMBDA other : other # parser)
\* A parser object is in a stack once.
Pushed(stack, parser) == Append(Removed(stack, parser), parser)

KeepNames(s) ==
    [s EXCEPT !.stacks = [l \in Languages |-> SelectSeq(@[l], LAMBDA parser : <<l, parser>> \notin s.tracked.parsers)],
              !.tracked = [parsers |-> {}, names |-> {}]]
\* clearRegisteredPluginCapabilities: what is tracked goes, by object and by name.
Cleared(s) ==
    [s EXCEPT !.stacks = [l \in Languages |-> SelectSeq(@[l], LAMBDA parser : <<l, parser>> \notin s.tracked.parsers)],
              !.named = [n \in Names |-> IF n \in s.tracked.names THEN NoOne ELSE @[n]],
              !.tracked = [parsers |-> {}, names |-> {}]]

Withdrawn(named, names) ==
    [n \in Names |-> IF n \in names /\ named[n] = BuiltinOne THEN NoOne ELSE named[n]]

\* resetJavaBuiltinCapabilities: the topmost parser, and the builtins that still
\* hold their names.
JavaReset(s) ==
    [s EXCEPT !.stacks["java"] = Removed(@, Resolve(s, "java")), !.named = Withdrawn(@, JavaNames)]

\* Builtins are registered where nothing else answers.
Named(s, names) == [s EXCEPT !.named = [n \in Names |-> IF n \in names /\ @[n] = NoOne THEN BuiltinOne ELSE @[n]]]
Parsing(s, languages) ==
    [s EXCEPT !.stacks = [l \in Languages |-> IF l \in languages \intersect Builtin /\ @[l] = <<>>
                                              THEN <<BuiltinOne>> ELSE @[l]]]
\* registerBuiltinParsers: vue brings its delegates when it is new itself.
BuiltinParsers(s, languages) ==
    Parsing(s, languages \union Common
                 \union IF "vue" \in languages /\ s.stacks["vue"] = <<>> THEN Requires["vue"] ELSE {})

\* registerJavaBuiltinsForSignals, and registerBuiltinsForParsedFiles.
Signals(content) == content \intersect {"java", "pom.xml", "dubbo"}
JavaSignalled(content) ==
    (IF "java" \in content THEN {"java-source", "java-build"} ELSE {})
      \union (IF "pom.xml" \in content THEN {"java-build"} ELSE {})
      \union (IF "dubbo" \in content THEN {"dubbo"} ELSE {})
ForParsed(s, language) ==
    Named(s, {"common"} \union (IF language = "java" THEN {"java-source", "java-build"} ELSE {}))

\* registerLoadedPlugins: parsers on top of their stacks, names taken over,
\* all of it tracked.
Loaded(s, owner, plugins) ==
    FoldLeft(LAMBDA t, p :
               [t EXCEPT !.stacks = [l \in Languages |-> IF l \in Plugins[p].languages
                                                         THEN Pushed(@[l], Of(owner, p)) ELSE @[l]],
                         !.named = [n \in Names |-> IF n \in Plugins[p].extractors THEN Of(owner, p) ELSE @[n]],
                         !.tracked = [parsers |-> @.parsers \union (Plugins[p].languages \X {Of(owner, p)}),
                                      names |-> @.names \union Plugins[p].extractors]],
             s, plugins)
-----------------------------------------------------------------------------
(* Discovery. *)

\* Of two plugins of one name the first found counts, and a plugin named as a
\* builtin language stands in for its manifest.
Discovered(plugins) ==
    SelectSeq(plugins, LAMBDA p :
                \A k \in 1..(CHOOSE i \in DOMAIN plugins : plugins[i] = p) - 1 :
                    Plugins[plugins[k]].name # Plugins[p].name)
Bundled(plugins) == Builtin \ (Common \union {Plugins[plugins[k]].name : k \in DOMAIN plugins})

\* detectActiveLanguages: matched by a file or a marker, or required; of two
\* manifests with a language the last one's requirements count, the bundled.
Matches(language, content) == language \in content \/ (language = "java" /\ "pom.xml" \in content)
Active(plugins, content) ==
    LET declared == Bundled(plugins) \union UNION {Plugins[plugins[k]].languages : k \in DOMAIN plugins}
        matched == {l \in declared : Matches(l, content)}
    IN matched \union (IF "vue" \in matched \intersect Bundled(plugins) THEN Requires["vue"] ELSE {})

\* Language plugins of active languages; one without languages is loaded only
\* when the configuration names it as a module (loadConfiguredGenericPlugins).
Loadable(plugins, active) == SelectSeq(plugins, LAMBDA p : Plugins[p].languages \intersect active # {})
Generic(plugins) == SelectSeq(plugins, LAMBDA p : Plugins[p].languages = {})

\* Those that could be imported and validated; nothing when one may not fail.
Imported(wanted, broken, failFast) ==
    IF broken # {} /\ failFast THEN {} ELSE {SelectSeq(wanted, LAMBDA p : p \notin broken)}

\* loadWorkspacePluginPlanningSnapshot: the languages a client plans questions
\* with, of plugins it loads for itself, without touching the registries.
Planned(boot) ==
    UNION {Plugins[boot.loaded[k]].languages : k \in DOMAIN boot.loaded} \intersect Active(boot.plugins, boot.content)
-----------------------------------------------------------------------------
(* Steps.  Each ends where the code waits. *)

pc(o) == registry.boots[o].pc
\* A step of one owner ends the solitude of the others.
Interrupted(s, o) ==
    [s EXCEPT !.boots = [q \in Owners |-> IF q = o THEN @[q] ELSE [@[q] EXCEPT !.alone = FALSE]]]

\* A bootstrap begins: the previous one's plugins go, and Java.
Begin(o) ==
    /\ pc(o) = "idle"
    /\ registry.started < MaxBootstraps
    /\ registry' = Interrupted([JavaReset(Cleared(registry)) EXCEPT
                       !.started = @ + 1,
                       !.boots[o] = [Idle EXCEPT !.pc = "discovering",
                                                 !.alone = \A q \in Owners \ {o} : pc(q) = "idle"]], o)

\* Plugins and repositories have been read; the builtins are put in.
Detect(o) ==
    /\ pc(o) = "discovering"
    /\ \E found \in Installed[o], content \in Contents[o] :
         LET plugins == Discovered(found)
             active == Active(plugins, content) \union IF Signals(content) = {} THEN {} ELSE {"java"}
             parsers == IF "java" \in content THEN active ELSE active \ {"java"}
         IN registry' = Interrupted([BuiltinParsers(Named(registry, {"common"} \union JavaSignalled(content)), parsers)
                EXCEPT !.boots[o] = [@ EXCEPT !.pc = "loading", !.plugins = plugins, !.active = active,
                                              !.content = content]], o)

\* The plugins have been imported, all of them or some; with failFast the run
\* ends on the first that fails.
Register(o) ==
    /\ pc(o) = "loading"
    /\ LET boot == registry.boots[o]
           wanted == Loadable(boot.plugins, Active(boot.plugins, boot.content)) \o Generic(boot.plugins)
       IN \E broken \in SUBSET Range(wanted) :
            \/ /\ Imported(wanted, broken, o \in FailFast) = {}
               /\ registry' = Interrupted([registry EXCEPT !.boots[o] = [@ EXCEPT !.pc = "failed"]], o)
            \/ \E loaded \in Imported(wanted, broken, o \in FailFast) :
                 registry' = Interrupted([Loaded(registry, o, loaded) EXCEPT
                                            !.boots[o] = [@ EXCEPT !.pc = "ready", !.loaded = loaded]], o)

\* The run finds a file of a language: one without a parser by then is passed
\* over (fileScanner.ts:110-115).
Scan(o) ==
    /\ pc(o) = "ready"
    /\ \E language \in registry.boots[o].content \intersect Languages :
         registry' = Interrupted([registry EXCEPT !.boots[o] =
                       [@ EXCEPT !.pc = IF Resolve(registry, language) = NoOne THEN "overlooked" ELSE "scanned",
                                 !.file = language]], o)

\* It is parsed once its text was read: what is missing is registered there and
\* then, and a vue file asks for its delegate.
Parsed(s, language) == IF Resolve(s, language) = NoOne THEN BuiltinParsers(s, {language}) ELSE s
Served(s, language) ==
    /\ Resolve(s, language) # NoOne
    /\ language = "vue" /\ Resolve(s, "vue") = BuiltinOne => Resolve(s, "tsx") # NoOne
Parse(o) ==
    /\ pc(o) = "scanned"
    /\ LET file == registry.boots[o].file
           after == Parsed(registry, file)
       IN registry' = Interrupted([after EXCEPT
                        !.boots[o] = [@ EXCEPT !.pc = IF Served(after, file) THEN "parsed" ELSE "unparsed"]], o)

\* Facts are built of what was parsed (facts.ts:135-137): the extractors that
\* run are those registered then.
Extract(o) ==
    /\ pc(o) = "parsed"
    /\ LET file == registry.boots[o].file
       IN registry' = Interrupted([ForParsed(BuiltinParsers(registry, {file}), file) EXCEPT
                                     !.boots[o] = [@ EXCEPT !.pc = "extracting"]], o)

\* The run, or the start of the watcher, is over.
End(o) ==
    /\ pc(o) \in {"ready", "failed", "overlooked", "unparsed", "extracting"}
    /\ registry' = [registry EXCEPT !.boots[o] = Idle]

\* Another process, once the bound is reached.
Renew ==
    /\ registry.started = MaxBootstraps
    /\ \A o \in Owners : pc(o) = "idle"
    /\ registry' = [registry EXCEPT !.stacks = [l \in Languages |-> <<>>], !.named = [n \in Names |-> NoOne],
                                    !.tracked = [parsers |-> {}, names |-> {}], !.started = 0]

Next == Renew \/ \E o \in Owners : Begin(o) \/ Detect(o) \/ Register(o) \/ Scan(o) \/ Parse(o) \/ Extract(o) \/ End(o)
-----------------------------------------------------------------------------
(* Properties. *)

Undisturbed == {o \in Owners : registry.boots[o].alone}
Providers(boot, language) == SelectSeq(boot.loaded, LAMBDA p : language \in Plugins[p].languages)

\* A bootstrap that ran undisturbed forgets the past: whatever earlier runs,
\* watchers and clients registered, overwrote or left half done, each of its
\* languages is parsed by the last of its plugins for it, else by the builtin
\* parser, and no plugin of theirs is left (register.ts:81-82, :241-248).
PastIsForgotten ==
    \A o \in Undisturbed :
        pc(o) = "ready" =>
            LET boot == registry.boots[o]
            IN /\ \A l \in boot.active :
                    Resolve(registry, l) =
                      IF Providers(boot, l) # <<>> THEN Of(o, Last(Providers(boot, l)))
                      ELSE IF l \in Builtin /\ (l = "java" => l \in boot.content) THEN BuiltinOne ELSE NoOne
               /\ \A l \in Languages : Range(registry.stacks[l]) \subseteq
                    {BuiltinOne} \union {Of(o, boot.loaded[k]) : k \in DOMAIN boot.loaded}
               /\ \A n \in Names :
                    LET bringing == SelectSeq(boot.loaded, LAMBDA p : n \in Plugins[p].extractors)
                    IN registry.named[n] =
                         IF bringing # <<>> THEN Of(o, Last(bringing))
                         ELSE IF n \in {"common"} \union JavaSignalled(boot.content) THEN BuiltinOne ELSE NoOne

\* Nothing a plugin brought stays in the registries of the process once the
\* bookkeeping has forgotten it, however bootstraps overlap and fail.
PluginsAreTracked ==
    /\ \A l \in Languages : \A parser \in Range(registry.stacks[l]) :
          parser = BuiltinOne \/ <<l, parser>> \in registry.tracked.parsers
    /\ \A n \in Names : registry.named[n] \in {NoOne, BuiltinOne} \/ n \in registry.tracked.names

\* An undisturbed run finds and parses every file of a plugin that could be
\* loaded and of a builtin language, unless a plugin has taken the language's
\* name for something else (register.ts:301-308); and a file found of a builtin language is
\* parsed even if the registries were emptied meanwhile, except by way of the
\* delegate of a vue file (vue.ts:19-23).
FilesAreParsed ==
    \A o \in Owners :
        LET boot == registry.boots[o]
        IN /\ boot.pc \in {"overlooked", "unparsed"} =>
                ~boot.alone \/ (boot.file \notin Bundled(boot.plugins) \union Common /\ Providers(boot, boot.file) = <<>>)
           /\ boot.pc = "unparsed" => boot.file \notin Builtin \ {"vue"}

\* What questions are planned with, indexing has used (register.ts:165-169).
PlanningAgrees ==
    \A o \in Undisturbed : pc(o) = "ready" =>
        \A l \in Planned(registry.boots[o]) : Resolve(registry, l)[1] = o

PluginsComeAndGo == PlanningAgrees /\ PastIsForgotten /\ PluginsAreTracked /\ FilesAreParsed
=============================================================================

----------------------------- MODULE CliStartup -----------------------------
(***************************************************************************)
(* One reshape command after another (reshape-cli/src/lib.rs): the merge of *)
(* command line, config.toml and defaults, `workspace init`, `workspace     *)
(* clean`, and the start of the agent until the server listens.  Between    *)
(* commands the user edits files; a command may be killed at a file         *)
(* operation, where std::fs::write leaves an empty file.                    *)
(*                                                                         *)
(* Configuration values are abstracted to what the code tests: "bad" is a   *)
(* value the code refuses, "own" a value of the user's, "blank" the empty   *)
(* text, Unset no value.                                                   *)
(***************************************************************************)
EXTENDS Naturals

CONSTANTS
    Unset, Absent, Garbage, Failed,
    MaxRuns       \* bound: commands

VARIABLES
    toml,     \* ~/.reshape/config.toml: Absent, Garbage or a FileConfig
    given,    \* the file named by --config, likewise
    ws,       \* of each workspace: is it a directory?
    index,    \* of each workspace, index.html: "none", "empty", "default", "own"
    css,      \* of each workspace, assets/site.css, likewise
    run,      \* the running command: [cmd, opts, pc, cfg, generated], the last
              \* what ensure_workspace_index_html returned
    runs,
    killed    \* a command was killed

vars == <<toml, given, ws, index, css, run, runs, killed>>
Workspaces == {"home", "own"}

\* The fields the code decides by; every other field is merged like level.
Fields == {"workspace", "level", "host", "provider", "key", "search"}
EmptyConfig == [f \in Fields |-> Unset]

\* AppConfig::default and the unwrap_or of the server and log configuration.
Default ==
    [workspace |-> "home", level |-> "info", host |-> "loopback",
     provider |-> "openai", key |-> "blank", search |-> "off"]

\* What prepare_user_environment writes.
default_config_toml == Default

\* What a user writes: fields left out, good and refused values.
UserConfigs ==
    {[EmptyConfig EXCEPT !.key = "own"],
     [EmptyConfig EXCEPT !.key = "own", !.workspace = "own"],
     [EmptyConfig EXCEPT !.key = "own", !.level = "bad"],
     [EmptyConfig EXCEPT !.key = "own", !.host = "bad"],
     [EmptyConfig EXCEPT !.provider = "bad", !.search = "nokey"]}

\* The options the commands take; merge gives the subcommand's the priority.
Options == [config : {Unset, "given"}, workspace : {Unset, "own"}, level : {Unset, "bad"}]
Merge(outer, sub) ==
    [o \in DOMAIN outer |-> IF sub[o] # Unset THEN sub[o] ELSE outer[o]]
NoOptions == [config |-> Unset, workspace |-> Unset, level |-> Unset]

Idle == [cmd |-> "none", opts |-> NoOptions, pc |-> "idle", cfg |-> Default, generated |-> FALSE]

Init ==
    /\ toml = Absent
    /\ given \in {Absent, Garbage} \cup UserConfigs
    /\ ws = [w \in Workspaces |-> FALSE]
    /\ index = [w \in Workspaces |-> "none"]
    /\ css = [w \in Workspaces |-> "none"]
    /\ run = Idle
    /\ runs = 0
    /\ killed = FALSE

\* load_file_config: a missing file is an error only when it was asked for.
Loaded(opts) ==
    LET file == IF opts.config = Unset THEN toml ELSE given
    IN CASE file = Absent /\ opts.config # Unset -> Failed
         [] file = Absent /\ opts.config = Unset -> EmptyConfig
         [] file = Garbage -> Failed
         [] OTHER -> file

\* The merge: command line over file over defaults.
Effective(opts) ==
    [f \in Fields |->
        CASE f \in DOMAIN opts /\ opts[f] # Unset -> opts[f]
          [] OTHER -> IF Loaded(opts)[f] # Unset THEN Loaded(opts)[f] ELSE Default[f]]

Goto(pc) == run' = [run EXCEPT !.pc = pc]
Finish == run' = Idle
At(pc) == run.pc = pc

Start ==
    /\ At("idle")
    /\ runs < MaxRuns
    /\ \E cmd \in {"agent", "version", "clean", "init"}, outer, sub \in Options :
         /\ cmd = "version" => sub = NoOptions
         /\ run' = [cmd |-> cmd, opts |-> Merge(outer, sub), pc |-> "level", cfg |-> Default,
                    generated |-> FALSE]
    /\ runs' = runs + 1
    /\ UNCHANGED <<toml, given, ws, index, css, killed>>

\* resolved_log_level reads the file only when no level is given.
LogLevel ==
    /\ At("level")
    /\ IF \/ run.opts.level = "bad"
          \/ run.opts.level = Unset /\ Loaded(run.opts) = Failed
          \/ run.opts.level = Unset /\ Effective(run.opts).level = "bad"
         THEN Finish
         ELSE Goto("prepare")
    /\ UNCHANGED <<toml, given, ws, index, css, runs, killed>>

\* prepare_user_environment, which later steps repeat without effect.
Prepare ==
    /\ At("prepare")
    /\ ws' = [ws EXCEPT !["home"] = TRUE]
    /\ toml' = IF run.opts.config = Unset /\ toml = Absent THEN default_config_toml ELSE toml
    /\ CASE run.cmd = "version" -> Finish
         [] run.cmd = "agent" -> Goto("server")
         [] OTHER -> Goto("config")
    /\ UNCHANGED <<given, index, css, runs, killed>>

ServerConfig ==
    /\ At("server")
    /\ IF Loaded(run.opts) = Failed \/ Effective(run.opts).host = "bad"
         THEN Finish ELSE Goto("config")
    /\ UNCHANGED <<toml, given, ws, index, css, runs, killed>>

\* into_config and, for init, resolved_workspace_for_init, which creates the
\* workspace where the other commands insist on it.
IntoConfig ==
    /\ At("config")
    /\ LET refused == Loaded(run.opts) = Failed
           cfg == Effective(run.opts)
       IN IF run.cmd = "init"
            THEN IF refused /\ run.opts.workspace = Unset
                   THEN Finish /\ UNCHANGED ws
                   ELSE LET w == IF run.opts.workspace # Unset THEN "own" ELSE cfg.workspace
                        IN /\ run' = [run EXCEPT !.pc = "index", !.cfg.workspace = w]
                           /\ ws' = [ws EXCEPT ![w] = TRUE]
            ELSE /\ UNCHANGED ws
                 /\ IF refused THEN Finish
                    ELSE IF ~ws[cfg.workspace] \/ cfg.provider = "bad" THEN Finish
                    ELSE run' = [run EXCEPT !.cfg = cfg,
                                  !.pc = IF run.cmd = "clean" THEN "clean" ELSE "index"]
    /\ UNCHANGED <<toml, given, index, css, runs, killed>>

\* The workspace that was resolved and checked.
W == run.cfg.workspace

\* clean_workspace removes the entries one by one, in any order.
Clean ==
    /\ At("clean")
    /\ \/ index[W] # "none" /\ index' = [index EXCEPT ![W] = "none"]
          /\ UNCHANGED <<css, run>>
       \/ css[W] # "none" /\ css' = [css EXCEPT ![W] = "none"]
          /\ UNCHANGED <<index, run>>
       \/ index[W] = "none" /\ css[W] = "none" /\ Finish /\ UNCHANGED <<index, css>>
    /\ UNCHANGED <<toml, given, ws, runs, killed>>

\* ensure_workspace_index_html returns Ok(made).
After(made) ==
    run' = [run EXCEPT !.generated = made,
                       !.pc = IF run.cmd = "init" THEN "initialised" ELSE "build"]

\* The mutant writes the default page whatever is there.
OverwriteIndex ==
    /\ At("index")
    /\ Goto("css")
    /\ UNCHANGED <<toml, given, ws, index, css, runs, killed>>

\* ensure_workspace_index_html returns at once when index.html is a file, whether
\* it has a stylesheet or not.
EnsureIndex ==
    /\ At("index")
    /\ IF index[W] # "none" THEN After(FALSE) ELSE Goto("css")
    /\ UNCHANGED <<toml, given, ws, index, css, runs, killed>>

\* ensure_default_site_css keeps a stylesheet that is there.
EnsureCss ==
    /\ At("css")
    /\ css' = [css EXCEPT ![W] = IF @ = "none" THEN "default" ELSE @]
    /\ Goto("write")
    /\ UNCHANGED <<toml, given, ws, index, runs, killed>>

WriteIndex ==
    /\ At("write")
    /\ index' = [index EXCEPT ![W] = "default"]
    /\ After(TRUE)
    /\ UNCHANGED <<toml, given, ws, css, runs, killed>>

\* build_runtime: the provider wants a key, an enabled search too.
BuildRuntime ==
    /\ At("build")
    /\ IF run.cfg.key = "blank" \/ run.cfg.search = "nokey" THEN Finish ELSE Goto("serving")
    /\ UNCHANGED <<toml, given, ws, index, css, runs, killed>>

Stop ==
    /\ At("serving") \/ At("initialised")
    /\ Finish
    /\ UNCHANGED <<toml, given, ws, index, css, runs, killed>>

\* A command is killed; a file it was writing is created and empty.
Crash ==
    /\ \/ At("clean") /\ UNCHANGED <<toml, index, css>>
       \/ /\ At("prepare") /\ run.opts.config = Unset /\ toml = Absent
          /\ toml' = EmptyConfig
          /\ UNCHANGED <<index, css>>
       \/ /\ At("css") /\ css[W] = "none"
          /\ css' = [css EXCEPT ![W] = "empty"]
          /\ UNCHANGED <<toml, index>>
       \/ /\ At("write")
          /\ index' = [index EXCEPT ![W] = "empty"]
          /\ UNCHANGED <<toml, css>>
    /\ Finish
    /\ killed' = TRUE
    /\ UNCHANGED <<given, ws, runs>>

\* The user edits the configuration, makes the workspace, or writes or removes one
\* of its files, a page without its stylesheet and the reverse included.
Edit ==
    /\ At("idle")
    /\ \/ toml' \in UserConfigs /\ UNCHANGED <<ws, index, css>>
       \/ ~ws["own"] /\ ws' = [ws EXCEPT !["own"] = TRUE] /\ UNCHANGED <<toml, index, css>>
       \/ \E w \in Workspaces :
            /\ ws[w]
            /\ \E file \in {"none", "own"} :
                 \/ index' = [index EXCEPT ![w] = file] /\ UNCHANGED css
                 \/ css' = [css EXCEPT ![w] = file] /\ UNCHANGED index
            /\ UNCHANGED <<toml, ws>>
    /\ UNCHANGED <<given, run, runs, killed>>

Next ==
    \/ Start \/ LogLevel \/ Prepare \/ ServerConfig \/ IntoConfig \/ Clean
    \/ EnsureIndex \/ EnsureCss \/ WriteIndex \/ BuildRuntime \/ Stop
    \/ Crash \/ Edit

Spec == Init /\ [][Next]_vars

-----------------------------------------------------------------------------

TypeOK ==
    /\ ws \in [Workspaces -> BOOLEAN]
    /\ index \in [Workspaces -> {"none", "empty", "default", "own"}]
    /\ css \in [Workspaces -> {"none", "empty", "default", "own"}]
    /\ \A w \in Workspaces : index[w] # "none" \/ css[w] # "none" => ws[w]
    /\ run.cfg.workspace \in Workspaces
    /\ runs \in 0 .. MaxRuns
    /\ killed \in BOOLEAN

\* A file the user wrote goes only by the user's hand, between commands, or by
\* `workspace clean`: neither the start of the agent, nor init, nor a crash of them
\* replaces it (ensure_workspace_index_html, ensure_default_site_css).
UserFilesKept ==
    [][\A w \in Workspaces :
         /\ index[w] = "own" /\ index'[w] # "own" => run.cmd \in {"clean", "none"}
         /\ css[w] = "own" /\ css'[w] # "own" => run.cmd \in {"clean", "none"}]_vars

\* Without a file, with the file prepare_user_environment writes and with the
\* empty one a killed write leaves, the agent is configured alike: the file
\* changes nothing until the user edits it.
GeneratedConfigIsNeutral ==
    toml \notin UserConfigs \cup {Garbage} =>
        Effective(NoOptions) = Default

\* lib.rs: init creates "the configured workspace and default page files".
\* A command that did not fail leaves, or serves, a workspace with a page; a page it
\* made itself is the default one, with a stylesheet beside it, whatever was killed
\* before; and until a command is killed neither file is an empty one.  A page that
\* was there is served as it is, with or without a stylesheet (cli_smoke.rs,
\* startup_keeps_existing_workspace_index).
PageFilesThere ==
    run.pc \in {"initialised", "serving"} =>
        /\ index[W] # "none"
        /\ run.generated => index[W] = "default" /\ css[W] # "none"
        /\ ~killed => index[W] # "empty" /\ css[W] # "empty"

=============================================================================

-------------------------- MODULE MCWorkspaceSuite --------------------------
(***************************************************************************)
(* What is computed or kept on the host: the session file, the start of the*)
(* command line tool, the file tools of a turn and the links they follow,  *)
(* the sources of the options of agent-browser, its command lines and      *)
(* their handlers, the search for a Chrome that runs, its chat, the network*)
(* log and the times of a HAR entry.  The parts share no state; a behaviour*)
(* is one of one part, chosen at the start, so the states of this          *)
(* specification are those of its parts.                                   *)
(***************************************************************************)
EXTENDS SessionFile

CONSTANTS
    Nothing, Unset, Absent, Garbage, Failed,   \* values of their own
    MaxRuns,                                   \* bound: commands
    Profiles, Ports, MaySlow,                  \* as AutoConnect has them
    MaxTurns, MaxSteps, MaxCalls, KeepRecent,  \* as ChatLoop has them
    UserEdits, ToolCalls, FileNames, Lines,    \* as WorkspaceTools has them
    MaxTime                                    \* as HarTimings has it

ASSUME PlacesAssumption ==
    /\ Profiles \in Seq({Profiles[i] : i \in DOMAIN Profiles})
    /\ Ports \in Seq({Ports[i] : i \in DOMAIN Ports})
    /\ MaySlow \in BOOLEAN
ASSUME ToolsAssumption == UserEdits \in Nat /\ ToolCalls \in Nat /\ Lines \in Nat
ASSUME ChatAssumption ==
    MaxTurns \in Nat /\ MaxSteps \in Nat /\ MaxCalls \in Nat /\ KeepRecent \in Nat \ {0}

VARIABLES
    part,   \* the component this behaviour is of
    v1, v2, v3, v4, v5, v6, v7, v8, v9, v10, v11, v12   \* its variables

Off == "off"   \* of a variable the part has no use for
shared == <<v1, v2, v3, v4, v5, v6, v7, v8, v9, v10, v11, v12>>
all == <<vars, part, shared>>

\* A flag of each kind, values for them and a word of the command itself.
Words == {"--session", "--headed", "--format", "--ext", "--config", "-v",
          "true", "false", "png", "open"}

\* The profiles and ports the search looks at.
SomeProfiles == <<"chrome", "chromium">>
SomePorts == <<"9222">>

Startup == INSTANCE CliStartup WITH
    Unset <- Unset, Absent <- Absent, Garbage <- Garbage, Failed <- Failed,
    MaxRuns <- MaxRuns, toml <- v1, given <- v2, ws <- v3,
    index <- v4, css <- v5, run <- v6, runs <- v7, killed <- v8

\* A bound, and what no value of a configuration and no configuration is.
ASSUME StartupAssumption ==
    /\ MaxRuns \in Nat
    /\ Unset \notin {"given", "home", "own", "info", "bad", "loopback", "openai",
                     "off", "nokey", "blank"}
    /\ Absent # Garbage /\ Absent # Failed /\ Garbage # Failed
    /\ {Absent, Garbage, Failed} \cap
          ({Startup!Default, Startup!EmptyConfig} \cup Startup!UserConfigs) = {}

Tools == INSTANCE WorkspaceTools WITH
    UserEdits <- UserEdits, MaxCalls <- ToolCalls, Names <- FileNames,
    Lines <- Lines, disk <- v1, stamp <- v2, clock <- v3, turn <- v4, tool <- v5,
    edits <- v6, calls <- v7

Options == INSTANCE FlagSources WITH
    Options <- {"session", "headed", "format", "ext"}, Tokens <- Words,
    MaxArgs <- 3, None <- Nothing, input <- v1, result <- v2

Search == INSTANCE AutoConnect WITH
    Profiles <- Profiles, Ports <- Ports, MaySlow <- MaySlow, serves <- v1, file <- v2, pc <- v3, at <- v4,
    method <- v5, steady <- v6, result <- v7

Chat == INSTANCE ChatLoop WITH
    MaxTurns <- MaxTurns, MaxSteps <- MaxSteps, MaxCalls <- MaxCalls,
    KeepRecent <- KeepRecent, msgs <- v1, phase <- v2, todo <- v3, step <- v4,
    ran <- v5, partial <- v6, ids <- v7, turns <- v8

Log == INSTANCE NetworkLog WITH
    Ids <- {"r1", "r2"}, Hops <- {1, 2}, Sessions <- {"tab", "other"},
    BufferSize <- 3, MaxEvents <- 4, None <- Nothing, net <- v1, buffer <- v2,
    emitted <- v3, lost <- v4, har <- v5, entries <- v6, tracking <- v7,
    tracked <- v8, file <- v9, since <- v10, busy <- v11, shown <- v12

Timings == INSTANCE HarTimings WITH
    MaxTime <- MaxTime, t <- v1, result <- v2

Links == INSTANCE LinkTargets WITH
    MaxDepth <- 2, MaxLength <- 5, Unsupported <- Nothing, dir <- v1,
    href <- v2, parts <- v3, done <- v4

Contract == INSTANCE CommandContract WITH
    browser <- v1, refs <- v2, frame <- v3, left <- v4, files <- v5,
    answer <- v6

SuiteInit ==
    /\ Init
    /\ \/ /\ part = "session" /\ v1 = Off /\ v2 = Off /\ v3 = Off
          /\ v4 = Off /\ v5 = Off /\ v6 = Off /\ v7 = Off /\ v8 = Off
          /\ v9 = Off /\ v10 = Off /\ v11 = Off /\ v12 = Off
       \/ /\ part = "startup" /\ Startup!Init /\ v9 = Off
          /\ v10 = Off /\ v11 = Off /\ v12 = Off
       \/ /\ part = "tools" /\ Tools!Init /\ v8 = Off /\ v9 = Off
          /\ v10 = Off /\ v11 = Off /\ v12 = Off
       \/ /\ part = "options" /\ Options!Init /\ v3 = Off /\ v4 = Off
          /\ v5 = Off /\ v6 = Off /\ v7 = Off /\ v8 = Off /\ v9 = Off
          /\ v10 = Off /\ v11 = Off /\ v12 = Off
       \/ /\ part = "search" /\ Search!Init /\ v8 = Off /\ v9 = Off
          /\ v10 = Off /\ v11 = Off /\ v12 = Off
       \/ /\ part = "chat" /\ Chat!Init /\ v9 = Off /\ v10 = Off
          /\ v11 = Off /\ v12 = Off
       \/ part = "log" /\ Log!Init
       \/ /\ part = "timings" /\ Timings!Init /\ v3 = Off /\ v4 = Off
          /\ v5 = Off /\ v6 = Off /\ v7 = Off /\ v8 = Off /\ v9 = Off
          /\ v10 = Off /\ v11 = Off /\ v12 = Off
       \/ /\ part = "links" /\ Links!Init /\ v5 = Off /\ v6 = Off
          /\ v7 = Off /\ v8 = Off /\ v9 = Off /\ v10 = Off /\ v11 = Off
          /\ v12 = Off
       \/ /\ part = "contract" /\ Contract!Init /\ v7 = Off /\ v8 = Off
          /\ v9 = Off /\ v10 = Off /\ v11 = Off /\ v12 = Off

SessionFileStep == part = "session" /\ Next /\ UNCHANGED <<part, shared>>

StartupOnly == part = "startup" /\ UNCHANGED <<part, vars, v9, v10, v11, v12>>
StartupStep == StartupOnly /\ Startup!Next

ToolsOnly == part = "tools" /\ UNCHANGED <<part, vars, v8, v9, v10, v11, v12>>
ToolsStep == ToolsOnly /\ Tools!Next

OptionsOnly == part = "options" /\ UNCHANGED <<part, vars, v3, v4, v5, v6, v7, v8, v9, v10, v11, v12>>
OptionsStep == OptionsOnly /\ Options!Next

SearchOnly == part = "search" /\ UNCHANGED <<part, vars, v8, v9, v10, v11, v12>>
SearchStep == SearchOnly /\ Search!Next

ChatOnly == part = "chat" /\ UNCHANGED <<part, vars, v9, v10, v11, v12>>
ChatStep == ChatOnly /\ Chat!Next

LogOnly == part = "log" /\ UNCHANGED <<part, vars>>
LogStep == LogOnly /\ Log!Next

TimingsOnly == part = "timings" /\ UNCHANGED <<part, vars, v3, v4, v5, v6, v7, v8, v9, v10, v11, v12>>
TimingsStep == TimingsOnly /\ Timings!Next

LinksOnly == part = "links" /\ UNCHANGED <<part, vars, v5, v6, v7, v8, v9, v10, v11, v12>>
LinksStep == LinksOnly /\ Links!Next

ContractOnly == part = "contract" /\ UNCHANGED <<part, vars, v7, v8, v9, v10, v11, v12>>
ContractStep == ContractOnly /\ Contract!Next

SuiteNext ==
    \/ SessionFileStep
    \/ StartupStep
    \/ ToolsStep
    \/ OptionsStep
    \/ SearchStep
    \/ ChatStep
    \/ LogStep
    \/ TimingsStep
    \/ LinksStep
    \/ ContractStep

SuiteSpec == SuiteInit /\ [][SuiteNext]_all

-----------------------------------------------------------------------------

\* lib.rs: a command that did not fail leaves, or serves, a page, one it made itself
\* with a stylesheet beside it, and neither is empty until a command is killed; no
\* file, the generated one and the empty one of a killed write configure the agent
\* alike; and what the user wrote goes only by the user's hand between commands or by
\* workspace clean, also when commands are killed.
StartupKeepsWorkspace ==
    /\ [](part = "startup" =>
            Startup!TypeOK /\ Startup!PageFilesThere /\ Startup!GeneratedConfigIsNeutral)
    /\ [][part = "startup" => \A w \in Startup!Workspaces :
            /\ v4[w] = "own" /\ v4'[w] # "own" => v6.cmd \in {"clean", "none"}
            /\ v5[w] = "own" /\ v5'[w] # "own" => v6.cmd \in {"clean", "none"}]_all

\* rpc_server.rs, file.rs and map.rs: while nobody else edits, changedFiles names
\* the files the turn wrote and left there; following next_offset reads every
\* line once and in order; and an orphan of a complete map is linked from no page.
ToolsTellTheWorkspace ==
    part = "tools" =>
        /\ Tools!TypeOK
        /\ Tools!ReportedIsExact
        /\ Tools!PagesCoverFile
        /\ Tools!OrphansAreUnlinked

\* What is computed step by step is what a definition that sees all of the input
\* says.  flags.rs: project over user, environment over both, arguments over
\* everything, but for an environment variable that says false; clean_args keeps
\* the words parse_flags leaves alone, but for a truth value after -v; and
\* load_config reads the file that parse_flags takes for the value of --config.
\* map.rs: a link leads to the file its whole path names.  actions.rs: the phases
\* of a HAR entry count no millisecond twice, unless the first of several begins
\* at 0.
AlgorithmsAgree ==
    /\ part = "options" =>
         Options!Precedence /\ Options!ScannersAgree /\ Options!ConfigIsTheFlag
    /\ part = "links" => Links!TypeOK /\ Links!TargetIsReference
    /\ part = "timings" => Timings!WithinElapsed

\* chrome.rs: the search says that no Chrome runs only when each one that could
\* be found when it began has quit since.
FindsRunning == part = "search" => Search!TypeOK /\ Search!FindsRunning

\* chat.rs: every message with calls is followed by their answers, also after a
\* compaction and a stream that broke; a call whose arguments were cut short
\* starts no command; and compaction keeps the newest messages and the question
\* just asked.
ChatStaysWellFormed ==
    /\ [](part = "chat" => Chat!TypeOK /\ Chat!WellFormed /\ Chat!PartialNeverRuns)
    /\ [][part = "chat" /\ v2 = "prompt" /\ v2' = "request" =>
            Chat!KeepsNewest(Append(v1, Chat!User), v1')]_all

\* actions.rs: unless the buffer overflowed, the status an entry shows is that
\* of its own response, however often the request was redirected, and a HAR file
\* holds in order all that was sent while the recording was on; and
\* request_detail of a request that was not redirected shows one exchange.
NetworkLogIsTrue ==
    part = "log" =>
        /\ Log!TypeOK
        /\ Log!StatusOfItsOwn
        /\ Log!HarComplete
        /\ Log!DetailUnlessRedirected

\* commands.rs and actions.rs: every line the parser accepts, except a batch in a
\* batch, has a handler that gets the parameters it asks for, except two that the
\* property names, and a browser when it works on the page; references and a frame
\* of a page that was left come from the commands the property names and from no
\* other, whatever call fails.
LinesFitHandlers ==
    part = "contract" =>
        /\ Contract!TypeOK
        /\ Contract!EveryLineIsHandled
        /\ Contract!NothingIsMissing
        /\ Contract!BrowserWhenNeeded
        /\ Contract!StaleHasKnownCause

=============================================================================

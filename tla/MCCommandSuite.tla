--------------------------- MODULE MCCommandSuite ---------------------------
(***************************************************************************)
(* From the client to the browser: daemons and the clients that look for   *)
(* them, the daemons reshape starts in its own process, policy and         *)
(* confirmation, launch and close, tabs, routes and the domain filter,     *)
(* downloads, traces and profiles.  The parts share no state; a behaviour  *)
(* is one of one part, chosen at the start, so the states of this          *)
(* specification are those of its parts.                                   *)
(***************************************************************************)
EXTENDS CommandGate, Sequences, TLC

CONSTANTS
    Daemons,                          \* of the clients' part
    MaxRetries, ClientPolls,          \* of a client, and how often it looks for a daemon
    MaxActive, MaxFaults, MayReuse,   \* bounds of that part
    Hosted,                           \* the daemons reshape starts in its own process
    Extensions, MaxTurns, Sequential, \* as EmbeddedBrowser has them
    MaxBrowsers,                      \* a bound of the launches
    Files, Tabs, Active, Patience, Looks, MaxQueue,  \* as Downloads has them
    MaxBatches, Limit, Capacity, MaxSteps, MaxNoise  \* as Tracing has them

ASSUME DaemonAssumption ==
    None \notin Daemons /\ MaxRetries \in Nat \ {0} /\ ClientPolls \in Nat
ASSUME HostedAssumption ==
    None \notin Hosted /\ Extensions \in BOOLEAN /\ Sequential \in BOOLEAN
ASSUME DownloadAssumption ==
    {None, "old"} \cap Files = {} /\ Patience \in Nat /\ Looks \in Nat /\ MaxQueue \in Nat

VARIABLES
    part,   \* the component this behaviour is of
    v1, v2, v3, v4, v5, v6, v7, v8, v9, v10, v11, v12, v13, v14, v15   \* its variables

Off == "off"   \* of a variable the part has no use for
shared == <<v1, v2, v3, v4, v5, v6, v7, v8, v9, v10, v11, v12, v13, v14, v15>>
all == <<vars, part, shared>>

\* Clients are interchangeable, and so are daemons.
Symmetry == Permutations(Clients) \cup Permutations(Daemons)

Policy(allow, deny, confirm, default) ==
    [allow |-> allow, deny |-> deny, confirm |-> confirm, default |-> default]

\* A policy file of each kind: with each list, with and without a default.
SomePolicies == {
    Policy(None, {}, {}, "none"),
    Policy(None, {"fill"}, {"fill", "click"}, "none"),
    Policy({}, {}, {"click"}, "deny"),
    Policy({"click", "fill"}, {}, {"fill"}, "allow"),
    Policy(None, {}, {"fill"}, "deny"),
    Policy({"click", "confirm", "deny"}, {}, {"click"}, "none")}

Daemon == INSTANCE DaemonLifecycle WITH
    Clients <- Clients, Daemons <- Daemons, None <- None,
    MaxRetries <- MaxRetries, MaxPolls <- ClientPolls, MaxActive <- MaxActive,
    MaxFaults <- MaxFaults, MayReuse <- MayReuse, sock <- v1, pid <- v2, ver <- v3, st <- v4, version <- v5, term <- v6,
    client <- v7, reqs <- v8, foreign <- v9, faults <- v10, raced <- v11

Embedded == INSTANCE EmbeddedBrowser WITH
    Daemons <- Hosted, None <- None, Extensions <- Extensions,
    MaxTurns <- MaxTurns, Sequential <- Sequential, host <- v1, st <- v2, page <- v3, sock <- v4, ext <- v5, thread <- v6, turns <- v7,
    report <- v8

Launch == INSTANCE BrowserLaunch WITH
    Clients <- Clients, MaxBrowsers <- MaxBrowsers, env <- v1, browser <- v2,
    started <- v3, alive <- v4, hash <- v5, safari <- v6, rx <- v7,
    fetch <- v8, dialogs <- v9, stream <- v10, refs <- v11, open <- v12,
    pending <- v13, pc <- v14, ask <- v15

TabList == INSTANCE BrowserTabs WITH
    Targets <- {"a", "b", "c"}, None <- None, MaxEvents <- 2, MaxIds <- 4,
    target <- v1, pages <- v2, active <- v3, next <- v4, refs <- v5,
    events <- v6, pc <- v7, given <- v8

Routes == INSTANCE FetchRoutes WITH
    Tabs <- {"t1", "t2"}, Patterns <- {<<"a", "*">>, <<"*", "b">>},
    Urls <- {<<"a">>}, Allowed <- None, Opaque <- {}, HeaderUrls <- {<<"a">>},
    Types <- {}, None <- None, MaxRoutes <- 2, active <- v1, routes <- v2,
    headers <- v3, on <- v4, request <- v5, task <- v6

Filter == INSTANCE FetchRoutes WITH
    Tabs <- {"t1"}, Patterns <- {<<"a", "*">>, <<"a", "*", "b">>},
    Urls <- {<<"b">>, <<"a">>, <<"a", "b">>, <<"a", "c">>},
    Allowed <- {<<"b">>, <<"a", "b">>}, Opaque <- {<<"a", "c">>},
    HeaderUrls <- {<<"a">>, <<"a", "b">>, <<"a", "c">>},
    Types <- {"document"}, None <- None, MaxRoutes <- 2, active <- v1,
    routes <- v2, headers <- v3, on <- v4, request <- v5, task <- v6

Download == INSTANCE Downloads WITH
    Files <- Files, NoFile <- None, Tabs <- Tabs, Active <- Active,
    Domain <- "Page", Patience <- Patience, Looks <- Looks,
    MaxQueue <- MaxQueue, tab <- v1, dl <- v2, set <- v3, named <- v4, saved <- v5,
    dest <- v6, cmd <- v7, rx <- v8, mine <- v9, mixed <- v10, result <- v11

Trace == INSTANCE Tracing WITH
    Tabs <- Tabs, MaxBatches <- MaxBatches, Limit <- Limit, Capacity <- Capacity,
    MaxSteps <- MaxSteps, MaxNoise <- MaxNoise, None <- None, browser <- v1, tab <- v2,
    tracing <- v3, active <- v4, stop <- v5, saved <- v6, steps <- v7, lost <- v8

\* A channel holds something, and None is no tracing and no stop.
ASSUME TraceAssumption ==
    /\ MaxBatches \in Nat /\ Limit \in Nat /\ MaxSteps \in Nat /\ MaxNoise \in Nat
    /\ Capacity \in Nat \ {0}
    /\ None \notin Trace!Tracings \cup Trace!Stops

SuiteInit ==
    /\ Init
    /\ \/ /\ part = "daemon" /\ Daemon!Init /\ v12 = Off /\ v13 = Off
          /\ v14 = Off /\ v15 = Off
       \/ /\ part = "embedded" /\ Embedded!Init /\ v9 = Off /\ v10 = Off
          /\ v11 = Off /\ v12 = Off /\ v13 = Off /\ v14 = Off /\ v15 = Off
       \/ /\ part = "gate" /\ v1 = Off /\ v2 = Off /\ v3 = Off /\ v4 = Off
          /\ v5 = Off /\ v6 = Off /\ v7 = Off /\ v8 = Off /\ v9 = Off /\ v10 = Off
          /\ v11 = Off /\ v12 = Off /\ v13 = Off /\ v14 = Off /\ v15 = Off
       \/ part = "launch" /\ Launch!Init
       \/ /\ part = "tabs" /\ TabList!Init /\ v9 = Off /\ v10 = Off
          /\ v11 = Off /\ v12 = Off /\ v13 = Off /\ v14 = Off /\ v15 = Off
       \/ /\ part = "routes" /\ Routes!Init /\ v7 = Off /\ v8 = Off
          /\ v9 = Off /\ v10 = Off /\ v11 = Off /\ v12 = Off /\ v13 = Off
          /\ v14 = Off /\ v15 = Off
       \/ /\ part = "filter" /\ Filter!Init /\ v7 = Off /\ v8 = Off
          /\ v9 = Off /\ v10 = Off /\ v11 = Off /\ v12 = Off /\ v13 = Off
          /\ v14 = Off /\ v15 = Off
       \/ /\ part = "download" /\ Download!Init /\ v12 = Off /\ v13 = Off
          /\ v14 = Off /\ v15 = Off
       \/ /\ part = "trace" /\ Trace!Init /\ v9 = Off /\ v10 = Off
          /\ v11 = Off /\ v12 = Off /\ v13 = Off /\ v14 = Off /\ v15 = Off
    /\ part # "gate" => policy = CHOOSE p \in Policies : TRUE

DaemonOnly == part = "daemon" /\ UNCHANGED <<part, vars, v12, v13, v14, v15>>
DaemonStep == DaemonOnly /\ Daemon!Next

EmbeddedOnly == part = "embedded" /\ UNCHANGED <<part, vars, v9, v10, v11, v12, v13, v14, v15>>
EmbeddedStep == EmbeddedOnly /\ Embedded!Next

GateStep == part = "gate" /\ Next /\ UNCHANGED <<part, shared>>

LaunchOnly == part = "launch" /\ UNCHANGED <<part, vars>>
LaunchStep == LaunchOnly /\ Launch!Next

TabListOnly == part = "tabs" /\ UNCHANGED <<part, vars, v9, v10, v11, v12, v13, v14, v15>>
TabListStep == TabListOnly /\ TabList!Next

RoutesOnly == part = "routes" /\ UNCHANGED <<part, vars, v7, v8, v9, v10, v11, v12, v13, v14, v15>>
RoutesStep == RoutesOnly /\ Routes!Next

FilterOnly == part = "filter" /\ UNCHANGED <<part, vars, v7, v8, v9, v10, v11, v12, v13, v14, v15>>
FilterStep == FilterOnly /\ Filter!Next

DownloadOnly == part = "download" /\ UNCHANGED <<part, vars, v12, v13, v14, v15>>
DownloadStep == DownloadOnly /\ Download!Next

TraceOnly == part = "trace" /\ UNCHANGED <<part, vars, v9, v10, v11, v12, v13, v14, v15>>
TraceStep == TraceOnly /\ Trace!Next

SuiteNext ==
    \/ DaemonStep
    \/ EmbeddedStep
    \/ GateStep
    \/ LaunchStep
    \/ TabListStep
    \/ RoutesStep
    \/ FilterStep
    \/ DownloadStep
    \/ TraceStep

SuiteSpec == SuiteInit /\ [][SuiteNext]_all

-----------------------------------------------------------------------------

\* What is claimed of daemons without a race is not about the states after one.
NoRace == part = "daemon" => ~v11   \* raced

\* connection.rs: unless two clients, or a client and a leaving daemon, raced, a
\* daemon that listens is found by its socket and its pid, and a stale one is
\* dead before the next one is started.
DaemonUnlessRaced ==
    part = "daemon" => Daemon!TypeOK /\ Daemon!FoundUnlessRaced /\ Daemon!OneDaemonUnlessRaced

\* facade.rs: when turns come after the start-up task, one daemon thread starts
\* at a time, no failed bind ends the process of the host, and one daemon has a
\* browser window, which can be reached.
EmbeddedInOrder ==
    part = "embedded" =>
        Embedded!TypeOK /\ Embedded!HostSurvivesInOrder /\ Embedded!OneWindowInOrder

\* actions.rs: event stream, interception, dialogs and stream server belong to
\* the browser the daemon has, however it came to have it; no launch, roll-back or
\* close leaves a browser of ours behind; a launch that reuses a browser of our
\* own reuses one with the options that were asked for; and a command that gets
\* through leaves the daemon with a browser that answers, although browsers die
\* at any time before it.
LaunchKeepsUp ==
    /\ [](part = "launch" =>
            Launch!TypeOK /\ Launch!ListenersFollowBrowser /\ Launch!NoStrayBrowser)
    /\ [][part = "launch" => \A c \in Clients :
            /\ Launch!Launch(c) /\ v2'.id # 0 /\ {v2'.ask, v15[c]} \subseteq Launch!Own
                 => Launch!launch_hash(v2'.ask) = Launch!launch_hash(v15[c])
            /\ Launch!Command(c) /\ v2'.id # 0 => v2' \in v4']_all

\* browser.rs and actions.rs: a tab id names one page for ever, no page is listed
\* twice and no two tabs have one label; when the events are read, the list is
\* what the browser shows; and when another tab goes, the active one stays active.
TabsFollowBrowser ==
    /\ [](part = "tabs" =>
            /\ TabList!TypeOK
            /\ TabList!IdsAreStable
            /\ TabList!LabelsAreUnique
            /\ TabList!ListIsBrowser)
    /\ [][(part = "tabs" /\ Len(v2') < Len(v2) /\ TabList!Tracked(v2') \subseteq TabList!Tracked(v2)
             /\ TabList!Here \in TabList!Tracked(v2')) => (TabList!Here)' = TabList!Here]_all

\* actions.rs: as long as a route exists, the tab it was made in pauses what it is
\* about, whatever is added, removed or navigated to; and a paused request whose
\* answer the browser takes becomes what the first route that matches and does
\* something says, whichever are added or removed before the background task gets
\* to it, but only within the filter: outside it a document never loads, and
\* anything else only with a scheme that is not http or https.
RoutesDecide ==
    /\ [](part = "routes" => Routes!TypeOK /\ Routes!RouteStaysOn)
    /\ [](part = "filter" => Filter!TypeOK)
    /\ [][(part = "filter" /\ v5.state = "paused" /\ v5'.state # "paused")
            => Filter!DecidedAsAsked(v5, v5'.state)]_all

\* actions.rs: download says ok only when the file at the path is the one its click
\* asked for, unless another download was heard of or the file was late; the file
\* it reports was never downloaded by another tab, when the browser reports page
\* by page; and it times out on a download that ended, however soon after the
\* click, only when the time ran out before the event was read.
DownloadIsOurs ==
    part = "download" =>
        /\ Download!TypeOK
        /\ Download!OkMeansFile
        /\ Download!OkMeansOurs
        /\ Download!FileOfThisTab
        /\ Download!NotMissed

\* tracing.rs: what was gathered is in the file, whole, unless the answer warns, the
\* loop lagged behind its channel, or a trace was stopped as a profile, whose file is
\* empty; a profile is never larger than the limit, and the answer says when batches
\* were left out; and until an answer of the browser is missing or the browser goes,
\* the flag is up exactly while it traces or is being stopped.
TraceIsWhole ==
    part = "trace" =>
        /\ Trace!TypeOK
        /\ Trace!SavedIsWhole
        /\ Trace!ProfileWithinLimit
        /\ Trace!FlagIsTrue

=============================================================================

---------------------------- MODULE MCMediaSuite ----------------------------
(***************************************************************************)
(* What the daemon produces while other things go on: downloads,           *)
(* recordings, the live stream of a tab, traces and profiles, and the      *)
(* events of a chat in the dashboard.  The parts share no state; a         *)
(* behaviour is one of one part, chosen at the start, so the states of this*)
(* specification are those of its parts.                                   *)
(***************************************************************************)
EXTENDS Recording, SequencesExt

CONSTANTS
    StreamTabs, Viewers,          \* as ScreencastStream has them
    StreamChanges, SharedChanges  \* bounds: its changes, in each of the two parts

ASSUME StreamAssumption == None \notin StreamTabs /\ Viewers \in Nat

VARIABLES
    part,   \* the component this behaviour is of
    v1, v2, v3, v4, v5, v6, v7, v8, v9, v10, v11, v12, v13, v14   \* its variables

Off == "off"   \* of a variable the part has no use for
shared == <<v1, v2, v3, v4, v5, v6, v7, v8, v9, v10, v11, v12, v13, v14>>
all == <<vars, part, shared>>

Download == INSTANCE Downloads WITH
    Files <- {"f1", "f2"}, NoFile <- None, Tabs <- {"t1"}, Active <- "t1",
    Domain <- "Browser", Patience <- 1, Looks <- 1, MaxQueue <- 2, tab <- v1,
    dl <- v2, set <- v3, named <- v4, saved <- v5, dest <- v6, cmd <- v7,
    rx <- v8, mine <- v9, mixed <- v10, result <- v11

Stream == INSTANCE ScreencastStream WITH
    Tabs <- StreamTabs, MaxViewers <- Viewers, MaxChanges <- StreamChanges,
    Recordings <- FALSE, Disables <- FALSE, Cli <- FALSE, None <- None,
    browser <- v1, active <- v2, cast <- v3, cli <- v4, server <- v5,
    slot <- v6, sid <- v7, vp <- v8, viewers <- v9, permit <- v10, sc <- v11,
    sync <- v12, loop <- v13, changes <- v14

Shared == INSTANCE ScreencastStream WITH
    Tabs <- StreamTabs, MaxViewers <- Viewers, MaxChanges <- SharedChanges,
    Recordings <- TRUE, Disables <- TRUE, Cli <- TRUE, None <- None,
    browser <- v1, active <- v2, cast <- v3, cli <- v4, server <- v5,
    slot <- v6, sid <- v7, vp <- v8, viewers <- v9, permit <- v10, sc <- v11,
    sync <- v12, loop <- v13, changes <- v14

Trace == INSTANCE Tracing WITH
    Tabs <- {"t1", "t2"}, MaxBatches <- 2, Limit <- 3, Capacity <- 2,
    MaxSteps <- 3, MaxNoise <- 2, None <- None, browser <- v1, tab <- v2,
    tracing <- v3, active <- v4, stop <- v5, saved <- v6, steps <- v7, lost <- v8

Chat == INSTANCE DashboardChat WITH
    MaxFront <- 0, KeepRecent <- 2, MaxSteps <- 2, MaxDeltas <- 3,
    front <- v1, kept <- v2, recent <- v3, phase <- v4, out <- v5, text <- v6,
    part <- v7, calls <- v8, todo <- v9, step <- v10, deltas <- v11, reads <- v12

Compact == INSTANCE DashboardChat WITH
    MaxFront <- 5, KeepRecent <- 2, MaxSteps <- 0, MaxDeltas <- 0,
    front <- v1, kept <- v2, recent <- v3, phase <- v4, out <- v5, text <- v6,
    part <- v7, calls <- v8, todo <- v9, step <- v10, deltas <- v11, reads <- v12

SuiteInit ==
    /\ Init
    /\ \/ /\ part = "download" /\ Download!Init /\ v12 = Off /\ v13 = Off
          /\ v14 = Off
       \/ /\ part = "record" /\ v1 = Off /\ v2 = Off /\ v3 = Off /\ v4 = Off
          /\ v5 = Off /\ v6 = Off /\ v7 = Off /\ v8 = Off /\ v9 = Off
          /\ v10 = Off /\ v11 = Off /\ v12 = Off /\ v13 = Off /\ v14 = Off
       \/ part = "stream" /\ Stream!Init
       \/ part = "shared" /\ Shared!Init
       \/ /\ part = "trace" /\ Trace!Init /\ v9 = Off /\ v10 = Off /\ v11 = Off
          /\ v12 = Off /\ v13 = Off /\ v14 = Off
       \/ part = "chat" /\ Chat!Init /\ v13 = Off /\ v14 = Off
       \/ /\ part = "compact" /\ Compact!Init /\ v13 = Off /\ v14 = Off

DownloadOnly == part = "download" /\ UNCHANGED <<vars, part, v12, v13, v14>>
DownloadStep == DownloadOnly /\ Download!Next

RecordOnly == part = "record" /\ UNCHANGED <<part, shared>>
RecordStep == RecordOnly /\ Next

StreamOnly == part = "stream" /\ UNCHANGED <<vars, part>>
StreamStep == StreamOnly /\ Stream!Next

SharedOnly == part = "shared" /\ UNCHANGED <<vars, part>>
SharedStep == SharedOnly /\ Shared!Next

TraceOnly == part = "trace" /\ UNCHANGED <<vars, part, v9, v10, v11, v12, v13, v14>>
TraceStep == TraceOnly /\ Trace!Next

ChatOnly == part = "chat" /\ UNCHANGED <<vars, part, v13, v14>>
ChatStep == ChatOnly /\ Chat!Next

CompactOnly == part = "compact" /\ UNCHANGED <<vars, part, v13, v14>>
CompactStep == CompactOnly /\ Compact!Next

SuiteNext ==
    \/ DownloadStep
    \/ RecordStep
    \/ StreamStep
    \/ SharedStep
    \/ TraceStep
    \/ ChatStep
    \/ CompactStep

Fairness ==
    /\ WF_all(DownloadOnly /\ Download!Command)
    /\ WF_all(DownloadOnly /\ Download!Tick)
    /\ WF_all(DownloadOnly /\ Download!TimesOut)
    /\ WF_all(RecordOnly /\ Told)
    /\ WF_all(RecordOnly /\ (FinishStop \/ FinishRestart))
    /\ WF_all(StreamOnly /\ Stream!Loop)
    /\ WF_all(StreamOnly /\ Stream!Sync)
    /\ WF_all(TraceOnly /\ (Trace!Receive \/ Trace!Finish))
    /\ WF_all(TraceOnly /\ Trace!Timeout)
    /\ WF_all(ChatOnly /\ Chat!Own)

SuiteSpec == SuiteInit /\ [][SuiteNext]_all /\ Fairness

-----------------------------------------------------------------------------

\* stream/cdp_loop.rs and actions.rs: one tab is cast at a time, and between
\* commands the server works on the daemon's browser and on none when there is
\* none, also when it is switched off and on again.  While somebody goes on
\* watching, the server is told of the active tab and the browser ends up casting
\* it in the size last asked for, however many wake-ups are joined into one; when
\* the last viewer has left the browser stops casting.
ViewersSeeTheTab ==
    /\ [](part = "stream" => Stream!TypeOK /\ Stream!OneCast)
    /\ [](part = "shared" => Shared!TypeOK /\ Shared!ServerKnowsTheBrowser)
    /\ <>[](part = "stream" /\ Stream!Watched)
         => <>[](part = "stream" /\ ~ v12 /\ v7 = v2 /\ Stream!Picture(v7, v8) \in v3)
    /\ <>[](part = "stream" /\ Stream!Idle) => <>[](part = "stream" /\ v3 = {})

\* stream/chat.rs: the messages the front end is told to keep convert to exactly
\* the part of the conversation that was not summarised; parts of text are opened
\* and closed once and are never open while a call is streamed or run; and every
\* call that is announced gets its output, once and after its input, before the
\* step is finished.
DashboardEventsFit ==
    /\ part = "compact" => Compact!KeepsWhatIsNotSummarised
    /\ part = "chat" => Chat!TextBracketed /\ Chat!CallsAnswered

\* What the daemon is asked to produce comes to an end: download and wait
\* --download (actions.rs), whatever the browser reports and however often, with
\* an ok only when a file is there, and no timeout for an event it missed; a stop
\* or a restart of a recording (recording.rs); a stop of a trace (tracing.rs),
\* whatever the browser does not say; and a request of a front end that reads
\* (stream/chat.rs), with two last events that say so and however many calls the
\* gateway asks for, or it waits for the gateway for ever: nothing limits that.
EveryRequestEnds ==
    /\ [](part = "download" => Download!TypeOK /\ Download!OkMeansFile /\ Download!NotMissed)
    /\ [](part = "trace" => Trace!TypeOK)
    /\ (part = "download" /\ v7.at # "idle") ~> (part = "download" /\ v7.at = "idle")
    /\ (busy.st = "waiting") ~> (busy.st = "no")
    /\ (part = "trace" /\ v5 # None) ~> (part = "trace" /\ v5 = None)
    /\ <>[](part = "chat" /\ v12)
         => <>((part = "chat" /\ Chat!Over) \/ [](part = "chat" /\ Chat!WaitsForGateway))

=============================================================================

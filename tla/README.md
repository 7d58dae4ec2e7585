# Reshape in TLA+

Reshape lets a user talk to an agent that edits a local web workspace. A Rust
process (`crates/reshape-core`, `crates/reshape-cli`) runs the agent and serves
it over a JSON-RPC WebSocket; a browser extension (`extensions/reshape`) is the
usual client. The pages are shown by a browser that `crates/agent-browser`
drives: a command line client, a daemon per session that the client starts, and
a Chrome the daemon starts or finds and talks to over CDP. Reshape embeds that
daemon in its own process.

These modules model the parts in which order, failure and concurrency decide
whether the program is right. Every definition follows the source;
`PROJECT.json` maps it to its lines and lists the hazards, each at its line.

## Inventory

| Part | State | Operations | Made hard by | Module |
|---|---|---|---|---|
| `AgentRuntime`, `Session` (`runtime/mod.rs`, `session/mod.rs`) | the turn's copy of the session, the conversation, two counters, the progress sequence | `process[_with_progress]`, `session`, `reset_session` | failures at each await, dropped futures, budgets | `AgentTurn`, `SessionSpec` |
| `FileSessionStore` (`session/store.rs`) | the session file and a temporary file | `load`, `save` | crashes; blocking calls that outlive a dropped save | `SessionFile` |
| RPC server (`rpc_server.rs`, `rpc_protocol.rs`) | per connection the handshake flag and the pending request; a queue; one worker | `handle_socket`, `handle_text_frame`, `run_agent_worker` | one task per client racing the worker, `select!`, cancellation | `RpcServer` |
| Extension connection (`background-connection.ts`, `rpc.ts`) | socket, status, history, `isWorking`, `sendGeneration` | `connect`, `send`, `resetSession`, `disconnect`, close listener | awaits that overlap, late results, sockets that break | `ExtensionConnection` |
| Extension background and popup (`background.ts`, `popup.tsx`, `storage.ts`) | the pending selection in memory, in storage and in the popup | menu, messages, send and its undoing, restarts of the worker | a read that overtakes a write | `PendingContext` |
| LLM provider (`llm/openai.rs`) | the event stream being aggregated | `aggregate_stream` | chunk boundaries, interleaved calls | `LlmStream` |
| File tools, map, workspace (`tools/file.rs`, `html.rs`, `map.rs`, `workspace/local.rs`), change report of a turn | files with their fingerprints | list, read, edit, write, delete, map; fingerprint before and after | the user edits meanwhile, offsets at the edge | `WorkspaceTools`, `LinkTargets` |
| Web tools (`web_fetch.rs`, `web_search.rs`) | the call, the address, the bytes | redirect loop, body limit, validation, save | redirects, wrong lengths, a limit in the middle of a chunk | `WebTools` |
| CLI (`reshape-cli/src/lib.rs`) | `config.toml`, page, stylesheet | merge of the configuration, init, clean, run | commands killed half way | `CliStartup` |
| Preview (`reshape-browser`, `facade.rs`, `rpc_server.rs`) | the daemons in the process, their files, windows | `ensure`, open, reload, close, start-up task | start-up task against the first turn | `EmbeddedBrowser` |
| Client and daemon (`connection.rs`, `main.rs`, `daemon.rs`) | socket, pid and version file; processes | find, kill, spawn, send with retries, close, idle end, signals | no lock: two clients and a starting or leaving daemon | `DaemonLifecycle` |
| Options (`flags.rs`) | config files, environment, arguments | four sources, three scanners | lists kept by hand | `FlagSources` |
| Commands (`commands.rs`, `actions.rs`, `state.rs`) | the fields of a command, references, frame | parse, dispatch, handle | two files that must agree, resets in each handler | `CommandTable`, `CommandContract` |
| Policy and confirmation (`policy.rs`, `actions.rs`) | policy, pending command | check, ask, confirm, deny, reload | one slot, a policy that changes | `CommandGate` |
| Launch and close (`actions.rs`, `browser.rs`) | the browser and what belongs to it | launch, connect, relaunch, close | a browser that dies, a launch that fails half way, two clients | `BrowserLaunch` |
| Chrome process (`chrome.rs`) | attempts, directories, port files, processes | start, wait for the endpoint, close, drop | stale files, exits at any point | `ChromeProcess` |
| Search for a Chrome (`chrome.rs`) | port files, ports | `auto_connect_cdp` | a Chrome that starts, stops or is slow meanwhile | `AutoConnect` |
| Tabs (`browser.rs`, `actions.rs`) | the list of pages, ids, labels, active index | open, switch, close, target events | events drained together, later | `BrowserTabs` |
| CDP client, inspect server (`client.rs`, `inspect_server.rs`) | table of waiting callers, reader, keepalive | `send_command`, reader, proxy | late answers, death of the connection | `CdpClient` |
| Interception (`actions.rs`) | routes, headers, filter, patterns per tab | route, unroute, navigate, background task | a task that decides later | `FetchRoutes` |
| Network log and HAR (`actions.rs`) | event buffer, entries | drain, har_start, har_stop, requests | overflow, redirects, awaits in between | `NetworkLog`, `HarTimings` |
| Idle network (`browser.rs`) | requests in flight, two timers | `poll_network_idle` | the timer is looked at only on events | `NetworkIdle` |
| Downloads (`actions.rs`) | events, GUID, file | download, wait --download | events before the click returns, other downloads | `Downloads` |
| Recording (`recording.rs`, `actions.rs`) | state, task, ffmpeg | start, stop, restart, video_* | a task that fails meanwhile | `Recording` |
| Live stream (`stream/*`) | viewers, copies of browser, tab and viewport, one wake-up | enable, connect, loop | joined wake-ups, copies told one after the other | `ScreencastStream` |
| Tracing, profiler (`tracing.rs`) | shared flag, collected batches | start, stop | full channel, limit, silence | `Tracing` |
| Chat (`chat.rs`, `stream/chat.rs`) | conversation; events to the front end | turns, tool calls, compaction | broken streams, two lists cut at one place | `ChatLoop`, `DashboardChat` |

How they interact: the extension sends a handshake and then requests over its
socket. A handler task puts history, reset and input requests into the queue;
the single worker takes them one at a time and calls the runtime. The runtime
asks the provider, runs tools through the registry and loads and saves the
session. Progress events travel back through an unbounded channel, the response
through a oneshot channel. When a client goes away its handler drops that
channel, which makes the worker drop the turn's future where it stands. After a
turn the worker compares fingerprints and refreshes the preview through the
facade, which finds or starts a daemon thread and sends it a command. The daemon
executes one command at a time under a lock, while background tasks read events
from the browser. A turn's tools do not use the browser; the agent-browser
parts meet reshape only through the facade.

What makes each part correct: a turn leaves the store with a whole turn or
without any trace, tells its caller which, and ends; a client gets each answer
once, in order, after its progress; no client can block the others; files are
never torn and never older than what was acknowledged; a copy (of a history, a
selection, a tab, a flag) catches up with its original; everything that waits
ends; what is answered is so.

## Modules

One module per component, as in the table. What to know when reading them:

* **`SessionSpec`** is the abstract specification of the session: `Accept`,
  `Refuse`, `Commit`, `Abandon`, `Reset`. It states what a user of the runtime
  may rely on, in terms of the stored session and the last answer only.
  `AgentTurn` implements it.
* **`AgentTurn`** models `process_with_optional_progress` step by step. `pc` is
  the await at which the future is suspended, or `dispatch` at the head of the
  loop over tool calls. The model may answer with any list of calls; any call
  may fail; the future may be dropped at any await (`Drop`).
* **`RpcServer`**: `handler[c]` is the await a handler is at. Frames not yet read
  are not kept: a handler may read any frame it could find. `Die` is a panic of
  the worker.
* **`SessionFile`** takes `save` apart: truncating the temporary file, writing it
  piece by piece, renaming it. The calls live in `pool`, tokio's blocking pool,
  which a dropped future (`Cancel`) does not empty and a crash does.
* **`ExtensionConnection`**, **`PendingContext`**: each promise that is awaited is
  an element of a set, and settles at any time.
* **`LlmStream`** checks the aggregation of a stream that is cut anywhere against
  a definition that sees it whole; **`LinkTargets`**, **`HarTimings`** and
  **`FlagSources`** likewise compare the code's algorithm with a reference over
  all small inputs.
* **`CommandTable`** is a table: for each accepted command line the fields it
  produces and for each handler the fields it asks for and what it does to the
  references and the frame. **`CommandContract`** runs sequences of lines on it.
  Navigation that a page starts by itself is not in it.
* **`DaemonLifecycle`** has the two kinds of process, the three files of a
  session and the calls on them in the order of the code; `raced` remembers
  that two processes were at the files at once. **`EmbeddedBrowser`** is the
  same for daemons that are threads of reshape; `Sequential` says that turns come
  after the start-up task.
* **`ChromeProcess`**: Chrome is a main process and its helpers. Reuse of process
  ids and a full stderr pipe are left out. **`AutoConnect`**: rewriting a URL is
  text and left out.
* **`CdpClient`**: requests are numbered from 1 on both sides of a shared
  connection. Events are not in it. A write holds the lock of the socket and
  runs outside the timer of thirty seconds (`client.rs:231`), so while a browser
  that is there does not read (`~ room`) no writer gets on. In the other modules a
  call to the browser is taken to come back, with an answer or an error.
* **`NetworkIdle`**: an event is handled when it arrives. **`NetworkLog`** has the
  buffer that can overflow; the active tab does not change in it.
* **`CliStartup`** remembers in `killed` that a command was cut short and in
  `run.generated` that this one made the page. Between commands the user may write
  and remove either file of a workspace, so a page without a stylesheet is met too.
* **`FetchRoutes`**: the background task holds the locks until its answer is written
  (`task = "busy"`), and drops the error when that fails: the request is then
  `left`. With a filter, a request of another scheme than http and https is decided
  before any route (`actions.rs:6857`).
* **`WebTools`**: a host is an address or a name (`Names`). A name is looked up for
  the check and, after an await, again for the request, and each lookup may find
  another address.
* **`Downloads`**: per instance the browser reports in one domain, `Page` or
  `Browser`. **`Tracing`**: events are numbers, handed out in batches one after
  the other; that a browser refuses to end a tracing of another tab is external.
  Either stop may end either kind, the browser may close or fall silent at any
  time, and the channel may overflow; `lost` remembers that an answer of the
  browser, or the browser itself, was missing. **`ScreencastStream`**: the engine is
  Chrome; counting a viewer and waking the loop is one step. **`ChatLoop`**,
  **`DashboardChat`**: when a conversation is too large is left open; a command that
  times out is not killed and may still work.
* **`...Proofs`** modules hold the theorems about the component whose name they
  have, and about the other parts of that component's suite (see Proofs).
* `MC*` modules and `.cfg` files are the instances for TLC; a component whose
  instance needs no definitions is run as it is. Operators introduced
  as mutants are wrong variants of the definition that follows them; each
  property is known to fail when its variant takes the definition's place.

A **suite** (`MC...Suite`) is one specification for several components that
share nothing. Its variable `part` says which of them a behaviour is of; the
others keep still. A suite extends one component, whose variables and constants
it has under their own names: `MCExtensionSuite` extends `ExtensionConnection`,
`MCWorkspaceSuite` `SessionFile`, `MCCommandSuite` `CommandGate`, `MCWaitSuite`
`NetworkIdle`, `MCMediaSuite` `Recording`. The properties of that component are
checked as its module states them, and they are the ones its theorems are about.
For the others `v1`, `v2`, ... are the variables of the chosen part, in the
order in which its module declares them. So the states of a suite are those of
its parts, side by side, and a property `part = "x" => X!P` says of the part
what `P` says of the component.

A property of a run is what one component promises; it is the conjunction of
the named parts its module states one by one, the type invariant among them
(parts that speak of steps or of what happens eventually are written out in the
suite, guarded by `part`, since their terms have no meaning for the others):

| Property | Parts, in the component's module |
|---|---|
| `ProgressTellsTheTurn` | `ProgressWellFormed`, `TerminalEventMatchesResult`, `WithinBudget` |
| `WrittenInOrder` | `TypeOK`, `ResponsesMatchRequests`, `ProgressPrecedesResponse`, `NothingBeforeHandshake` |
| `WorkingIsTrue` | `WorkingHasOwner`, `NeverOverlapsTurn`, `NoOrphanSpinner` |
| `SelectionKept` | `PendingIsLastUnlessRaced`, `ChipShowsPending`, `SentOnce` |
| `AggregatedInOrder` | `AggregatedInOrder`, `NoHalfCall` |
| `SavesAreAtomic` | `LoneSaveHolds`; until a save is dropped `AlwaysLoadable`, `NeverStale` |
| `StartupKeepsWorkspace` | `TypeOK`, `PageFilesThere`, `GeneratedConfigIsNeutral`, `UserFilesKept` |
| `ToolsTellTheWorkspace` | `ReportedIsExact`, `PagesCoverFile`, `OrphansAreUnlinked` |
| `AlgorithmsAgree` | `Precedence`, `ScannersAgree`, `ConfigIsTheFlag` of `FlagSources`; `TargetIsReference` of `LinkTargets`; `WithinElapsed` of `HarTimings` |
| `FindsRunning` | `FindsRunning` |
| `ChatStaysWellFormed` | `TypeOK`, `WellFormed`, `PartialNeverRuns`; `KeepsNewest` of every compaction |
| `NetworkLogIsTrue` | `StatusOfItsOwn`, `HarComplete`, `DetailUnlessRedirected` |
| `DaemonUnlessRaced` | `FoundUnlessRaced`, `OneDaemonUnlessRaced` |
| `EmbeddedInOrder` | `HostSurvivesInOrder`, `OneWindowInOrder` |
| `LinesFitHandlers` | `EveryLineIsHandled`, `NothingIsMissing`, `BrowserWhenNeeded`, `StaleHasKnownCause` |
| `GateHolds` | `DenyPrevails`, `CategoriesAreConfirmed`, `RunsWhatIsLeft` |
| `LaunchKeepsUp` | `ListenersFollowBrowser`, `NoStrayBrowser`, `ReusedAsAsked`, `CommandHasBrowser` |
| `TabsFollowBrowser` | `IdsAreStable`, `LabelsAreUnique`, `ListIsBrowser`, `ActiveTabStays` |
| `RoutesDecide` | `RouteStaysOn`, `ResolvedAsRouted` |
| `DownloadIsOurs` | `OkMeansFile`, `OkMeansOurs`, `FileOfThisTab`, `NotMissed` |
| `TraceIsWhole` | `SavedIsWhole`, `ProfileWithinLimit`, `FlagIsTrue` |
| `FetchIsChecked` | `AskedWasChecked`, `WithinLimit` |
| `ChromeIsOurs` | `OwnEndpoint`, `TempDirsGone`, `DropKillsTree` |
| `EveryWaitEnds` | `Returns` of `NetworkIdle`, `FetchEnds`, `EveryClientReturns`, `CloseStopsDaemon`, `RefreshEnds`, `CloseEnds`, `EveryCallReturns`, `KeepaliveEnds`, `EveryPausedIsResolved` |
| `RecordingIsSaved` | `OneTask`, `StopWaitsForFfmpeg` |
| `ViewersSeeTheTab` | `OneCast`, `ServerKnowsTheBrowser`, `ViewersSeeTheTab`, `FollowsActiveTab`, `NobodyWatchesNothingCast` |
| `DashboardEventsFit` | `KeepsWhatIsNotSummarised`, `TextBracketed`, `CallsAnswered` |
| `EveryRequestEnds` | `Returns`, `OkMeansFile` and `NotMissed` of `Downloads`, `StopReturns`, `StopEnds`, `Terminates` |

## Runs

| Run | Checks | Bounds and why they suffice |
|---|---|---|
| `agent_turn` | conversation, progress stream, terminal event, budgets, dead code after the loop, whole turns, refinement of `SessionSpec`, `TurnEnds` | 2 turns, 2 iterations, 3 calls, 2 calls per response: both budgets are exceeded at the start, in the middle and at the end of a response, and a second turn starts from what the first left |
| `rpc_one_client` | order, completeness and handshake of what one client receives; `AbandonedTurnCancelled` | 3 frames of every kind and 2 progress events: two requests and an overlap |
| `rpc_two_clients` | `HistoryShowsAnsweredTurns` | 2 clients, 2 requests each, queue of 1, so that it is full |
| `rpc_live` | `RequestsEnd` | 2 clients, queue of 1, the worker may die |
| `extension_suite` | connection manager, pending selection, stream aggregation | 2 sockets, 2 addresses, 2 sends, 2 resets: a reconnect during anything pending; 3 selections, 2 popups, a restart of the worker; 3 events with every cut |
| `workspace_suite` | session file, start-up, file tools and links, options, command lines, search for Chrome, chat, network log, timings | 3 saves of 2 pieces with crashes and dropped saves, so that one begins while another is left in the pool and one after it (the theorem is for any number); 2 commands, each of which may be killed, with the user's edits before, between and after them (the theorem is for any number); 3 tool calls on 3 files of 3 lines and an edit of the user; links of up to 5 components, 2 directories deep; 3 arguments; every command line; 2 profiles and a port; 3 turns with 2 calls; 2 requests with a redirect and a buffer of 3 events; times up to 4 |
| `command_suite` | daemons and clients, embedded daemons, gate, launch, tabs, routes and filter, downloads page by page, traces | 2 clients and 3 daemons: a stale one, its successor and a rival; 5 threads over 5 turns; 6 policies and 3 questions; 2 browsers, so that one dies and is replaced; 3 targets; 2 routes; 2 downloads in 2 tabs; 3 batches against a limit of 3 events, on a channel of 2 with another event on it, so that it overflows (the theorem is for any length); for the filter a URL it allows, one it does not and one of another scheme |
| `wait_suite` | liveness of everything that waits, with what is reported when it ends | 2 requests around a quiet time of 3 ticks; a redirect and 2 bytes, so that the limit is met, missed by one and passed, with a public address, a private one and a name that may have either (the theorem is for any number of each); a client with 3 retries and 2 daemons; 3 threads; 2 attempts at Chrome, 3 at a directory; 2 callers with 2 calls each, or one and a DevTools frontend |
| `media_suite` | downloads reported by the browser, recording, live stream, traces with faults, dashboard chat | 2 downloads and 2 unread events; 2 recordings; 2 tabs, 2 viewers and 7 changes, 6 with everything else allowed; a channel of 2 events that overflows; 2 steps of 3 pieces; 5 messages of the front end |
| `rpc_overlap` | violated: `EveryRequestAnswered` | |
| `session_file_reset` | violated: `ResetClearsHistory` | |
| `extension_pending` | violated: `PendingTurnInHistory` | |

In `command_suite` states in which two clients, or a client and a starting or
leaving daemon, have raced are not explored further (`NoRace`): what is claimed
there is claimed of histories without one. `wait_suite` has no such limit.
Deadlock is not checked where the system may really stop: when clients and
users have done what the bounds allow. In `AgentTurn` a reset is always
possible, and it is checked.

Symmetry is used for clients, daemons, addresses and selections, in runs without
liveness only.

### What the violated properties show

* `rpc_overlap`: the protocol document says one `reshape.input` produces one
  response. A request that arrives while the handler streams a turn of the same
  connection is logged and dropped. The extension never does this
  (`NeverOverlapsTurn`); another client might.
* `session_file_reset`: a client that leaves while its turn is being saved makes
  the worker drop the turn, but the write goes on in the blocking pool. A reset
  issued right then uses the same temporary path, and the two calls mix: the
  reset is acknowledged and the old history, or a torn file, is what is stored.
  `LoneSaveHolds` shows that the damage needs this overlap.
* `extension_pending`: a message sent while `connect` still fetches the history
  disappears from the snapshot when the history arrives, although the turn is
  running; a reset that is answered late has the same effect.

### Exceptions the passing properties carry

Several parts of them hold except where the code and a line of the repository
disagree; the exception is in the formula, its name or the bounds of its instance,
and the model has the behaviour. The ones a maintainer should know:

* `FoundUnlessRaced`, `OneDaemonUnlessRaced`: the loser of a bind race removes
  the winner's socket on its way out (`connection.rs:712` looks for its message
  in a pipe that the daemon has already closed).
* `HostSurvivesInOrder`, `OneWindowInOrder`: when the start-up task overlaps the
  first refresh, a failed bind ends the host (`daemon.rs:154`).
* `PageFilesThere`: any `index.html` counts as an initialised workspace
  (`lib.rs:896`). One without a stylesheet is served without (`cli_smoke.rs:580`
  wants it so), and after a killed command an empty one is served too.
* `PendingIsLastUnlessRaced`: `getPendingContext` assigns what it loaded although
  a selection was captured meanwhile (`background.ts:113`).
* `AggregatedInOrder` is about the pieces and their order: a character that a
  chunk boundary splits becomes replacement characters (`openai.rs:389`).
* `NothingIsMissing`, `EveryLineIsHandled`: `state rename` sends names its handler
  does not read (`state.rs:703`), and a batch in a batch has no handler.
* `StaleHasKnownCause` names the commands that leave references of another page:
  vitals with a URL, auth login, state load, record start, a failing diff url.
* `DenyPrevails` is about denials in force when the question was asked; the policy
  is not asked again on confirm (`actions.rs:7642`).
* `Precedence`: an environment variable that says false does not override a config
  file that says true (`flags.rs:405`). `ScannersAgree`: `-v` and `-q` swallow a
  following true or false in one scanner only (`flags.rs:849`).
* `WithinElapsed`: a first phase that begins at 0 is counted twice
  (`actions.rs:6735`). `DetailUnlessRedirected`: the detail of a redirected request
  mixes two entries (`actions.rs:7261`).
* `ResolvedAsRouted` has patterns with one star: one with two is never found
  (`actions.rs:6935`).
* `OwnAnswer` holds until a DevTools frontend asks something (`OwnUnlessInspected`):
  the frontend's numbers are its own, and so an answer to it may be taken for one
  of ours (`client.rs:153`).
* `FileOfThisTab` is about downloads reported page by page: those reported by the
  browser are accepted whatever their tab (`actions.rs:3914`).
* `OkMeansIdle` needs a subscription from before the first request (`Late` is
  false); `wait --load networkidle` begins later (`browser.rs:797`).
* `FlagIsTrue` holds until an answer of the browser is missing or it is closed,
  which leave the flag up (`tracing.rs:120`, `actions.rs:2411`). `SavedIsWhole`
  excepts a receiver that lagged, which ends as if all had come (`tracing.rs:265`),
  and `profiler stop` after `trace start`: the flag does not say of which kind a
  tracing is (`tracing.rs:227`), the stream is not read, and the answer is ok with
  a file that is always empty and no warning.
* `AskedWasChecked`: a name is looked up again for the request (`web_fetch.rs:116`),
  which no check sees: the address asked is the one checked only when the URL
  names an address.
* `EveryCallReturns`: a command whose write has ended comes back in any case; one
  that has not been written comes back unless the browser, over and over, stays
  and does not read (`client.rs:231`). `EveryPausedIsResolved`: a paused request is
  taken up unless the task is kept by the answer to an earlier one, in such a
  write; and when the browser refuses the answer, or it is not written, the error
  is dropped and the request stays paused (`actions.rs:6948`).
* `Terminates`: the chat request of the dashboard ends, or waits for the gateway for
  ever: its HTTP client has no timeout (`stream/chat.rs:14`), and the five minutes
  are looked at between requests only (`stream/chat.rs:856`). A front end that stays
  and does not read blocks it too.
* `FollowsActiveTab`, `NobodyWatchesNothingCast` hold without recordings and
  without disabling the stream: `recording_start` does not tell the server of its
  tab (`actions.rs:1484`), and the loop that is shut down stops the tab it reads
  then (`cdp_loop.rs:104`).

## Fairness

Fairness is given to tasks, threads and timers and to nothing else: a client,
a user, a page, a server or a browser may always do nothing.

* `AgentTurn!FairSpec`: weak fairness of the turn. The provider's HTTP client has
  a timeout, the web tools have theirs, and file operations return, so an await
  is not for ever. That the turn then ends is the budgets' doing.
* `RpcServer!FairSpec`: weak fairness of the worker and of each handler, which
  tokio's scheduler gives to tasks that are ready, and strong fairness of
  `Submit`, because a tokio channel hands out its capacity first come, first
  served. `RpcServer!FairHandlerSpec`: only that a handler notices the end of its
  connection (`select!` picks among ready branches at random) and that the
  worker notices a closed channel. The turn may hang.
* `MCWaitSuite!Fairness`: the clock and the timers of the wait for an idle network;
  the steps of a fetch, whose requests and body have timeouts; clients and
  daemons as processes that are scheduled; the threads of the preview; the
  attempts to start and to end Chrome, which sleep and poll; callers, whose writes
  end when there is room and who have a timer of thirty seconds from there on,
  and the reader; the background task that resolves paused requests, when it is
  not busy. A browser need not answer, nor read: nothing is assumed of `Drain` or
  of `Answered`.
* `MCMediaSuite!Fairness`: the command that waits for a download and its deadline;
  a recording task that was told to stop and the command waiting for it; the
  loop of the stream and a command that has begun to tell the server; the
  collecting loop of a trace and its deadline; of the chat request only what the
  daemon does without the gateway (`DashboardChat!Own`: reading the request,
  asking, looking at the time, running a command, which has a timeout). The
  gateway need not answer, go on or end its answer, and the front end need not read.

## Proofs

Eight modules hold theorems, checked by TLAPS for every value of the constants.
Each argument is the same: an inductive invariant, one lemma per action that it
is kept, and the property from it. A theorem about a part of a suite is about the
suite's specification `SuiteSpec`; a lemma (`SuiteParts`, `MediaParts`) says
that a behaviour is of one part and that its steps are steps of that component.

| Module | Theorem | States |
|---|---|---|
| `AgentTurnProofs` | `TypeCorrect` | `Spec => []TypeOK` |
| | `LoopComplete` | `Spec => []LoopNeverFallsThrough` |
| | `RuntimeKeepsPromise` | `Spec => KeepsPromise`, the refinement of `SessionSpec` |
| | `SessionHoldsWholeTurns` | `Spec => []StoredWholeTurns` |
| | `ModelGetsWholeConversations` | `Spec => []ConversationWellFormed` |
| | `StreamTellsTheTurn` | `Spec => []ProgressTellsTheTurn` |
| `RpcServerProofs` | `FramesWrittenInOrder` | `Spec => []WrittenInOrder` |
| | `ClientsGetAnswers` | `Spec => []AnsweredUnlessOverlapping` |
| | `ClientsSeeTheirTurns` | `Spec => []HistoryShowsAnsweredTurns` |
| `ExtensionConnectionProofs` | `WorkingIsOwned` | `Spec => []WorkingIsTrue` |
| | `SelectionIsKept` | `SuiteSpec => []SelectionKept` (`PendingContext`) |
| `SessionFileProofs` | `StoreIsAtomic` | `Spec => []SavesAreAtomic` |
| | `SearchIsThorough` | `SuiteSpec => []FindsRunning` (`AutoConnect`) |
| | `WorkspaceIsKept` | `SuiteSpec => StartupKeepsWorkspace` (`CliStartup`), with its action property |
| | `ChatIsKept` | `SuiteSpec => ChatStaysWellFormed` (`ChatLoop`), with its action property |
| | `TurnsTellTheirFiles` | `SuiteSpec => []ToolsTellTheWorkspace` (`WorkspaceTools`) |
| | `TimesAreCountedOnce` | `SuiteSpec => []WithinElapsed` of `HarTimings`, a part of `AlgorithmsAgree` |
| `CommandGateProofs` | `GateIsKept` | `Spec => GateHolds`, with its action property |
| | `DaemonsAreFound` | `SuiteSpec => []DaemonUnlessRaced` (`DaemonLifecycle`) |
| | `HostedInOrder` | `SuiteSpec => []EmbeddedInOrder` (`EmbeddedBrowser`) |
| | `LaunchesKeepUp` | `SuiteSpec => LaunchKeepsUp` (`BrowserLaunch`), with its action properties |
| | `DownloadsAreOurs` | `SuiteSpec => []DownloadIsOurs` (`Downloads`) |
| | `TracesAreWhole` | `SuiteSpec => []TraceIsWhole` (`Tracing`) |
| `NetworkIdleProofs` | `LoopKnows`, `IdleIsIdle` | `Spec => []Inv`, `Spec => []OkMeansIdle` |
| | `OnlyCheckedIsAsked` | `SuiteSpec => []FetchIsChecked` (`WebTools`) |
| | `OwnChromeOnly` | `SuiteSpec => []ChromeIsOurs` (`ChromeProcess`) |
| | `CallersOfThePart` | `SuiteSpec => []OwnAnswer`, from the theorem of `CdpClientProofs` |
| `CdpClientProofs` | `CallersGetTheirAnswers` | `Spec => [](TypeOK /\ OwnUnlessInspected /\ (MaxDevTools = 0 => OwnAnswer))` |
| `RecordingProofs` | `OneRecordingIsSaved` | `Spec => RecordingIsSaved`, with its action property |
| | `StreamFollowsTheBrowser` | `SuiteSpec =>` the safety half of `ViewersSeeTheTab` (`ScreencastStream`) |

The inductive invariants of the components that a suite extends, and of `CliStartup`,
`PendingContext`, `ChatLoop`, `WorkspaceTools` and `Tracing`, were checked with TLC
on the instances of the runs before they were proved. Those of the others were
written down from the properties TLC checks, and only proved.

The assumptions are those named in the components and the suites. Bounds are
naturals, with these additions: `QueueCapacity`, `Pieces`, `KeepRecent`,
`MaxRetries`, `MaxAttempts` and `MaxTries` are at least 1, as in the code;
switches (`Chatter`, `MaySlow`, `Extensions`, `Sequential`) are Booleans.
`Profiles` and `Ports` are finite lists (`PlacesAssumption`). Invented tool names
are not registered ones (`AgentTurn`); `confirm` and `deny` are not among the
actions they answer (`CommandGate`). A value that means "none" or "not there" is not
one of the values it is told apart from: a number, a path, a tab, a daemon, a
download, a selection, a configuration (`RecordingAssumption`, `StreamAssumption`,
`DaemonAssumption`, `HostedAssumption`, `DownloadAssumption`, `PendingAssumption`,
`StartupAssumption`). The channel of a trace has room for one event at least
(`TraceAssumption`).

**The turn.** `LoopNeverFallsThrough` says nothing of a turn that still runs.
`LoopInv` adds that a turn dispatching or executing calls has an iteration left,
which is what the check for the last iteration establishes before the calls are
dispatched. The refinement needs `SessionInv`: the turn's own copy is the stored
session with the input recorded, and at `save` also with the output; and the
caller waits exactly while the turn runs. Nothing in `stored` changes meanwhile,
since there is one worker. Whole turns follow from the refinement. For the
conversation, `ConversationInv` describes it between two requests: the last
response is answered up to the calls that are still to run. For the progress
stream, `ProgressInv` says what the stream ends with at each await and that no more
tools were started than counted; `RequestInv` bounds the responses by
the iterations.

**The server.** What a client was sent cannot be related to what it asked
without the queue, the job in hand, the progress channel and the reply on its
way. `ClientInv(c)` says it of one connection: requests have different numbers
and the one under way is not an overlapping one; a job belongs to a request that
was asked; a reply waits only for the request it fits, and then its job is done;
while a turn is streamed, what the client was sent ends with the first
notifications of that turn, the channel has the next ones, and together they are
what the turn has reported. Its parts are operators on the state of one
connection, so that steps of the others leave them alone; `WorkerInv` and
`QueueInv` say that the worker has the job it works on and no request has two.
For the histories `HistoryInv` adds that a turn is in the session before its
answer is sent, and stays until a reset.

**The session file.** `AwaitInv`: only the newest save is under way. `PoolInv`: a
save has at most one call in the pool. `LoneInv`: a save that began with an empty
pool has the temporary file to itself, so that it has exactly what was written so
far; at the end the session file has its text. `LastInv` and `KeptInv` carry that
on: to the next save, and as long as no save was dropped, to the last
acknowledged one. Without the pool being empty at the start none of it holds,
which is what `session_file_reset` shows.

**The extension.** `AwaitsInv`: pending sends have different generations, none of
them yet to come. `WireInv`: an input that the manager's own open socket has not
answered is that of the current generation, so `isWorking` keeps others away.
`SpinnerInv` says of the working message what `NoOrphanSpinner` says, without
counting.

**The gate.** `NumbersInv`, `SentInv` and `SlotInv`: a command that was sent or
waits in the slot has neither run nor been denied, and what waits was let pass by
a policy in force. That a confirmation runs no command twice depends on the slot
being emptied by it.

**The recording.** `WaitInv`: a command that waits has taken the task out of the
state, and the task it waits for is that of the recording in progress.

**The idle network.** `OkMeansIdle` says nothing of a loop that still runs. `Inv`
adds what a subscription from before the first request (`~ Late`) knows: `pending`
is the set of requests in flight, and a timer that runs was started when there was
none and not before the last one ended.

**The CDP client.** `MessagesInv`: a message with the number of a call is the
request of that call or the answer to it, whoever else is in the table under
an old number; `NumbersInv`: no number is given twice. `ConnectionInv` adds that
without a DevTools frontend nothing is on the connection that a frontend would send.

**Client and daemons** (`DlCalm`). As long as nobody raced, one client at most looks
for a daemon and one daemon at most lives; once it has written its files they name it,
and the socket is that of the daemon that listens unless it is being killed. While one
lives no client removes files or spawns another, and a client that kills or waits has
this daemon as its victim. **Embedded daemons** (`EmbOrder`): one thread works at a
time, one daemon lives, the socket is that of the daemon that listens, one that starts
is waited for, and none is started beside it.

**Launch** (`BlHash`): `launch_hash` is that of the browser of our own that is there,
so what is reused was asked for. **Downloads** (`DnHeard`, `DnOwnTab`): every event
of the click's own download that was not read is still in the queue, its beginning
before its end unless others were heard of, and the command and the path hold
downloads of the active tab only.

**Tracing** (`TraceInv`). A running count goes over the messages still to be read:
each batch has the numbers from the count before it to the count after it, the last
count is the number of all events, and what was collected is what the first count
says, unless a batch was left out or the channel has overflowed, which the receiver
will be told. So no induction over the messages is needed. A tracing that is handed
over as a stream has no batches on the channel, so what was collected of it is empty,
and a profile made of it as well. While nothing was lost the flag is up exactly when
the browser traces or a stop is under way.

**Web fetch** (`WebInv`): between the check of a host and the answer to its request
the host of this round is among those let pass, with an address that is not private;
what was let pass earlier says nothing about it, so rounds are told apart. **Chrome** (`ChrOwn`, `ChrDirs`): only
the Chrome of this attempt may run and so write the port file, and the directories
that are there and were not given up are those of the attempt under way.

**The search** (`SearchInv`): the scan has not yet passed a place with a Chrome that
could be found all along, and the one it asks still has an answer ahead.

**The workspace** (`StartupInv`). A command that works on pages has checked or made
their workspace, only clean removes, and a page is written only where there was none.
The command that makes a page has seen that there was none and has written or found
the stylesheet before it; and an empty file was left by a command that was killed.

**The chat** (`ChatInv`). Calls of a message that go past the end of the conversation
are those still to run, in order, and every answer follows its call or another
answer; after the prompt, or after the summary that replaced it, there is a question,
so compaction finds one to cut at. The cut keeps the conversation well formed because
it is made there.

**The file tools** (`ToolsInv`). Every fingerprint is that of the beginning until the
turn writes, and later exactly the files the turn wrote have another one; what
`read_file` returned ends before `next_offset` or with the file; the links a map has
collected are those of the pages it has read. **The times of a HAR entry**: the phases
follow each other, so each sum is bounded by the next start.

**The live stream**. `CastInv`: the loop works with a client that was there when it
woke, and only of that one's browser is anything cast; clients have increasing
numbers, so an old one is never taken for a new browser's. `ServerInv`: from the command
that changes the browser on the server's slot is the browser's, and when the server
has been told it has a tab exactly when there is a browser.

**The pending selection** (`PcInv`). A selection the agent has, or is being given, is
nowhere else: not in the worker, its storage or its pending calls, not in the popup
or a message to it, and one request at most sends it or brings it back. Only what was
captured is anywhere, and unless a capture met a load, the last message that tells the
popup of a selection tells it of the last one.

Only model-checked, and why:

* Liveness under fairness is out of the prover's reach: `TurnEnds`, `RequestsEnd`,
  `AbandonedTurnCancelled`, `EveryWaitEnds`, `EveryRequestEnds` and the second half of
  `ViewersSeeTheTab`.
* What a fold or a `SelectSeq` over a list of any length computes needs induction over
  data: `AlgorithmsAgree` except for the times, `AggregatedInOrder`, `NetworkLogIsTrue`,
  `DashboardEventsFit`, `TabsFollowBrowser` (a drain of any number of target events)
  and `RoutesDecide` (the matching of patterns).
* `LinesFitHandlers` is about one finite table: there is no constant a theorem could be
  general in.
* What needs a bound to be true at all: `DownloadIsOurs` has its hypothesis in the
  instance (see Exceptions), and the instance of `media_suite` without it promises less.

## Plan

What is left, in this order:

1. `TabsFollowBrowser` as a theorem, with target events drained one at a time instead
   of by a fold; `ReplyInv` of `RpcServer` as an action property (a reply is taken once).
2. `NetworkLogIsTrue` with the entries as a function of the requests, so that the
   invariant speaks of one request at a time.
3. A composition of `RpcServer` and `ExtensionConnection` over one socket, with
   the server's real answers in place of the assumed ones.

## Not modelled

* Text: prompts, previews and their redaction, error messages, JSON and TOML
  syntax, HAR files, the output of commands (`output.rs`), the help.
* `TurnState` and its transition table, which only tests use; the message bus,
  which nothing uses; logging and telemetry.
* Static file serving and the dashboard's other routes, which keep no state.
* Snapshots, elements, input and pictures of pages (`snapshot.rs`, `element.rs`,
  `interaction.rs`): sequences of calls to the browser whose result is a text.
  What becomes of the references they hand out is in `CommandContract`.
* Encryption and file formats of saved state and credentials; remote providers
  and WebDriver, each one HTTP call per operation; install, upgrade, doctor and
  skills.
* The order in which a file system writes back unsynced data: neither the
  temporary session file nor its directory is synced (`store.rs:82`), so after a
  loss of power the rename may be there without the data.
* Hazards without a property: `waitForResponse` has no timeout and does not
  listen for `close` (`rpc.ts:315`; the model has it, and no line says what should
  happen); overlapping connects (`background-connection.ts:82`, likewise); a paused
  request among events a full buffer dropped (`actions.rs:464`); stderr of Chrome
  that nobody reads once the port is known (`chrome.rs:418`); a summary cut at a
  byte (`stream/chat.rs:207`), since its texts have no bytes in the model.

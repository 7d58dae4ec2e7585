---------------------------- MODULE BrowserLaunch ----------------------------
(***************************************************************************)
(* Which browser the commands of agent-browser reach: the launch options of *)
(* each call of the command line (main.rs), launch, auto-launch and close   *)
(* in the daemon, and what DaemonState keeps that belongs to one browser    *)
(* (native/actions.rs).  A command holds the lock of the state from start   *)
(* to end, so each is one step; browsers die and dialogs open in between.   *)
(***************************************************************************)
EXTENDS Naturals, FiniteSets

CONSTANTS
    Clients,
    MaxBrowsers     \* bound: browsers started

\* How a client asks for a browser: nothing special, --headed, --state, two
\* endpoints given to connect, a cloud provider, Safari.
Asks == {"plain", "headed", "state", "endpointA", "endpointB", "cloud", "safari"}
Endpoints == {"endpointA", "endpointB"}
Own == {"plain", "headed", "state"}     \* a process of the daemon
NoId == 0

VARIABLES
    env,        \* what the daemon was started with, "down" before that
    browser,    \* DaemonState.browser: [id, ask], id NoId when there is none
    started,    \* browsers started so far
    alive,      \* browsers that still answer
    hash,       \* launch_hash: the options it stands for, or "none"
    safari,     \* webdriver_backend, safari_driver and backend_type
    rx, fetch, dialogs, stream,   \* the browser each listener belongs to
    refs,       \* the browser the ref_map was taken from
    open,       \* browsers that show a dialog
    pending,    \* the browser pending_dialog was reported by
    pc, ask     \* of each client

state == <<hash, safari, rx, fetch, dialogs, stream, refs, pending>>
world == <<started, alive, open>>
vars == <<env, browser, state, world, pc, ask>>

NoBrowser == [id |-> NoId, ask |-> "plain"]

Init ==
    /\ env = "down" /\ browser = NoBrowser
    /\ started = 0 /\ alive = {} /\ open = {}
    /\ hash = "none" /\ safari = FALSE
    /\ rx = NoId /\ fetch = NoId /\ dialogs = NoId /\ stream = NoId
    /\ refs = NoId /\ pending = NoId
    /\ pc = [c \in Clients |-> "idle"]
    /\ ask = [c \in Clients |-> "plain"]

-----------------------------------------------------------------------------
(* A call of the command line.                                             *)

Flags == Asks \ Endpoints

\* main: the daemon is started with the flags of the first call.  The launch
\* options of a later call are reported as ignored, and a launch is sent all
\* the same when they describe a local browser.
Call(c) ==
    /\ pc[c] = "idle"
    /\ \E o \in Flags :
         /\ env' = IF env = "down" THEN o ELSE env
         /\ pc' = [pc EXCEPT ![c] =
                     IF o \in {"headed", "state"} \/ (o \in {"cloud", "safari"} /\ env = "down")
                       THEN "launch" ELSE "command"]
         /\ ask' = [ask EXCEPT ![c] = IF pc'[c] = "launch" THEN o ELSE "plain"]
    /\ UNCHANGED <<browser, state, world>>

\* connect <port|url> is itself a launch.
Connect(c) ==
    /\ pc[c] = "idle" /\ env # "down"
    /\ \E o \in Endpoints : ask' = [ask EXCEPT ![c] = o]
    /\ pc' = [pc EXCEPT ![c] = "launch"]
    /\ UNCHANGED <<env, browser, state, world>>

-----------------------------------------------------------------------------
(* The daemon.                                                             *)

Usable == browser \in alive

\* The mutant keeps the handler of the browser before.
AttachWithoutFetch(b) == rx' = b /\ dialogs' = b /\ stream' = b /\ UNCHANGED fetch

\* subscribe_to_browser_events, start_fetch_handler, start_dialog_handler and
\* update_stream_client.
Attach(b) == rx' = b /\ fetch' = b /\ dialogs' = b /\ stream' = b

\* BrowserManager::close ends a browser of our own and leaves another alone.
Closed == IF browser.ask \in Own THEN alive \ {browser} ELSE alive

\* A browser of its own, or a connection to another; o names the options.
Fresh(o, left, h) ==
    /\ started < MaxBrowsers
    /\ started' = started + 1
    /\ browser' = [id |-> started + 1, ask |-> o]
    /\ alive' = left \cup {browser'}
    /\ open' = open \cap left
    /\ hash' = h
    /\ Attach(started + 1)

NoFresh(left) ==
    /\ browser' = NoBrowser
    /\ alive' = left
    /\ open' = open \cap left
    /\ UNCHANGED started

\* launch_hash: storage state is not part of it.
launch_hash(o) == IF o = "headed" THEN "headed" ELSE "plain"

\* handle_launch: a provider does not count as external here, its connection
\* does; of an external browser nothing else is compared.
NeedsRelaunch(o) ==
    \/ browser.id = NoId
    \/ (o \in Endpoints) # (browser.ask \notin Own)
    \/ o \notin Endpoints /\ (hash # launch_hash(o) \/ o = "state")
    \/ ~ Usable

\* handle_launch relaunches.  WebDriver has a backend of its own; connecting
\* or starting may fail, which leaves no browser.
Relaunch(o) ==
    /\ refs' = NoId
    /\ \/ /\ o = "safari"
          /\ NoFresh(Closed) /\ safari' = TRUE
          /\ hash' = IF browser.id = NoId THEN hash ELSE "none"
          /\ stream' = IF browser.id = NoId THEN stream ELSE NoId
          /\ UNCHANGED <<rx, fetch, dialogs>>
       \/ /\ o # "safari"
          /\ Fresh(o, Closed, IF o \in Own THEN launch_hash(o)
                              ELSE IF browser.id = NoId THEN hash ELSE "none")
          /\ UNCHANGED safari
       \/ /\ NoFresh(Closed)
          /\ hash' = IF browser.id = NoId THEN hash ELSE "none"
          /\ stream' = IF browser.id = NoId THEN stream ELSE NoId
          /\ UNCHANGED <<safari, rx, fetch, dialogs>>

\* rollback_failed_launch: the storage state could not be loaded.
Rollback(o) ==
    /\ o = "state"
    /\ NoFresh(Closed)
    /\ hash' = "none" /\ stream' = NoId /\ refs' = NoId
    /\ UNCHANGED <<safari, rx, fetch, dialogs>>

\* drain_cdp_events: javascriptDialogOpening and Closed of the active page.
Drained ==
    IF browser.id = NoId \/ rx # browser.id THEN pending
    ELSE IF browser \in open THEN browser.id
    ELSE IF pending = browser.id /\ Usable THEN NoId ELSE pending

Launch(c) ==
    /\ pc[c] = "launch"
    /\ IF NeedsRelaunch(ask[c])
         THEN Relaunch(ask[c]) \/ Rollback(ask[c])
         ELSE UNCHANGED <<browser, world, hash, safari, rx, fetch, dialogs, stream, refs>>
    /\ pc' = [pc EXCEPT ![c] = IF ask[c] \in Endpoints THEN "idle" ELSE "command"]
    /\ ask' = [ask EXCEPT ![c] = "plain"]
    /\ pending' = Drained
    /\ UNCHANGED env

\* auto_launch follows the environment of the daemon; ios and safari are left
\* to an explicit launch, and Chrome is started instead.
AutoLaunched == IF env = "cloud" THEN "cloud" ELSE IF env = "headed" THEN "headed" ELSE "plain"
AutoHash == IF env = "cloud" THEN hash ELSE launch_hash(AutoLaunched)

\* execute_command: the browser is there and answers.
Ready == Usable

\* A command that needs a browser.  A snapshot takes references, dialog
\* answers one, navigate forgets references, the others leave them.
Command(c) ==
    /\ pc[c] = "command"
    /\ pc' = [pc EXCEPT ![c] = "idle"]
    /\ \/ /\ ~ Ready
          /\ \/ Fresh(AutoLaunched, Closed, AutoHash)
             \/ NoFresh(Closed) /\ stream' = (IF browser.id = NoId THEN stream ELSE NoId)
                /\ UNCHANGED <<hash, rx, fetch, dialogs>>
          /\ refs' \in {refs, NoId} \cup (IF browser'.id = NoId THEN {} ELSE {browser'.id})
          /\ pending' = Drained
       \/ /\ Ready
          /\ refs' \in {refs, NoId, browser.id}
          /\ \/ pending' = Drained /\ UNCHANGED open
             \/ browser \in open /\ pending' = NoId /\ open' = open \ {browser}
          /\ UNCHANGED <<browser, started, alive, hash, rx, fetch, dialogs, stream>>
    /\ UNCHANGED <<env, ask, safari>>

\* handle_close.  The daemon keeps running.
Close(c) ==
    /\ pc[c] = "command"
    /\ pc' = [pc EXCEPT ![c] = "idle"]
    /\ NoFresh(Closed)
    /\ hash' = "none" /\ stream' = NoId /\ fetch' = NoId /\ safari' = FALSE /\ refs' = NoId
    /\ pending' = Drained
    /\ UNCHANGED <<env, ask, rx, dialogs>>

-----------------------------------------------------------------------------
(* The world.                                                              *)

Crash ==
    /\ \E b \in alive : alive' = alive \ {b} /\ open' = open \ {b}
    /\ UNCHANGED <<env, browser, state, started, pc, ask>>

DialogOpens ==
    /\ Usable
    /\ open' = open \cup {browser}
    /\ UNCHANGED <<env, browser, state, started, alive, pc, ask>>

Next ==
    \/ Crash \/ DialogOpens
    \/ \E c \in Clients : Call(c) \/ Connect(c) \/ Launch(c) \/ Command(c) \/ Close(c)

Spec == Init /\ [][Next]_vars

-----------------------------------------------------------------------------

TypeOK ==
    /\ browser.id \in 0 .. started /\ browser.ask \in Asks
    /\ open \subseteq alive /\ alive \subseteq [id : 1 .. started, ask : Asks]
    /\ {rx, fetch, dialogs, stream, refs, pending} \subseteq 0 .. started
    /\ hash \in {"none", "plain", "headed"} /\ safari \in BOOLEAN

\* Whatever way a browser came to be the one of the daemon, the event stream,
\* the interception of requests, the dialog handler and the stream server all
\* belong to it, and the stream server has none when there is none.
ListenersFollowBrowser ==
    /\ browser.id # NoId => {rx, fetch, dialogs, stream} = {browser.id}
    /\ browser.id = NoId => stream = NoId

\* No path of launch, auto-launch, roll-back or close leaves a browser process
\* of ours running that the daemon no longer has.
NoStrayBrowser == {b \in alive : b.ask \in Own} \subseteq {browser}

\* A launch that reuses a browser of our own reuses one with the options asked
\* for: a client that asks for a window never gets a browser without one.
ReusedAsAsked ==
    [][\A c \in Clients : Launch(c) /\ browser'.id # NoId /\ browser'.ask \in Own /\ ask[c] \in Own
         => launch_hash(browser'.ask) = launch_hash(ask[c])]_vars

\* A command that gets through leaves the daemon with a browser that answers,
\* although browsers may die at any time before it.
CommandHasBrowser ==
    [][\A c \in Clients : Command(c) /\ browser'.id # NoId => browser' \in alive']_vars

=============================================================================

--------------------------- MODULE ScreencastStream ---------------------------
(***************************************************************************)
(* Live pictures for the dashboard: viewers come and go, commands change   *)
(* the browser, the active tab and the viewport, and one background loop   *)
(* starts and stops the browser's screencast.  The loop is woken through a *)
(* Notify, which remembers one wake-up and no more.                        *)
(***************************************************************************)
EXTENDS Naturals

CONSTANTS
    Tabs,
    MaxViewers,
    MaxChanges,  \* bound on commands and viewers' comings and goings
    Recordings,  \* whether recordings are started (they switch the tab)
    Disables,    \* whether the stream server is disabled again
    Cli,         \* whether screencast_start and screencast_stop are used
    None

VARIABLES
    browser,   \* 0: none; otherwise the number of the browser that is there
    active,    \* the active tab
    cast,      \* what the browser casts: tab and viewport
    cli,       \* DaemonState.screencasting
    server,    \* the stream server: "off", "on", "stopping"
    slot, sid, \* its client_slot and cdp_session_id
    vp,        \* its viewport
    viewers,   \* client_count
    permit,    \* client_notify has a wake-up stored
    sc,        \* its screencasting flag
    sync,      \* a command is still to tell the server of the tab, and to wake the loop
    loop,      \* the background loop
    changes

vars == <<browser, active, cast, cli, server, slot, sid, vp, viewers, permit, sc, sync, loop, changes>>

Waiting == [at |-> "wait"]
\* What start_inner makes: no viewer, no client, no tab, the default viewport.
FreshServer == slot = 0 /\ sid = None /\ vp = 0 /\ viewers = 0 /\ permit = FALSE /\ sc = FALSE
Picture(t, v) == [tab |-> t, vp |-> v]
Started(t, v) == {c \in cast : c.tab # t} \cup (IF t = None THEN {} ELSE {Picture(t, v)})
Stopped(t) == {c \in cast : c.tab # t}
Current == browser # 0 /\ slot = browser

\* The screencast flag is only up with a browser, and the loop holds a client
\* from the moment it decides to start.
TypeOK ==
    /\ browser \in Nat /\ slot \in Nat /\ active \in Tabs /\ sid \in Tabs \cup {None}
    /\ cast \subseteq [tab : Tabs, vp : {0, 1}]
    /\ server \in {"off", "on", "stopping"} /\ viewers \in 0 .. MaxViewers
    /\ loop.at \in {"wait", "start", "send", "cast", "gone"}
    /\ loop.at \in {"send", "cast"} => loop.client > 0
    /\ browser = 0 => cast = {} /\ ~ cli
    /\ (server = "off") = (loop.at = "gone")
    /\ server = "off" => FreshServer

Init ==
    /\ browser = 0 /\ active \in Tabs /\ cast = {} /\ cli = FALSE
    /\ server = "off" /\ FreshServer /\ sync = FALSE
    /\ loop = [at |-> "gone"] /\ changes = 0

-----------------------------------------------------------------------------
(* Commands, one at a time.                                                *)

Command == changes < MaxChanges /\ changes' = changes + 1 /\ ~ sync /\ server # "stopping"

\* handle_stream_enable, and update_stream_client after it.
StreamEnable ==
    /\ Command /\ server = "off"
    /\ server' = "on" /\ slot' = browser /\ sc' = cli /\ sync' = TRUE /\ loop' = Waiting
    /\ UNCHANGED <<browser, active, cast, cli, sid, vp, viewers, permit>>

\* handle_stream_disable: the loop and every viewer are told to end.
StreamDisable ==
    /\ Disables /\ Command /\ server = "on" /\ server' = "stopping"
    /\ UNCHANGED <<browser, active, cast, cli, slot, sid, vp, viewers, permit, sc, sync, loop>>

\* A launch, and update_stream_client: the client first.
Launch ==
    /\ Command /\ browser = 0 /\ browser' = changes + 1
    /\ slot' = IF server = "on" THEN browser' ELSE slot
    /\ sync' = (server = "on")
    /\ UNCHANGED <<active, cast, cli, server, sid, vp, viewers, permit, sc, loop>>

Close ==
    /\ Command /\ browser # 0 /\ browser' = 0 /\ cast' = {} /\ cli' = FALSE
    /\ slot' = IF server = "on" THEN 0 ELSE slot
    /\ sync' = (server = "on")
    /\ UNCHANGED <<active, server, sid, vp, viewers, permit, sc, loop>>

\* tab_new, tab_switch, tab_close, open, navigate: the server is told after it.
TabSwitch ==
    /\ Command /\ browser # 0 /\ active' \in Tabs \ {active}
    /\ sync' = (server = "on")
    /\ UNCHANGED <<browser, cast, cli, server, slot, sid, vp, viewers, permit, sc, loop>>

\* recording_start makes a tab of its own active and is not in that list.
RecordingStart ==
    /\ Recordings /\ Command /\ browser # 0 /\ active' \in Tabs \ {active}
    /\ UNCHANGED <<browser, cast, cli, server, slot, sid, vp, viewers, permit, sc, sync, loop>>

\* set_cdp_session_id and notify_client_changed
Sync ==
    /\ sync /\ sync' = FALSE
    /\ sid' = IF browser # 0 THEN active ELSE None
    /\ permit' = TRUE
    /\ UNCHANGED <<browser, active, cast, cli, server, slot, vp, viewers, sc, loop, changes>>

\* set_viewport
SetViewport ==
    /\ Command /\ server = "on" /\ vp' = 1 - vp /\ permit' = TRUE
    /\ UNCHANGED <<browser, active, cast, cli, server, slot, sid, viewers, sc, sync, loop>>

\* handle_screencast_start and handle_screencast_stop
ScreencastStart ==
    /\ Cli /\ Command /\ browser # 0 /\ ~ cli
    /\ cast' = Started(active, vp) /\ cli' = TRUE
    /\ sc' = IF server = "on" THEN TRUE ELSE sc
    /\ UNCHANGED <<browser, active, server, slot, sid, vp, viewers, permit, sync, loop>>
ScreencastStop ==
    /\ Cli /\ Command /\ browser # 0 /\ cli
    /\ cast' = Stopped(active) /\ cli' = FALSE
    /\ sc' = IF server = "on" THEN FALSE ELSE sc
    /\ UNCHANGED <<browser, active, server, slot, sid, vp, viewers, permit, sync, loop>>

-----------------------------------------------------------------------------
(* Viewers: handle_ws_client counts, and wakes the loop.                    *)

Connect ==
    /\ server = "on" /\ viewers < MaxViewers /\ changes < MaxChanges
    /\ viewers' = viewers + 1 /\ permit' = TRUE /\ changes' = changes + 1
    /\ UNCHANGED <<browser, active, cast, cli, server, slot, sid, vp, sc, sync, loop>>
Disconnect ==
    /\ viewers > 0 /\ server # "off"
    /\ \/ server = "stopping" /\ UNCHANGED changes
       \/ server = "on" /\ changes < MaxChanges /\ changes' = changes + 1
    /\ viewers' = viewers - 1 /\ permit' = TRUE
    /\ UNCHANGED <<browser, active, cast, cli, server, slot, sid, vp, sc, sync, loop>>

-----------------------------------------------------------------------------
(* cdp_event_loop                                                          *)

\* Woken: with viewers and a client it goes on to start; without viewers it
\* stops what is running.
LoopWakes ==
    /\ loop.at = "wait" /\ permit /\ permit' = FALSE
    /\ IF viewers > 0
       THEN /\ loop' = IF slot # 0 THEN [at |-> "start", client |-> slot] ELSE Waiting
            /\ UNCHANGED <<cast, sc>>
       ELSE /\ sc' = FALSE /\ UNCHANGED loop
            /\ cast' = IF sc /\ Current THEN Stopped(sid) ELSE cast
    /\ UNCHANGED <<browser, active, cli, server, slot, sid, vp, viewers, sync, changes>>

\* It reads the tab and the viewport,
LoopReads ==
    /\ loop.at = "start"
    /\ loop' = [at |-> "send", client |-> loop.client, tab |-> sid, vp |-> vp]
    /\ UNCHANGED <<browser, active, cast, cli, server, slot, sid, vp, viewers, permit, sc, sync, changes>>

\* and sends Page.startScreencast; an answer of error is ignored.
LoopStarts ==
    /\ loop.at = "send"
    /\ cast' = IF loop.client = browser THEN Started(loop.tab, loop.vp) ELSE cast
    /\ sc' = TRUE /\ loop' = [loop EXCEPT !.at = "cast"]
    /\ UNCHANGED <<browser, active, cli, server, slot, sid, vp, viewers, permit, sync, changes>>

Changed == slot # loop.client \/ sid # loop.tab \/ vp # loop.vp

\* The mutant forgets to wake itself.
LoopNotifiedOnce ==
    /\ loop.at = "cast" /\ permit /\ permit' = FALSE
    /\ IF viewers = 0 \/ Changed
       THEN /\ cast' = IF loop.client = browser THEN Stopped(loop.tab) ELSE cast
            /\ sc' = FALSE /\ loop' = Waiting
       ELSE UNCHANGED <<cast, sc, loop>>
    /\ UNCHANGED <<browser, active, cli, server, slot, sid, vp, viewers, sync, changes>>
\* Woken while casting: without viewers, or when something it started with has
\* changed, it stops; in the second case it wakes itself to start again.
LoopNotified ==
    /\ loop.at = "cast" /\ permit
    /\ IF viewers = 0 \/ Changed
       THEN /\ cast' = IF loop.client = browser THEN Stopped(loop.tab) ELSE cast
            /\ sc' = FALSE /\ loop' = Waiting /\ permit' = (viewers # 0)
       ELSE permit' = FALSE /\ UNCHANGED <<cast, sc, loop>>
    /\ UNCHANGED <<browser, active, cli, server, slot, sid, vp, viewers, sync, changes>>

\* Told to end: it stops the screencast of the tab the server has now.  When
\* the loop is gone, shutdown returns and the server is dropped.
LoopEnds ==
    /\ server = "stopping" /\ loop.at \in {"wait", "cast"}
    /\ cast' = IF (loop.at = "cast" /\ loop.client = browser) \/ (loop.at = "wait" /\ sc /\ Current)
               THEN Stopped(sid) ELSE cast
    /\ loop' = [at |-> "gone"] /\ server' = "off"
    /\ slot' = 0 /\ sid' = None /\ vp' = 0 /\ viewers' = 0 /\ permit' = FALSE /\ sc' = FALSE
    /\ UNCHANGED <<browser, active, cli, sync, changes>>

Loop == LoopWakes \/ LoopReads \/ LoopStarts \/ LoopNotified \/ LoopEnds

Next ==
    \/ StreamEnable \/ StreamDisable \/ Launch \/ Close \/ TabSwitch \/ RecordingStart \/ Sync \/ SetViewport
    \/ ScreencastStart \/ ScreencastStop
    \/ Connect \/ Disconnect
    \/ LoopWakes \/ LoopReads \/ LoopStarts \/ LoopNotified \/ LoopEnds

\* The background task runs, and a command goes on to its end.
Spec == Init /\ [][Next]_vars /\ WF_vars(Loop) /\ WF_vars(Sync)

-----------------------------------------------------------------------------
(* Properties.                                                             *)

Watched == server = "on" /\ viewers > 0 /\ browser # 0
Idle == server = "on" /\ viewers = 0

\* However viewers, tabs, browsers and viewports change, and however many
\* wake-ups are joined into one: while somebody goes on watching, the browser
\* ends up casting the tab and the size the server was last told of.
ViewersSeeTheTab == <>[]Watched => <>[](~ sync /\ Picture(sid, vp) \in cast)

\* When the last viewer has left the browser stops casting.
NobodyWatchesNothingCast == <>[]Idle => <>[](cast = {})

\* Between commands the server works on the daemon's browser, and on none when
\* there is none: its slot, the tab and the flag are three pieces of state
\* that are told one after the other.
ServerKnowsTheBrowser ==
    server = "on" /\ ~ sync => slot = browser /\ (sid = None) = (browser = 0)

\* One tab is cast at a time.
OneCast == \A c, d \in cast : c = d

\* The screencast follows the active tab.
FollowsActiveTab == <>[]Watched => <>[](sid = active)

=============================================================================

--------------------------- MODULE EmbeddedBrowser ---------------------------
(***************************************************************************)
(* The browser preview of reshape: the start-up task of reshape-cli/lib.rs  *)
(* and the refresh after a completed turn of rpc_server.rs, two threads     *)
(* that use the session "reshape-main" through BrowserSession (agent-       *)
(* browser/facade.rs), and the daemons that ensure() starts as threads of   *)
(* the same process (native/daemon.rs with AGENT_BROWSER_EMBEDDED_DAEMON).  *)
(*                                                                         *)
(* A daemon executes one command at a time under its state lock, so a       *)
(* command is one step here; it launches the browser when there is none.    *)
(***************************************************************************)
EXTENDS Naturals, FiniteSets

CONSTANTS
    Daemons,      \* daemon threads ensure may start
    None,
    Extensions,   \* the options name the bundled extension
    MaxTurns,     \* bound: turns that refresh the preview
    Sequential    \* the first turn completes after the start-up task is done, and
                  \* daemons come and go within the polls of ensure

VARIABLES
    host,     \* the reshape process: "up" or "exited"
    st,       \* of each daemon: how far run_daemon is
    page,     \* of each daemon: "none" without a browser, "blank" or "local"
    sock,     \* the daemon that bound the socket file, or None
    ext,      \* the file .extensions is there
    thread,   \* of each thread: [pc, cmd, polls]
    turns,    \* refreshes so far
    report    \* of the last refresh: "none", "rendered" or "warning"

vars == <<host, st, page, sock, ext, thread, turns, report>>
Threads == {"startup", "preview"}
MaxPolls == 2     \* of the 20 and 25 polls of ensure

Init ==
    /\ host = "up"
    /\ st = [d \in Daemons |-> "none"]
    /\ page = [d \in Daemons |-> "none"]
    /\ sock = None
    /\ ext = FALSE
    /\ thread = [t \in Threads |->
         IF t = "startup" THEN [pc |-> "close", cmd |-> "navigate", polls |-> 0]
                          ELSE [pc |-> "idle", cmd |-> "reload", polls |-> 0]]
    /\ turns = 0
    /\ report = "none"

Reachable == sock # None /\ st[sock] \in {"listening", "closing"}
At(t, pc) == host = "up" /\ thread[t].pc = pc
Goto(t, pc) == thread' = [thread EXCEPT ![t].pc = pc, ![t].polls = 0]

\* The command close: the browser is closed and the daemon will leave.
Close(d) ==
    /\ st' = [st EXCEPT ![d] = "closing"]
    /\ page' = [page EXCEPT ![d] = "none"]
    /\ ext' = FALSE

-----------------------------------------------------------------------------
(* open_startup_browser closes the session, whoever uses it, then opens it. *)

StartupClose ==
    /\ At("startup", "close")
    /\ IF Reachable THEN Close(sock) ELSE UNCHANGED <<st, page, ext>>
    /\ Goto("startup", "ensure")
    /\ UNCHANGED <<host, sock, turns, report>>

\* A turn is complete and index.html is there: refresh_browser_preview.
TurnCompleted ==
    /\ At("preview", "idle")
    /\ turns < MaxTurns
    /\ Sequential => thread["startup"].pc = "done"
    /\ turns' = turns + 1
    /\ report' = "none"
    /\ thread' = [thread EXCEPT !["preview"] =
                     [pc |-> "ensure", cmd |-> "reload", polls |-> 0]]
    /\ UNCHANGED <<host, st, page, sock, ext>>

\* daemon_matches_options: .extensions is written when the browser is
\* launched, so a daemon without a browser has the wrong extensions.
Matches == ext = Extensions

\* daemon_ready asks for stream_status; then close, or clean and spawn.
Ensure(t) ==
    /\ At(t, "ensure")
    /\ Goto(t, CASE Reachable /\ Matches -> "send"
                 [] Reachable /\ ~Matches -> "replace"
                 [] OTHER -> "spawn")
    /\ UNCHANGED <<host, st, page, sock, ext, turns, report>>

Replace(t) ==
    /\ At(t, "replace")
    /\ IF Reachable THEN Close(sock) ELSE UNCHANGED <<st, page, ext>>
    /\ Goto(t, "gone")
    /\ UNCHANGED <<host, sock, turns, report>>

\* Wait until the closed daemon is gone, or stop waiting.
Gone(t) ==
    /\ At(t, "gone")
    /\ IF Reachable /\ (Sequential \/ thread[t].polls < MaxPolls)
         THEN thread' = [thread EXCEPT ![t].polls = IF @ < MaxPolls THEN @ + 1 ELSE @]
         ELSE Goto(t, "spawn")
    /\ UNCHANGED <<host, st, page, sock, ext, turns, report>>

\* cleanup_stale_files and the thread of a new daemon.
Spawn(t) ==
    /\ At(t, "spawn")
    /\ sock' = None
    /\ \E d \in Daemons : st[d] = "none" /\ st' = [st EXCEPT ![d] = "boot"]
    /\ Goto(t, "poll")
    /\ UNCHANGED <<host, page, ext, turns, report>>

\* The result of the thread's call.  A refused reload is retried by opening
\* the address; what the second attempt returns is reported.
Failed(t) ==
    IF t = "startup" THEN Goto(t, "done") /\ UNCHANGED report
    ELSE IF thread[t].cmd = "reload"
      THEN /\ thread' = [thread EXCEPT ![t] =
                            [pc |-> "ensure", cmd |-> "navigate", polls |-> 0]]
           /\ UNCHANGED report
      ELSE Goto(t, "idle") /\ report' = "warning"

\* The mutant looks for its daemon once.
PollOnce(t) ==
    /\ At(t, "poll")
    /\ IF Reachable THEN Goto(t, "send") /\ UNCHANGED report ELSE Failed(t)
    /\ UNCHANGED <<host, st, page, sock, ext, turns>>

Poll(t) ==
    /\ At(t, "poll")
    /\ CASE Reachable -> Goto(t, "send") /\ UNCHANGED report
         [] ~Reachable /\ (Sequential \/ thread[t].polls < MaxPolls) ->
              /\ thread' = [thread EXCEPT ![t].polls =
                               IF @ < MaxPolls THEN @ + 1 ELSE @]
              /\ UNCHANGED report
         [] OTHER -> Failed(t)     \* BrowserError::DaemonStart
    /\ UNCHANGED <<host, st, page, sock, ext, turns>>

\* What the daemon shows after the command: a browser launched for a reload
\* has an empty page, and reloads that.
Shown(d, cmd) ==
    CASE cmd = "navigate" -> "local"
      [] page[d] = "none" -> "blank"
      [] OTHER -> page[d]

\* The command reaches the daemon.  The answer is a response, successful or
\* not: AgentBrowserRenderer drops it, so that only transport errors count.
Send(t) ==
    /\ At(t, "send")
    /\ Reachable
    /\ \E launched \in {TRUE} \cup {l \in {FALSE} : page[sock] = "none"} :
         IF launched
           THEN /\ page' = [page EXCEPT ![sock] = Shown(sock, thread[t].cmd)]
                /\ ext' = Extensions
           ELSE UNCHANGED <<page, ext>>
    /\ Goto(t, IF t = "startup" THEN "done" ELSE "idle")
    /\ report' = IF t = "preview" THEN "rendered" ELSE report
    /\ UNCHANGED <<host, st, sock, turns>>

\* All attempts of send_command failed.
SendFailed(t) ==
    /\ At(t, "send")
    /\ ~Reachable
    /\ Failed(t)
    /\ UNCHANGED <<host, st, page, sock, ext, turns>>

-----------------------------------------------------------------------------
(* run_daemon on a thread of its own.                                      *)

Boot(d) ==
    /\ host = "up" /\ st[d] = "boot"
    /\ st' = [st EXCEPT ![d] = "unlinked"]
    /\ sock' = None
    /\ ext' = FALSE
    /\ UNCHANGED <<host, page, thread, turns, report>>

\* A bind that fails ends in process::exit, which ends the host.
Bind(d) ==
    /\ host = "up" /\ st[d] = "unlinked"
    /\ IF sock = None
         THEN st' = [st EXCEPT ![d] = "listening"] /\ sock' = d /\ UNCHANGED host
         ELSE host' = "exited" /\ UNCHANGED <<st, sock>>
    /\ UNCHANGED <<page, ext, thread, turns, report>>

\* After close the daemon removes the files and its thread ends; a browser
\* launched by a command that came after close is killed by its destructor.
Leave(d) ==
    /\ host = "up" /\ st[d] = "closing"
    /\ st' = [st EXCEPT ![d] = "left"]
    /\ page' = [page EXCEPT ![d] = "none"]
    /\ sock' = None
    /\ ext' = FALSE
    /\ UNCHANGED <<host, thread, turns, report>>

\* The user closes the window, or the browser dies.
BrowserGone(d) ==
    /\ host = "up" /\ st[d] = "listening" /\ page[d] # "none"
    /\ thread["startup"].pc = "done"
    /\ page' = [page EXCEPT ![d] = "none"]
    /\ UNCHANGED <<host, st, sock, ext, thread, turns, report>>

ThreadStep(t) ==
    \/ Ensure(t) \/ Replace(t) \/ Gone(t) \/ Spawn(t) \/ Poll(t) \/ Send(t)
    \/ SendFailed(t)

Next ==
    \/ StartupClose \/ TurnCompleted
    \/ \E t \in Threads : ThreadStep(t)
    \/ \E d \in Daemons : Boot(d) \/ Bind(d) \/ Leave(d) \/ BrowserGone(d)

\* Threads of a process that is up run.
Spec ==
    /\ Init
    /\ [][Next]_vars
    /\ WF_vars(StartupClose)
    /\ \A t \in Threads : WF_vars(ThreadStep(t))
    /\ \A d \in Daemons : WF_vars(Boot(d) \/ Bind(d) \/ Leave(d))

-----------------------------------------------------------------------------

\* Threads and daemons are at known places.
TypeOK ==
    /\ host \in {"up", "exited"}
    /\ sock \in Daemons \cup {None}
    /\ ext \in BOOLEAN
    /\ \A t \in Threads : thread[t].polls \in 0 .. MaxPolls
    /\ \A d \in Daemons :
         /\ page[d] \in {"none", "blank", "local"}
         /\ page[d] # "none" => st[d] \in {"listening", "closing"}

Starting == {d \in Daemons : st[d] \in {"boot", "unlinked"}}

\* When the turns come after the start-up task, one daemon starts at a time:
\* no bind fails, the process survives and no second browser is left behind.
HostSurvivesInOrder ==
    Sequential => host = "up" /\ \A d, e \in Starting : d = e

\* Likewise only one daemon has a browser window, and it can be reached.
OneWindowInOrder ==
    Sequential => \A d \in Daemons : page[d] # "none" => sock = d

\* Every refresh ends with a report, whatever the daemon and the browser do.
RefreshEnds == (thread["preview"].pc = "ensure") ~>
                  (thread["preview"].pc = "idle" \/ host = "exited")

=============================================================================

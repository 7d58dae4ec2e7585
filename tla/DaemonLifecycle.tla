--------------------------- MODULE DaemonLifecycle ---------------------------
(***************************************************************************)
(* One session of agent-browser: the command-line clients that look for,    *)
(* kill, start and call its daemon (agent-browser/src/connection.rs and     *)
(* main.rs), the daemon processes (native/daemon.rs) and the side files     *)
(* <session>.sock, .pid and .version by which they find each other.         *)
(*                                                                         *)
(* A client is one process of the command line.  The sleeps of the code     *)
(* order nothing by themselves and are left out: only the number of polls   *)
(* and retries they separate is kept.                                      *)
(***************************************************************************)
EXTENDS Naturals, FiniteSets

CONSTANTS
    Clients,
    Daemons,      \* process ids daemons may get
    None,
    MaxRetries,   \* MAX_RETRIES of send_command
    MaxPolls,     \* polls of ensure_daemon for the daemon it spawned
    MaxActive,    \* bound: clients running at the same time
    MaxFaults,    \* bound: crashes and idle timeouts of daemons
    MayReuse      \* the system may give a dead daemon's pid to another process

VARIABLES
    sock,     \* the daemon that bound the file .sock, or None: no file
    pid,      \* the content of .pid, or None
    ver,      \* the content of .version, or None
    st,       \* of each daemon: how far run_daemon is
    version,  \* of each daemon: its CARGO_PKG_VERSION
    term,     \* daemons with a SIGTERM they have not handled
    client,   \* of each client: where it is in main
    reqs,     \* requests written to a daemon and not yet executed
    foreign,  \* pids of dead daemons that other processes have now
    faults,   \* crashes and idle timeouts so far
    raced     \* some client looked for a daemon while another client did, or
              \* while a daemon was starting or leaving

daemonVars == <<st, version, term>>
vars == <<sock, pid, ver, st, version, term, client, reqs, foreign,
          faults, raced>>

Current == "current"
Commands == {"work", "close", "closeAll"}

Alive(d) == st[d] \notin {"none", "dead"}

\* UnixStream::connect succeeds: the file is there and its owner listens.
Ready == sock # None /\ st[sock] \in {"listening", "closing"}

\* A client between its first look at the files and its first request, or one
\* that runs close --all, which may remove the files to the end.
Looking(c) ==
    \/ client[c].pc \in {"probe", "reprobe", "kill", "wait", "clean", "unlink",
                          "spawn", "poll"}
    \/ client[c].cmd = "closeAll" /\ client[c].pc # "done"

NewClient == [pc |-> "idle", cmd |-> "work", child |-> None, victim |-> None,
              conn |-> None, n |-> 0, res |-> "none"]

\* The session is new, or has a daemon, of this version or an older one, or
\* the files of a daemon that was killed.
Init ==
    \E d \in Daemons, s \in {"none", "listening", "dead"}, v \in {Current, "old"} :
        /\ st = [e \in Daemons |-> IF e = d THEN s ELSE "none"]
        /\ version = [e \in Daemons |-> IF e = d THEN v ELSE Current]
        /\ sock = IF s = "none" THEN None ELSE d
        /\ pid = IF s = "none" THEN None ELSE d
        /\ ver = IF s = "none" THEN None ELSE v
        /\ term = {}
        /\ client = [c \in Clients |-> NewClient]
        /\ reqs = {}
        /\ foreign = {}
        /\ faults = 0
        /\ raced = FALSE

Goto(c, pc) == client' = [client EXCEPT ![c].pc = pc]
Finish(c, r) == client' = [client EXCEPT ![c].pc = "done", ![c].res = r,
                                         ![c].n = 0, ![c].victim = None]

-----------------------------------------------------------------------------
(* Clients: ensure_daemon.                                                 *)

Start(c) ==
    /\ client[c].pc = "idle"
    /\ Cardinality({e \in Clients : client[e].pc \notin {"idle", "done"}})
         < MaxActive
    /\ \E cmd \in Commands :
         client' = [client EXCEPT ![c].cmd = cmd,
                                  ![c].pc = IF cmd = "closeAll" THEN "walk"
                                                                ELSE "probe"]
    /\ raced' = (raced \/ \E e \in Clients : Looking(e))
    /\ UNCHANGED <<sock, pid, ver, daemonVars, reqs, foreign, faults>>

\* No connection although a daemon lives: it is starting or leaving.
Missed == ~Ready /\ \E d \in Daemons : Alive(d)

Probe(c) ==
    /\ client[c].pc = "probe"
    /\ Goto(c, IF Ready THEN "reprobe" ELSE "clean")
    /\ raced' = (raced \/ Missed)
    /\ UNCHANGED <<sock, pid, ver, daemonVars, reqs, foreign, faults>>

\* The second look, and daemon_version_matches.
Reprobe(c) ==
    /\ client[c].pc = "reprobe"
    /\ Goto(c, CASE ~Ready -> "clean"
                 [] Ready /\ ver = Current -> "send"
                 [] OTHER -> "kill")
    /\ raced' = (raced \/ Missed)
    /\ UNCHANGED <<sock, pid, ver, daemonVars, reqs, foreign, faults>>

\* The signal sig reaches whatever process has the pid d.
Signal(d, sig) ==
    /\ term' = IF sig = "term" /\ Alive(d) THEN term \cup {d} ELSE term
    /\ st' = [st EXCEPT ![d] = IF sig = "kill" /\ Alive(d) THEN "dead" ELSE @]

\* The mutant removes the files before it reads the pid.
KillAfterCleanup(c) ==
    /\ client[c].pc = "kill"
    /\ sock' = None
    /\ pid' = None
    /\ ver' = None
    /\ Goto(c, "clean")
    /\ UNCHANGED <<daemonVars, reqs, foreign, faults, raced>>

\* kill_stale_daemon: remove the socket, then SIGTERM to the pid of the file.
Kill(c) ==
    /\ client[c].pc = "kill"
    /\ sock' = None
    /\ IF pid = None
         THEN Goto(c, "clean") /\ UNCHANGED <<st, term>>
         ELSE /\ client' = [client EXCEPT ![c].pc = "wait", ![c].victim = pid]
              /\ Signal(pid, "term")
    /\ UNCHANGED <<pid, ver, version, reqs, foreign, faults, raced>>

\* The victim is gone, or has not left within a second and gets SIGKILL.
KillWait(c) ==
    /\ client[c].pc = "wait"
    /\ Goto(c, "clean")
    /\ Signal(client[c].victim, "kill")
    /\ UNCHANGED <<sock, pid, ver, version, reqs, foreign, faults, raced>>

\* cleanup_stale_files: first .pid and .version, then .sock.
Clean(c) ==
    /\ client[c].pc = "clean"
    /\ pid' = None
    /\ ver' = None
    /\ Goto(c, "unlink")
    /\ UNCHANGED <<sock, daemonVars, reqs, foreign, faults, raced>>

Unlink(c) ==
    /\ client[c].pc = "unlink"
    /\ sock' = None
    /\ Goto(c, "spawn")
    /\ UNCHANGED <<pid, ver, daemonVars, reqs, foreign, faults, raced>>

\* The daemon runs the client's own executable.
Spawn(c) ==
    /\ client[c].pc = "spawn"
    /\ \E d \in Daemons :
         /\ st[d] = "none"
         /\ st' = [st EXCEPT ![d] = "boot"]
         /\ client' = [client EXCEPT ![c].pc = "poll", ![c].child = d]
    /\ UNCHANGED <<sock, pid, ver, version, term, reqs, foreign, faults,
                   raced>>

\* run_daemon has redirected its stderr, to a log file or to /dev/null, before
\* it binds the socket: what it prints of a failed bind is not in the pipe.
BindErrorInPipe == FALSE

Poll(c) ==
    /\ client[c].pc = "poll"
    /\ IF Ready THEN client' = [client EXCEPT ![c].pc = "send", ![c].n = 0]
       ELSE IF ~Alive(client[c].child)
         THEN client' = [client EXCEPT ![c].pc = "done",
                           ![c].res = IF BindErrorInPipe THEN "ok" ELSE "exited"]
       ELSE IF client[c].n = MaxPolls
         THEN client' = [client EXCEPT ![c].pc = "done", ![c].res = "late"]
       ELSE client' = [client EXCEPT ![c].n = @ + 1]
    /\ UNCHANGED <<sock, pid, ver, daemonVars, reqs, foreign, faults,
                   raced>>

-----------------------------------------------------------------------------
(* Clients: send_command, and run_close_all.                               *)

\* walk_daemons and the sessions run_close_all asks to close: a .pid of a dead
\* process, and a .sock without a .pid, have their files removed.
Walk(c) ==
    /\ client[c].pc = "walk"
    /\ raced' = (raced \/ Missed)
    /\ IF pid # None /\ (Alive(pid) \/ pid \in foreign)
         THEN /\ client' = [client EXCEPT ![c].pc = "send", ![c].victim = pid]
              /\ UNCHANGED <<sock, pid, ver>>
         ELSE /\ Finish(c, "ok")
              /\ sock' = None
              /\ pid' = None
              /\ ver' = None
    /\ UNCHANGED <<daemonVars, reqs, foreign, faults>>

\* A transient error: try again, unless it was the last attempt.
Retry(c) ==
    IF client[c].n + 1 < MaxRetries
    THEN client' = [client EXCEPT ![c].n = @ + 1, ![c].pc = "send"]
    ELSE IF client[c].cmd = "closeAll" THEN Goto(c, "force")
    ELSE Finish(c, "unreachable")

Send(c) ==
    /\ client[c].pc = "send"
    /\ IF Ready
         THEN /\ client' = [client EXCEPT ![c].pc = "await", ![c].conn = sock]
              /\ reqs' = reqs \cup {[d |-> sock, c |-> c, n |-> client[c].n]}
         ELSE Retry(c) /\ UNCHANGED reqs
    /\ UNCHANGED <<sock, pid, ver, daemonVars, foreign, faults, raced>>

\* No answer in 30 seconds (EAGAIN), or the daemon is gone (EOF, reset).
NoAnswer(c) ==
    /\ client[c].pc = "await"
    /\ Retry(c)
    /\ UNCHANGED <<sock, pid, ver, daemonVars, reqs, foreign, faults,
                   raced>>

\* close --all kills the process of a session it could not talk to.
ForceClose(c) ==
    /\ client[c].pc = "force"
    /\ Signal(client[c].victim, "kill")
    /\ sock' = None
    /\ pid' = None
    /\ ver' = None
    /\ Finish(c, "ok")
    /\ UNCHANGED <<version, reqs, foreign, faults, raced>>

-----------------------------------------------------------------------------
(* Daemons: run_daemon, run_socket_server and handle_connection.           *)

Step(d, from, to) ==
    /\ st[d] = from
    /\ st' = [st EXCEPT ![d] = to]
    /\ UNCHANGED <<version, term, client, foreign, faults, raced>>

WritePid(d) ==
    /\ Step(d, "boot", "named")
    /\ pid' = d
    /\ ver' = version[d]
    /\ UNCHANGED <<sock, reqs>>

RemoveOldSocket(d) ==
    /\ Step(d, "named", "unlinked")
    /\ sock' = None
    /\ UNCHANGED <<pid, ver, reqs>>

\* UnixListener::bind fails when the file exists, whoever made it; run_daemon
\* then removes the files all the same.
Bind(d) ==
    /\ Step(d, "unlinked", IF sock = None THEN "listening" ELSE "leaving")
    /\ sock' = IF sock = None THEN d ELSE sock
    /\ UNCHANGED <<pid, ver, reqs>>

\* execute_command under the state lock, and the answer.  A daemon whose answer
\* to close cannot be written, its client having given up, does not leave.
Serve(r) ==
    /\ r \in reqs
    /\ st[r.d] \in {"listening", "closing", "leaving", "unlinking"}
    /\ reqs' = reqs \ {r}
    /\ LET waiting == /\ client[r.c].pc = "await"
                      /\ client[r.c].conn = r.d
                      /\ client[r.c].n = r.n
           leaves == waiting /\ client[r.c].cmd # "work" /\ st[r.d] = "listening"
       IN  /\ IF waiting THEN Finish(r.c, "ok") ELSE UNCHANGED client
           /\ st' = [st EXCEPT ![r.d] = IF leaves THEN "closing" ELSE @]
    /\ UNCHANGED <<sock, pid, ver, version, term, foreign, faults, raced>>

\* close_notify: the loop ends and the listener is dropped.
CloseNotified(d) ==
    /\ Step(d, "closing", "leaving")
    /\ UNCHANGED <<sock, pid, ver, reqs>>

\* SIGTERM: the handlers exist only once the loop runs.
Terminated(d) ==
    /\ d \in term
    /\ Alive(d)
    /\ term' = term \ {d}
    /\ st' = [st EXCEPT ![d] =
         CASE @ \in {"listening", "closing"} -> "leaving"
           [] @ \in {"boot", "named", "unlinked"} -> "dead"
           [] OTHER -> @]
    /\ UNCHANGED <<sock, pid, ver, version, client, reqs, foreign,
                   faults, raced>>

\* What run_daemon does after its loop: the files go, whosever they are.
RemoveSocket(d) ==
    /\ Step(d, "leaving", "unlinking")
    /\ sock' = None
    /\ UNCHANGED <<pid, ver, reqs>>

RemoveRest(d) ==
    /\ Step(d, "unlinking", "dead")
    /\ pid' = None
    /\ ver' = None
    /\ UNCHANGED <<sock, reqs>>

\* AGENT_BROWSER_IDLE_TIMEOUT_MS without a command, or the process dies.
Fault(d) ==
    /\ Alive(d)
    /\ faults < MaxFaults
    /\ faults' = faults + 1
    /\ \E to \in {"dead"} \cup {s \in {"leaving"} : st[d] = "listening"} :
         st' = [st EXCEPT ![d] = to]
    /\ UNCHANGED <<sock, pid, ver, version, term, client, reqs, foreign,
                   raced>>

PidReused(d) ==
    /\ MayReuse
    /\ st[d] = "dead"
    /\ d \notin foreign
    /\ foreign' = foreign \cup {d}
    /\ UNCHANGED <<sock, pid, ver, daemonVars, client, reqs, faults,
                   raced>>

ClientStep(c) ==
    \/ Probe(c) \/ Reprobe(c) \/ Kill(c) \/ KillWait(c) \/ Clean(c)
    \/ Unlink(c) \/ Spawn(c) \/ Poll(c) \/ Walk(c) \/ Send(c) \/ NoAnswer(c)
    \/ ForceClose(c)

DaemonStep(d) ==
    \/ WritePid(d) \/ RemoveOldSocket(d) \/ Bind(d) \/ CloseNotified(d)
    \/ Terminated(d) \/ RemoveSocket(d) \/ RemoveRest(d)

Done == (\A c \in Clients : client[c].pc = "done") /\ UNCHANGED vars

Next ==
    \/ \E c \in Clients : Start(c) \/ ClientStep(c)
    \/ \E d \in Daemons : DaemonStep(d) \/ Fault(d) \/ PidReused(d)
    \/ \E r \in reqs : Serve(r)
    \/ Done

\* A process runs as long as it is not killed: clients and daemons take the
\* steps they can take.  Nothing obliges a daemon to finish a command.
Spec ==
    /\ Init
    /\ [][Next]_vars
    /\ \A c \in Clients : WF_vars(ClientStep(c))
    /\ \A d \in Daemons : WF_vars(DaemonStep(d))

-----------------------------------------------------------------------------

Pids == Daemons \cup {None}

\* The files name daemons, and every process is at a known place.
TypeOK ==
    /\ sock \in Pids /\ pid \in Pids /\ ver \in {None, Current, "old"}
    /\ st \in [Daemons -> {"none", "boot", "named", "unlinked", "listening",
                           "closing", "leaving", "unlinking", "dead"}]
    /\ term \subseteq Daemons /\ foreign \subseteq Daemons
    /\ \A c \in Clients :
         /\ client[c].cmd \in Commands
         /\ {client[c].child, client[c].victim, client[c].conn} \subseteq Pids
         /\ client[c].n \in 0 .. MaxRetries + MaxPolls
    /\ \A r \in reqs : r.d \in Daemons /\ r.c \in Clients

\* A client is killing d, and has removed its socket file.
BeingKilled(d) ==
    \E c \in Clients : client[c].pc = "wait" /\ client[c].victim = d

\* A daemon that listens can be found, by a connection and by its pid, so that
\* later clients reuse or replace it.  It is only lost when a client looked
\* for a daemon while another did or while one was coming or going.
FoundUnlessRaced ==
    raced \/ \A d \in Daemons : st[d] = "listening" =>
        (sock = d /\ pid = d /\ ver = version[d]) \/ BeingKilled(d)

\* Without such a race, no session ever has two daemons: the stale one is dead
\* before the next one is started.
OneDaemonUnlessRaced ==
    raced \/ \A d, e \in Daemons : Alive(d) /\ Alive(e) => d = e

\* Every client ends, whatever the daemon does: polls and retries are counted
\* and no read waits for ever.
EveryClientReturns == \A c \in Clients : client[c].pc = "probe" ~> client[c].pc = "done"

\* A daemon that answered close leaves.
CloseStopsDaemon ==
    \A c \in Clients, d \in Daemons :
        (client[c].conn = d /\ client[c].cmd = "close" /\ client[c].res = "ok")
            ~> ~Alive(d)

=============================================================================

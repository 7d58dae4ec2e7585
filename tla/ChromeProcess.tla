---------------------------- MODULE ChromeProcess ----------------------------
(***************************************************************************)
(* launch_chrome and ChromeProcess: up to three attempts to start Chrome,  *)
(* each of which waits for DevToolsActivePort and then reads stderr; the   *)
(* directories made on the way; closing and dropping the process that was  *)
(* started.  Chrome is a main process and the helpers of its group; what   *)
(* they do and when is external.                                           *)
(***************************************************************************)
EXTENDS Naturals, Sequences

CONSTANTS
    MaxAttempts,  \* max_attempts, 3
    MaxTries,     \* attempts of Drop at removing the directory, 3
    MaxLines      \* the bound on unread lines of stderr

Attempts == 1..MaxAttempts
Stale == MaxAttempts + 1     \* a port file an earlier Chrome left behind
Temp(a) == <<"temp", a>>     \* the directory attempt a makes for itself
Copy == <<"copy", 0>>        \* the copy of a named profile
User == <<"user", 0>>        \* a profile given by its path
Dirs == {Temp(a) : a \in Attempts} \cup {Copy, User}

VARIABLES
    pc,       \* where launch_chrome or the owner of the process is
    profile,  \* "none", "path", "name"
    attempt,  \* 0 before the first
    late,     \* the deadline of this attempt has passed
    dirs,     \* the directories that were made and still exist
    spared,   \* those whose removal was never tried, or failed
    port,     \* whose port DevToolsActivePort names in each directory, 0 for no file
    main,     \* the main process of each attempt
    helpers,  \* the other processes of its group
    out,      \* its unread lines of stderr: "url" or "text"
    url,      \* the Chrome whose endpoint was found
    tries     \* failed removals of Drop

chrome == <<main, helpers, out>>
vars == <<pc, profile, attempt, late, dirs, spared, port, chrome, url, tries>>

TypeOK ==
    /\ pc \in {"idle", "build", "spawn", "port", "stderr", "fail", "failed",
               "up", "waiting", "drop", "remove", "dropped"}
    /\ profile \in {"none", "path", "name"} /\ attempt \in 0..MaxAttempts /\ late \in BOOLEAN
    /\ dirs \subseteq Dirs \ {User} /\ spared \subseteq dirs
    /\ port \in [Dirs -> 0..Stale] /\ url \in 0..Stale /\ tries \in 0..MaxTries
    /\ main \in [Attempts -> {"none", "alive", "dead", "reaped"}]
    /\ helpers \in [Attempts -> {"none", "alive", "dying", "gone"}]
    /\ \A a \in Attempts : Len(out[a]) <= MaxLines

Init ==
    /\ pc = "idle" /\ profile \in {"none", "path", "name"} /\ attempt = 0 /\ late = FALSE
    /\ dirs = {} /\ spared = {} /\ url = 0 /\ tries = 0
    /\ \E p \in {0, Stale} : port = [d \in Dirs |-> IF d = User THEN p ELSE 0]
    /\ main = [a \in Attempts |-> "none"] /\ helpers = [a \in Attempts |-> "none"]
    /\ out = [a \in Attempts |-> <<>>]

\* The user data directory of attempt a
UserDataDir(a) ==
    CASE profile = "none" -> Temp(a) [] profile = "name" -> Copy [] profile = "path" -> User

-----------------------------------------------------------------------------
(* Chrome.                                                                 *)

ChromeStartsHelpers(a) ==
    /\ main[a] = "alive" /\ helpers[a] = "none" /\ helpers' = [helpers EXCEPT ![a] = "alive"]
    /\ UNCHANGED <<pc, profile, attempt, late, dirs, spared, port, main, out, url, tries>>

ChromeWritesPort(a) ==
    /\ main[a] = "alive" /\ port[UserDataDir(a)] # a
    /\ port' = [port EXCEPT ![UserDataDir(a)] = a]
    /\ UNCHANGED <<pc, profile, attempt, late, dirs, spared, chrome, url, tries>>

ChromePrints(a, line) ==
    /\ main[a] = "alive" /\ Len(out[a]) < MaxLines /\ out' = [out EXCEPT ![a] = Append(@, line)]
    /\ UNCHANGED <<pc, profile, attempt, late, dirs, spared, port, main, helpers, url, tries>>

ChromeExits(a) ==
    /\ main[a] = "alive" /\ main' = [main EXCEPT ![a] = "dead"]
    /\ UNCHANGED <<pc, profile, attempt, late, dirs, spared, port, helpers, out, url, tries>>

\* Helpers go when they are killed, and usually when their main process has gone.
HelpersGo(a) ==
    /\ helpers[a] = "dying" \/ (helpers[a] = "alive" /\ main[a] # "alive")
    /\ helpers' = [helpers EXCEPT ![a] = "gone"]
    /\ UNCHANGED <<pc, profile, attempt, late, dirs, spared, port, main, out, url, tries>>

-----------------------------------------------------------------------------
(* launch_chrome.                                                          *)

\* remove_dir_all may fail only while processes still write to the directory.
Busy(d) ==
    \E a \in Attempts : UserDataDir(a) = d
        /\ (main[a] = "alive" \/ helpers[a] \in {"alive", "dying"})

\* remove_dir_all with its error ignored; User is never removed.
Remove(d) ==
    \/ dirs' = dirs \ {d} /\ spared' = spared \ {d}
    \/ Busy(d) /\ d \in dirs /\ spared' = spared \cup {d} /\ UNCHANGED dirs

\* chrome_path_for_launch, and the copy of a named profile
LaunchChrome ==
    /\ pc = "idle" /\ pc' = "build" /\ attempt' = 1
    /\ dirs' = IF profile = "name" THEN {Copy} ELSE {}
    /\ UNCHANGED <<profile, late, spared, port, chrome, url, tries>>
\* No Chrome, no such profile, or no copy of it: what was made is removed.
LaunchRefused ==
    /\ pc = "idle" /\ pc' = "failed"
    /\ UNCHANGED <<profile, attempt, late, dirs, spared, port, chrome, url, tries>>

\* build_chrome_args; seed_extension_developer_mode may fail once the directory is made.
BuildArgs ==
    /\ pc = "build" /\ pc' = "spawn"
    /\ dirs' = IF profile = "none" THEN dirs \cup {Temp(attempt)} ELSE dirs
    /\ UNCHANGED <<profile, attempt, late, spared, port, chrome, url, tries>>
BuildArgsFails ==
    /\ pc = "build" /\ pc' = "fail"
    /\ \/ UNCHANGED <<dirs, spared>>
       \/ /\ profile = "none"
          /\ dirs' = dirs \cup {Temp(attempt)} /\ spared' = spared \cup {Temp(attempt)}
    /\ UNCHANGED <<profile, attempt, late, port, chrome, url, tries>>

\* The mutant leaves an old DevToolsActivePort where it is.
SpawnStale ==
    /\ pc = "spawn" /\ pc' = "port" /\ late' = FALSE
    /\ main' = [main EXCEPT ![attempt] = "alive"]
    /\ UNCHANGED <<profile, attempt, dirs, spared, port, helpers, out, url, tries>>
\* An old DevToolsActivePort is removed, then Chrome is spawned.
Spawn ==
    /\ pc = "spawn" /\ pc' = "port" /\ late' = FALSE
    /\ port' = [port EXCEPT ![UserDataDir(attempt)] = 0]
    /\ main' = [main EXCEPT ![attempt] = "alive"]
    /\ UNCHANGED <<profile, attempt, dirs, spared, helpers, out, url, tries>>

SpawnFails ==
    /\ pc = "spawn" /\ pc' = "fail" /\ port' = [port EXCEPT ![UserDataDir(attempt)] = 0]
    /\ Remove(Temp(attempt))
    /\ UNCHANGED <<profile, attempt, late, chrome, url, tries>>

Tick ==
    /\ pc \in {"port", "stderr"} /\ ~late /\ late' = TRUE
    /\ UNCHANGED <<pc, profile, attempt, dirs, spared, port, chrome, url, tries>>

\* wait_for_devtools_active_port: try_wait, which reaps, comes before the file
PortFound ==
    /\ pc = "port" /\ main[attempt] = "alive" /\ port[UserDataDir(attempt)] # 0
    /\ url' = port[UserDataDir(attempt)] /\ pc' = "up"
    /\ UNCHANGED <<profile, attempt, late, dirs, spared, port, chrome, tries>>
PortExited ==
    /\ pc = "port" /\ main[attempt] = "dead"
    /\ main' = [main EXCEPT ![attempt] = "reaped"] /\ pc' = "stderr"
    /\ UNCHANGED <<profile, attempt, late, dirs, spared, port, helpers, out, url, tries>>
PortTimesOut ==
    /\ pc = "port" /\ late /\ pc' = "stderr"
    /\ UNCHANGED <<profile, attempt, late, dirs, spared, port, chrome, url, tries>>

\* wait_for_ws_url_until: the deadline is looked at when a line has come.
StderrUrl ==
    /\ pc = "stderr" /\ out[attempt] # <<>> /\ Head(out[attempt]) = "url" /\ ~late
    /\ url' = attempt /\ pc' = "up"
    /\ UNCHANGED <<profile, attempt, late, dirs, spared, port, chrome, tries>>
StderrText ==
    /\ pc = "stderr" /\ out[attempt] # <<>> /\ Head(out[attempt]) = "text" /\ ~late
    /\ out' = [out EXCEPT ![attempt] = Tail(@)]
    /\ UNCHANGED <<pc, profile, attempt, late, dirs, spared, port, main, helpers, url, tries>>

\* Too late or, once nobody holds the pipe, at its end: only the child is killed.
StderrFails ==
    /\ pc = "stderr" /\ pc' = "fail"
    /\ \/ out[attempt] # <<>> /\ late
       \/ /\ out[attempt] = <<>> /\ main[attempt] # "alive"
          /\ helpers[attempt] \in {"none", "gone"}
    /\ main' = [main EXCEPT ![attempt] = IF @ = "alive" THEN "dead" ELSE @]
    /\ Remove(Temp(attempt))
    /\ UNCHANGED <<profile, attempt, late, port, helpers, out, url, tries>>

\* The next attempt, or the end of it all
Retry ==
    /\ pc = "fail" /\ attempt < MaxAttempts /\ attempt' = attempt + 1 /\ pc' = "build"
    /\ UNCHANGED <<profile, late, dirs, spared, port, chrome, url, tries>>
GiveUp ==
    /\ pc = "fail" /\ attempt = MaxAttempts /\ pc' = "failed" /\ Remove(Copy)
    /\ UNCHANGED <<profile, attempt, late, port, chrome, url, tries>>

-----------------------------------------------------------------------------
(* ChromeProcess.                                                          *)

\* kill: the child and its group, then wait for the child
Kill ==
    /\ main' = [main EXCEPT ![attempt] = "reaped"]
    /\ helpers' = [helpers EXCEPT ![attempt] = IF @ = "alive" THEN "dying" ELSE @]

HasExited ==
    /\ pc = "up" /\ main[attempt] = "dead" /\ main' = [main EXCEPT ![attempt] = "reaped"]
    /\ UNCHANGED <<pc, profile, attempt, late, dirs, spared, port, helpers, out, url, tries>>

\* close: Browser.close, then wait_or_kill
Close ==
    /\ pc = "up" /\ pc' = "waiting"
    /\ UNCHANGED <<profile, attempt, late, dirs, spared, port, chrome, url, tries>>
WaitSeesExit ==
    /\ pc = "waiting" /\ main[attempt] \in {"dead", "reaped"} /\ pc' = "drop"
    /\ main' = [main EXCEPT ![attempt] = "reaped"]
    /\ UNCHANGED <<profile, attempt, late, dirs, spared, port, helpers, out, url, tries>>
WaitKills ==
    /\ pc = "waiting" /\ Kill /\ pc' = "drop"
    /\ UNCHANGED <<profile, attempt, late, dirs, spared, port, out, url, tries>>

\* The process is dropped unclosed: the connection failed, or the browser is replaced.
DropUnclosed ==
    /\ pc = "up" /\ pc' = "drop"
    /\ UNCHANGED <<profile, attempt, late, dirs, spared, port, chrome, url, tries>>

\* Drop: kill, then remove the directory of the process, if it has one
DropKills ==
    /\ pc = "drop" /\ Kill /\ pc' = "remove"
    /\ UNCHANGED <<profile, attempt, late, dirs, spared, port, out, url, tries>>
DropRemoves ==
    /\ pc = "remove" /\ pc' = "dropped" /\ dirs' = dirs \ {UserDataDir(attempt)}
    /\ UNCHANGED <<profile, attempt, late, spared, port, chrome, url, tries>>
DropFailsToRemove ==
    /\ pc = "remove" /\ UserDataDir(attempt) \in dirs /\ Busy(UserDataDir(attempt))
    /\ tries' = tries + 1
    /\ IF tries + 1 = MaxTries
       THEN pc' = "dropped" /\ spared' = spared \cup {UserDataDir(attempt)}
       ELSE UNCHANGED <<pc, spared>>
    /\ UNCHANGED <<profile, attempt, late, dirs, port, chrome, url>>

-----------------------------------------------------------------------------
Launching ==
    \/ LaunchChrome \/ LaunchRefused \/ BuildArgs \/ BuildArgsFails \/ Spawn \/ SpawnFails
    \/ PortFound \/ PortExited \/ PortTimesOut \/ StderrUrl \/ StderrText \/ StderrFails
    \/ Retry \/ GiveUp

Closing == WaitSeesExit \/ WaitKills \/ DropKills \/ DropRemoves \/ DropFailsToRemove

Next ==
    \/ Launching \/ Closing \/ Tick \/ HasExited \/ Close \/ DropUnclosed
    \/ \E a \in Attempts : ChromeStartsHelpers(a) \/ ChromeWritesPort(a) \/ ChromeExits(a)
    \/ \E a \in Attempts : HelpersGo(a)
    \/ \E a \in Attempts, line \in {"url", "text"} : ChromePrints(a, line)

\* The thread goes on whenever it can and time passes; Chrome need not do anything.
Spec == Init /\ [][Next]_vars /\ WF_vars(Launching) /\ WF_vars(Closing) /\ WF_vars(Tick)

-----------------------------------------------------------------------------
(* Properties.                                                             *)

\* The endpoint a launch returns is that of the Chrome it started, not one an
\* earlier Chrome or an earlier attempt left in DevToolsActivePort.
OwnEndpoint == url # 0 => url = attempt

\* When launch_chrome has failed, or the process is dropped, no directory is
\* left but those whose removal failed or that build_chrome_args made and
\* abandoned.
TempDirsGone == pc \in {"failed", "dropped"} => dirs \subseteq spared

\* Dropping the process leaves nothing of its group running.
DropKillsTree ==
    pc = "dropped" => main[attempt] = "reaped" /\ helpers[attempt] # "alive"

\* Closing and dropping come to an end.
CloseEnds == pc = "waiting" ~> pc = "dropped"

=============================================================================

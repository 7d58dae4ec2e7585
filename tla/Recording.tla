------------------------------ MODULE Recording ------------------------------
(***************************************************************************)
(* Video recording: the commands, the background task that takes           *)
(* screenshots of one tab and pipes them to ffmpeg, and the indicator the  *)
(* dashboard shows.  Tabs are numbered; tab 0 is the one the browser has.  *)
(***************************************************************************)
EXTENDS Naturals, Sequences, FiniteSets

CONSTANTS
    Paths,      \* files to record to
    MaxTabs,    \* bound on the tabs that starting opens
    MaxTasks,   \* bound on the tasks spawned
    MaxFrames,  \* bound on the frames of a task
    None

ASSUME RecordingAssumption ==
    /\ {MaxTabs, MaxTasks, MaxFrames} \subseteq Nat
    /\ None \notin Nat \cup Paths

VARIABLES
    active, path, frames,  \* RecordingState
    task,      \* capture_task with its counter and cancel channel: a task's number, or None
    tasks,     \* every task ever spawned: its file, its tab, its state and its frames
    tabs, tab, \* how many tabs there are, and the active one
    busy,      \* a stop or restart waits for the task: what it goes on with
    indicator, \* what the dashboard was last told
    reply      \* the last command and what it answered

vars == <<active, path, frames, task, tasks, tabs, tab, busy, indicator, reply>>

Reply(cmd, ok, p) == [cmd |-> cmd, ok |-> ok, path |-> p]
Task(p, t) == [path |-> p, tab |-> t, st |-> "running", frames |-> 0]
Running == {i \in DOMAIN tasks : tasks[i].st = "running"}

Tasks == [path : Paths, tab : Nat, st : {"running", "saved", "failed"}, frames : Nat]
Idle == [st |-> "no"]
Waits == [st : {"waiting"}, cmd : {"stop", "video_stop", "restart"},
          task : DOMAIN tasks \cup {None}, path : Paths \cup {None}]

\* A task in hand means a recording in progress, to the file the state names.
TypeOK ==
    /\ active \in BOOLEAN /\ indicator \in BOOLEAN /\ frames \in Nat
    /\ path \in Paths \cup {None}
    /\ tasks \in Seq(Tasks)
    /\ task \in DOMAIN tasks \cup {None}
    /\ tabs \in Nat /\ tab \in 0 .. tabs
    /\ busy = Idle \/ busy \in Waits
    /\ busy.st = "waiting" /\ busy.cmd = "restart" => busy.path \in Paths
    /\ task # None => active /\ tasks[task].path = path

Init ==
    /\ active = FALSE /\ path = None /\ frames = 0
    /\ task = None /\ tasks = <<>> /\ tabs = 0 /\ tab = 0
    /\ busy = Idle /\ indicator = FALSE /\ reply = None

Free == busy.st = "no"
Refuse(cmd) == reply' = Reply(cmd, FALSE, None)

\* start_recording_task: an earlier handle is dropped, and with it the channel
\* that keeps its task from stopping.
Spawn(p, t) ==
    /\ Len(tasks) < MaxTasks
    /\ tasks' = Append(tasks, Task(p, t))
    /\ task' = Len(tasks) + 1

-----------------------------------------------------------------------------
(* The commands.                                                           *)

\* handle_recording_start: a tab of its own is opened and made active before
\* recording_start looks whether a recording is in progress.
RecordingStart ==
    /\ Free /\ tabs < MaxTabs
    /\ tabs' = tabs + 1 /\ tab' = tabs + 1
    /\ \/ /\ active /\ Refuse("start")
          /\ UNCHANGED <<active, path, frames, task, tasks, indicator>>
       \/ /\ ~ active
          /\ \E p \in Paths : Spawn(p, tab') /\ path' = p /\ reply' = Reply("start", TRUE, p)
          /\ active' = TRUE /\ frames' = 0 /\ indicator' = TRUE
    /\ UNCHANGED busy

\* handle_video_start: the active tab; the dashboard is not told.
VideoStart ==
    /\ Free
    /\ \/ active /\ Refuse("video_start") /\ UNCHANGED <<active, path, frames, task, tasks>>
       \/ /\ ~ active
          /\ \E p \in Paths : Spawn(p, tab) /\ path' = p /\ reply' = Reply("video_start", TRUE, p)
          /\ active' = TRUE /\ frames' = 0
    /\ UNCHANGED <<tabs, tab, busy, indicator>>

\* stop_recording_task: the task is told to stop and taken out of the state;
\* the command waits for it.  handle_video_stop first looks at active.
Stop(cmd, p) ==
    /\ Free
    /\ IF cmd = "video_stop" /\ ~ active
       THEN Refuse(cmd) /\ UNCHANGED <<task, busy>>
       ELSE /\ busy' = [st |-> "waiting", cmd |-> cmd, task |-> task, path |-> p]
            /\ task' = None /\ UNCHANGED reply
    /\ UNCHANGED <<active, path, frames, tasks, tabs, tab, indicator>>

RecordingStop == Stop("stop", None)
VideoStop == Stop("video_stop", None)
RecordingRestart == Len(tasks) < MaxTasks /\ \E p \in Paths : Stop("restart", p)

\* The task that is waited for has ended, or there is none.
Ended == busy.st = "waiting" /\ (busy.task # None => tasks[busy.task].st # "running")
Failed == busy.task # None /\ tasks[busy.task].st = "failed"
Counted == IF busy.task # None THEN tasks[busy.task].frames ELSE frames

\* The rest of handle_recording_stop and handle_video_stop: a task that failed
\* ends the command there; otherwise recording_stop.
FinishStop ==
    /\ Ended /\ busy.cmd \in {"stop", "video_stop"}
    /\ busy' = Idle /\ frames' = Counted
    /\ \/ /\ Failed /\ Refuse(busy.cmd) /\ UNCHANGED <<active, indicator>>
       \/ /\ ~ Failed
          /\ active' = FALSE
          /\ reply' = Reply(busy.cmd, active /\ Counted > 0, IF active /\ Counted > 0 THEN path ELSE None)
          /\ indicator' = IF busy.cmd = "stop" THEN FALSE ELSE indicator
    /\ UNCHANGED <<path, task, tasks, tabs, tab>>

\* The mutant starts the new task while the old one runs on.
FinishRestartAtOnce ==
    /\ busy.st = "waiting" /\ busy.cmd = "restart"
    /\ busy' = Idle
    /\ Spawn(busy.path, tab)
    /\ active' = TRUE /\ path' = busy.path /\ frames' = 0
    /\ reply' = Reply("restart", TRUE, IF active /\ Counted > 0 THEN path ELSE None)
    /\ UNCHANGED <<tabs, tab, indicator>>
\* The rest of handle_recording_restart: how the old task ended does not matter;
\* the new one records the active tab.
FinishRestart ==
    /\ Ended /\ busy.cmd = "restart"
    /\ busy' = Idle
    /\ Spawn(busy.path, tab)
    /\ active' = TRUE /\ path' = busy.path /\ frames' = 0
    /\ reply' = Reply("restart", TRUE, IF active /\ Counted > 0 THEN path ELSE None)
    /\ UNCHANGED <<tabs, tab, indicator>>

SwitchTab ==
    /\ Free /\ tab' \in (0 .. tabs) \ {tab}
    /\ UNCHANGED <<active, path, frames, task, tasks, tabs, busy, indicator, reply>>

-----------------------------------------------------------------------------
(* The tasks.                                                              *)

\* A screenshot reaches ffmpeg; one that fails is skipped.
Frame ==
    /\ \E i \in Running : tasks[i].frames < MaxFrames /\ tasks' = [tasks EXCEPT ![i].frames = @ + 1]
    /\ UNCHANGED <<active, path, frames, task, tabs, tab, busy, indicator, reply>>

\* The mutant waits for ever when ffmpeg fails.
TaskEndsOrHangs ==
    /\ \E i \in Running : tasks' = [tasks EXCEPT ![i].st = "saved"]
    /\ busy.st = "no"
    /\ UNCHANGED <<active, path, frames, task, tabs, tab, busy, indicator, reply>>
\* Cancelled, the tab closed or the pipe broken: the task ends with ffmpeg, which
\* saves the file or fails; ffmpeg may also be missing from the start.
TaskEnds ==
    /\ \E i \in Running, st \in {"saved", "failed"} : tasks' = [tasks EXCEPT ![i].st = st]
    /\ UNCHANGED <<active, path, frames, task, tabs, tab, busy, indicator, reply>>

Next ==
    \/ RecordingStart \/ VideoStart
    \/ RecordingStop \/ VideoStop \/ RecordingRestart
    \/ FinishStop \/ FinishRestart
    \/ SwitchTab \/ Frame \/ TaskEnds

\* A task that is told to stop does, and the command that waits for it goes on.
Told == busy.st = "waiting" /\ TaskEnds
Spec == Init /\ [][Next]_vars /\ WF_vars(Told) /\ WF_vars(FinishStop) /\ WF_vars(FinishRestart)

-----------------------------------------------------------------------------
(* Properties.                                                             *)

\* However starts, stops and restarts follow each other, at most one task feeds
\* ffmpeg, and it is the one a stop would end.
OneTask == \A i \in Running : i = task \/ (busy.st = "waiting" /\ i = busy.task)

\* A stop that finds a task to stop names a file only when it has waited for
\* ffmpeg and seen it succeed, and the frames are those of that task.
StopWaitsForFfmpeg ==
    (busy.st = "waiting" /\ busy.cmd # "restart" /\ busy'.st = "no" /\ reply'.ok /\ busy.task # None)
    => /\ tasks[busy.task].path = reply'.path /\ tasks[busy.task].st = "saved"
       /\ frames' = tasks[busy.task].frames /\ frames' > 0

\* recording.rs: at most one task feeds ffmpeg, the one a stop would end, and a
\* stop that finds a task to stop names a file only when ffmpeg has saved it, and
\* counts the frames of that task.
RecordingIsSaved == [](TypeOK /\ OneTask) /\ [][StopWaitsForFfmpeg]_vars

\* A stop or restart does not hang.
StopReturns == (busy.st = "waiting") ~> (busy.st = "no")

=============================================================================

--------------------------- MODULE RecordingProofs ---------------------------
(***************************************************************************)
(* Theorems about parts of MCMediaSuite: Recording, for any files and any  *)
(* number of tabs, tasks and frames; and, below, the live stream.          *)
(***************************************************************************)
EXTENDS MCMediaSuite, TLAPS, FiniteSetTheorems

(***************************************************************************)
(* The inductive invariant.                                                *)
(***************************************************************************)

\* A command that waits has taken the task out of the state, and the task it
\* waits for is that of the recording in progress.
WaitInv ==
    busy.st = "waiting" =>
        /\ task = None
        /\ busy.task # None => active /\ tasks[busy.task].path = path

RecordingInv == TypeOK /\ OneTask /\ WaitInv

(***************************************************************************)
(* Facts the steps share.                                                  *)
(***************************************************************************)

\* None is no task, and the two states of a command differ.
LEMMA NoTask ==
    ASSUME TypeOK
    PROVE  /\ DOMAIN tasks = 1 .. Len(tasks) /\ Len(tasks) \in Nat
           /\ None \notin DOMAIN tasks
           /\ Idle.st = "no"
           /\ busy.st = "no" => busy = Idle
           /\ busy.st # "no" => busy \in Waits /\ busy.st = "waiting"
<1>1. DOMAIN tasks = 1 .. Len(tasks) /\ Len(tasks) \in Nat
  BY DEF TypeOK
<1>2. None \notin DOMAIN tasks
  BY <1>1, RecordingAssumption
<1>3. Idle.st = "no"
  BY DEF Idle
<1>4. busy \in Waits => busy.st = "waiting"
  BY DEF Waits
<1>. QED  BY <1>1, <1>2, <1>3, <1>4 DEF TypeOK

\* A spawned task is the last one, runs, and leaves the others as they were.
LEMMA Spawned ==
    ASSUME TypeOK, NEW p \in Paths, NEW t \in Nat, Spawn(p, t)
    PROVE  /\ tasks' \in Seq(Tasks)
           /\ task' \in DOMAIN tasks' /\ task' # None /\ tasks'[task'].path = p
           /\ DOMAIN tasks \subseteq DOMAIN tasks'
           /\ \A i \in DOMAIN tasks : tasks'[i] = tasks[i]
           /\ \A i \in DOMAIN tasks' : i = task' \/ i \in DOMAIN tasks
<1>1. Task(p, t) \in Tasks /\ Task(p, t).path = p
  BY DEF Task, Tasks
<1>2. tasks \in Seq(Tasks) /\ Len(tasks) \in Nat /\ DOMAIN tasks = 1 .. Len(tasks)
  BY NoTask DEF TypeOK
<1>3. /\ tasks' = Append(tasks, Task(p, t)) /\ task' = Len(tasks) + 1
  BY DEF Spawn
<1>4. /\ tasks' \in Seq(Tasks) /\ Len(tasks') = Len(tasks) + 1
      /\ DOMAIN tasks' = 1 .. Len(tasks) + 1
      /\ tasks'[Len(tasks) + 1] = Task(p, t)
      /\ \A i \in 1 .. Len(tasks) : tasks'[i] = tasks[i]
  BY <1>1, <1>2, <1>3
<1>5. task' \in DOMAIN tasks' /\ task' # None
  BY <1>2, <1>3, <1>4, RecordingAssumption
<1>. QED  BY <1>1, <1>2, <1>3, <1>4, <1>5

\* A step that starts a task while none runs keeps the invariant.
LEMMA SpawnKeeps ==
    ASSUME RecordingInv, Running = {}, NEW p \in Paths, Spawn(p, tab'),
           tabs' \in Nat, tab' \in 0 .. tabs', indicator' \in BOOLEAN,
           active' = TRUE, path' = p, frames' = 0, busy' = Idle
    PROVE  RecordingInv'
<1>1. tab' \in Nat
  OBVIOUS
<1>2. /\ tasks' \in Seq(Tasks)
      /\ task' \in DOMAIN tasks' /\ task' # None /\ tasks'[task'].path = p
      /\ \A i \in DOMAIN tasks : tasks'[i] = tasks[i]
      /\ \A i \in DOMAIN tasks' : i = task' \/ i \in DOMAIN tasks
  BY <1>1, Spawned DEF RecordingInv
<1>3. busy'.st = "no"
  BY NoTask DEF RecordingInv
<1>4. TypeOK'
  BY <1>2, <1>3 DEF TypeOK
<1>5. OneTask'
  BY <1>2 DEF OneTask, Running
<1>6. WaitInv'
  BY <1>3 DEF WaitInv
<1>. QED  BY <1>4, <1>5, <1>6 DEF RecordingInv

\* Without a recording in progress and without a command that waits, no task
\* runs.
LEMMA NoneRuns ==
    ASSUME RecordingInv, Free, ~ active
    PROVE  Running = {}
<1>1. task = None
  BY DEF RecordingInv, TypeOK
<1>2. \A i \in Running : i = None
  BY <1>1 DEF RecordingInv, OneTask, Free
<1>. QED  BY <1>2, NoTask DEF RecordingInv, Running

(***************************************************************************)
(* The steps.                                                              *)
(***************************************************************************)

\* Nothing is recorded.
LEMMA InitRecording == Init => RecordingInv
<1>. SUFFICES ASSUME Init PROVE RecordingInv
  OBVIOUS
<1>1. busy.st = "no"
  BY DEF Init, Idle
<1>2. tasks \in Seq(Tasks) /\ DOMAIN tasks = {}
  BY DEF Init
<1>3. TypeOK
  <2>1. active \in BOOLEAN /\ indicator \in BOOLEAN
    BY DEF Init
  <2>2. frames \in Nat /\ tabs \in Nat /\ tab \in 0 .. tabs
    BY DEF Init
  <2>3. path \in Paths \cup {None} /\ task = None /\ busy = Idle
    BY DEF Init
  <2>. QED  BY <1>1, <1>2, <2>1, <2>2, <2>3 DEF TypeOK
<1>. QED  BY <1>1, <1>2, <1>3 DEF RecordingInv, OneTask, WaitInv, Running

\* A tab is opened also when a recording is in progress.
LEMMA RecordingStartKeeps ==
    ASSUME RecordingInv, RecordingStart
    PROVE  RecordingInv'
<1>1. /\ Free /\ busy' = busy /\ busy = Idle
      /\ tabs' \in Nat /\ tab' \in 0 .. tabs' /\ tabs \in Nat
  BY NoTask DEF RecordingInv, RecordingStart, Free, TypeOK
<1>2. CASE active /\ UNCHANGED <<active, path, frames, task, tasks, indicator>>
  BY <1>1, <1>2 DEF RecordingInv, TypeOK, OneTask, WaitInv, Running, Waits
<1>3. CASE ~ active /\ \E p \in Paths : Spawn(p, tab') /\ path' = p
                    /\ active' = TRUE /\ frames' = 0 /\ indicator' = TRUE
  BY <1>1, <1>3, NoneRuns, SpawnKeeps
<1>. QED  BY <1>2, <1>3 DEF RecordingStart

\* A recording of the active tab.
LEMMA VideoStartKeeps ==
    ASSUME RecordingInv, VideoStart
    PROVE  RecordingInv'
<1>1. /\ Free /\ busy' = busy /\ busy = Idle
      /\ tabs' = tabs /\ tab' = tab /\ indicator' = indicator
      /\ tabs' \in Nat /\ tab' \in 0 .. tabs' /\ indicator' \in BOOLEAN
  BY NoTask DEF RecordingInv, VideoStart, Free, TypeOK
<1>2. CASE active /\ UNCHANGED <<active, path, frames, task, tasks>>
  BY <1>1, <1>2 DEF RecordingInv, TypeOK, OneTask, WaitInv, Running, Waits
<1>3. CASE ~ active /\ \E p \in Paths : Spawn(p, tab) /\ path' = p
                    /\ active' = TRUE /\ frames' = 0
  <2>1. PICK p \in Paths : Spawn(p, tab') /\ path' = p
    BY <1>1, <1>3
  <2>. QED  BY <1>1, <1>3, <2>1, NoneRuns, SpawnKeeps
<1>. QED  BY <1>2, <1>3 DEF VideoStart

\* The task passes from the state to the command that waits.
LEMMA StopKeeps ==
    ASSUME RecordingInv, NEW cmd \in {"stop", "video_stop", "restart"},
           NEW p \in Paths \cup {None}, cmd = "restart" => p \in Paths, Stop(cmd, p)
    PROVE  RecordingInv'
<1>1. /\ busy = Idle /\ busy.st = "no" /\ UNCHANGED <<active, path, frames, tasks, tabs, tab, indicator>>
  BY NoTask DEF RecordingInv, Stop, Free
<1>2. CASE UNCHANGED <<task, busy>>
  BY <1>1, <1>2 DEF RecordingInv, TypeOK, OneTask, WaitInv, Running, Waits
<1>3. CASE /\ busy' = [st |-> "waiting", cmd |-> cmd, task |-> task, path |-> p]
           /\ task' = None
  <2>1. task \in DOMAIN tasks \cup {None}
    BY DEF RecordingInv, TypeOK
  <2>2. /\ busy' \in Waits' /\ busy'.st = "waiting" /\ busy'.cmd = cmd
        /\ busy'.task = task /\ busy'.path = p
    BY <1>1, <1>3, <2>1 DEF Waits
  <2>3. TypeOK'
    BY <1>1, <1>3, <2>2 DEF RecordingInv, TypeOK
  <2>4. OneTask'
    BY <1>1, <1>3, <2>2 DEF RecordingInv, OneTask, Running
  <2>5. WaitInv'
    BY <1>1, <1>3, <2>2 DEF RecordingInv, WaitInv, TypeOK
  <2>. QED  BY <2>3, <2>4, <2>5 DEF RecordingInv
<1>. QED  BY <1>2, <1>3 DEF Stop

\* When the task that is waited for has ended, none runs.
LEMMA EndedNoneRuns ==
    ASSUME RecordingInv, Ended
    PROVE  Running = {}
<1>1. task = None /\ busy.st = "waiting"
  BY DEF RecordingInv, WaitInv, Ended
<1>2. \A i \in Running : i = None \/ i = busy.task
  BY <1>1 DEF RecordingInv, OneTask
<1>3. None \notin DOMAIN tasks
  BY NoTask DEF RecordingInv
<1>. QED  BY <1>1, <1>2, <1>3 DEF Ended, Running

\* The command that waited goes on.
LEMMA FinishStopKeeps ==
    ASSUME RecordingInv, FinishStop
    PROVE  RecordingInv'
<1>1. /\ busy' = Idle /\ busy'.st = "no" /\ task' = None /\ Running = {}
      /\ UNCHANGED <<path, task, tasks, tabs, tab>>
  BY NoTask, EndedNoneRuns DEF FinishStop, RecordingInv, WaitInv, Ended
<1>2. frames' \in Nat
  <2>1. busy \in Waits
    BY NoTask DEF FinishStop, Ended, RecordingInv
  <2>2. busy.task # None => busy.task \in DOMAIN tasks
    BY <2>1 DEF Waits
  <2>3. \A i \in DOMAIN tasks : tasks[i] \in Tasks
    BY DEF RecordingInv, TypeOK
  <2>4. \A i \in DOMAIN tasks : tasks[i].frames \in Nat
    BY <2>3 DEF Tasks
  <2>. QED  BY <2>2, <2>4 DEF FinishStop, Counted, RecordingInv, TypeOK
<1>3. active' \in BOOLEAN /\ indicator' \in BOOLEAN
  BY DEF FinishStop, RecordingInv, TypeOK
<1>4. TypeOK'
  BY <1>1, <1>2, <1>3 DEF RecordingInv, TypeOK
<1>5. OneTask' /\ WaitInv'
  BY <1>1 DEF OneTask, WaitInv, Running
<1>. QED  BY <1>4, <1>5 DEF RecordingInv

\* A restart goes on when the old task has ended.
LEMMA FinishRestartKeeps ==
    ASSUME RecordingInv, FinishRestart
    PROVE  RecordingInv'
<1>1. busy.path \in Paths
  BY DEF FinishRestart, Ended, RecordingInv, TypeOK
<1>2. /\ tabs' = tabs /\ tab' = tab /\ indicator' = indicator
      /\ tabs' \in Nat /\ tab' \in 0 .. tabs' /\ indicator' \in BOOLEAN
  BY DEF FinishRestart, RecordingInv, TypeOK
<1>3. /\ Spawn(busy.path, tab') /\ active' = TRUE /\ path' = busy.path
      /\ frames' = 0 /\ busy' = Idle /\ Running = {}
  BY <1>2, EndedNoneRuns DEF FinishRestart
<1>. QED  BY <1>1, <1>2, <1>3, SpawnKeeps

\* A task goes on or ends.
LEMMA TaskKeeps ==
    ASSUME RecordingInv, Frame \/ TaskEnds
    PROVE  RecordingInv'
<1>1. UNCHANGED <<active, path, frames, task, tabs, tab, busy, indicator>>
  BY DEF Frame, TaskEnds
<1>2. PICK i \in Running : \/ tasks' = [tasks EXCEPT ![i].frames = @ + 1]
                           \/ \E st \in {"saved", "failed"} : tasks' = [tasks EXCEPT ![i].st = st]
  BY DEF Frame, TaskEnds
<1>3. i \in DOMAIN tasks /\ tasks \in Seq(Tasks) /\ tasks[i] \in Tasks
  BY <1>2 DEF Running, RecordingInv, TypeOK
<1>4. /\ tasks' \in Seq(Tasks) /\ DOMAIN tasks' = DOMAIN tasks
      /\ \A j \in DOMAIN tasks : tasks'[j].path = tasks[j].path
      /\ \A j \in DOMAIN tasks : tasks'[j].st = "running" => tasks[j].st = "running"
  <2>1. CASE tasks' = [tasks EXCEPT ![i].frames = @ + 1]
    BY <1>3, <2>1 DEF Tasks
  <2>2. CASE \E st \in {"saved", "failed"} : tasks' = [tasks EXCEPT ![i].st = st]
    BY <1>3, <2>2 DEF Tasks
  <2>. QED  BY <1>2, <2>1, <2>2
<1>5. Waits' = Waits
  BY <1>4 DEF Waits
<1>6. TypeOK'
  BY <1>1, <1>4, <1>5 DEF RecordingInv, TypeOK
<1>7. OneTask'
  BY <1>1, <1>4 DEF RecordingInv, OneTask, Running
<1>8. WaitInv'
  <2>1. busy.st = "waiting" /\ busy.task # None => busy.task \in DOMAIN tasks
    BY NoTask DEF RecordingInv, Waits
  <2>. QED  BY <1>1, <1>4, <2>1 DEF RecordingInv, WaitInv
<1>. QED  BY <1>6, <1>7, <1>8 DEF RecordingInv

\* Every step keeps the invariant.
LEMMA NextKeeps ==
    ASSUME RecordingInv, [Next]_vars
    PROVE  RecordingInv'
<1>1. CASE RecordingStart
  BY <1>1, RecordingStartKeeps
<1>2. CASE VideoStart
  BY <1>2, VideoStartKeeps
<1>3. CASE RecordingStop \/ VideoStop
  BY <1>3, StopKeeps DEF RecordingStop, VideoStop
<1>4. CASE RecordingRestart
  BY <1>4, StopKeeps DEF RecordingRestart
<1>5. CASE FinishStop
  BY <1>5, FinishStopKeeps
<1>6. CASE FinishRestart
  BY <1>6, FinishRestartKeeps
<1>7. CASE SwitchTab
  BY <1>7 DEF SwitchTab, RecordingInv, TypeOK, OneTask, WaitInv, Running, Waits
<1>8. CASE Frame \/ TaskEnds
  BY <1>8, TaskKeeps
<1>9. CASE UNCHANGED vars
  BY <1>9 DEF vars, RecordingInv, TypeOK, OneTask, WaitInv, Running, Waits
<1>. QED  BY <1>1, <1>2, <1>3, <1>4, <1>5, <1>6, <1>7, <1>8, <1>9 DEF Next

\* Only the end of a stop can answer a stop, and it has looked at the task.
LEMMA StopTells ==
    ASSUME RecordingInv, [Next]_vars
    PROVE  [StopWaitsForFfmpeg]_vars
<1>. SUFFICES ASSUME Next, busy.st = "waiting", busy.cmd # "restart", busy'.st = "no",
                     reply'.ok, busy.task # None
              PROVE  /\ tasks[busy.task].path = reply'.path /\ tasks[busy.task].st = "saved"
                     /\ frames' = tasks[busy.task].frames /\ frames' > 0
  BY DEF StopWaitsForFfmpeg
<1>1. FinishStop
  <2>1. ~ Free /\ busy' # busy
    BY DEF Free
  <2>. QED  BY <2>1 DEF Next, RecordingStart, VideoStart, RecordingStop, VideoStop,
               RecordingRestart, Stop, FinishRestart, SwitchTab, Frame, TaskEnds
<1>2. busy.task \in DOMAIN tasks /\ tasks[busy.task] \in Tasks
  BY NoTask DEF RecordingInv, Waits, TypeOK
<1>3. ~ Failed /\ reply' = Reply(busy.cmd, active /\ Counted > 0, IF active /\ Counted > 0 THEN path ELSE None)
  <2>1. \A cmd, ok, p : Reply(cmd, ok, p).ok = ok
    BY DEF Reply
  <2>2. ~ Refuse(busy.cmd)
    <3>. SUFFICES ASSUME Refuse(busy.cmd) PROVE FALSE
      OBVIOUS
    <3>1. reply' = Reply(busy.cmd, FALSE, None)
      BY DEF Refuse
    <3>2. reply'.ok = FALSE
      BY <2>1, <3>1, Zenon
    <3>. QED  BY <3>2, Zenon
  <2>. QED  BY <1>1, <2>2 DEF FinishStop
<1>4. active /\ Counted > 0 /\ reply'.path = path
  BY <1>3 DEF Reply
<1>5. tasks[busy.task].st = "saved"
  BY <1>1, <1>2, <1>3 DEF FinishStop, Ended, Failed, Tasks
<1>6. tasks[busy.task].path = path
  BY DEF RecordingInv, WaitInv
<1>7. frames' = tasks[busy.task].frames /\ Counted = frames'
  BY <1>1 DEF FinishStop, Counted
<1>. QED  BY <1>4, <1>5, <1>6, <1>7

(***************************************************************************)
(* recording.rs, actions.rs: however starts, stops and restarts of both     *)
(* kinds follow each other and whenever ffmpeg fails or the tab closes, at  *)
(* most one task feeds ffmpeg, the one a stop would end; and a stop that    *)
(* finds one names a file only when ffmpeg has saved it.                    *)
(***************************************************************************)
THEOREM OneRecordingIsSaved == Spec => RecordingIsSaved
<1>1. Spec => []RecordingInv
  BY InitRecording, NextKeeps, PTL DEF Spec
<1>2. RecordingInv => TypeOK /\ OneTask
  BY DEF RecordingInv
<1>3. RecordingInv /\ [Next]_vars => [StopWaitsForFfmpeg]_vars
  BY StopTells
<1>. QED  BY <1>1, <1>2, <1>3, PTL DEF Spec, RecordingIsSaved

(***************************************************************************)
(* The live stream, parts "stream" and "shared": for any tabs and viewers. *)
(***************************************************************************)

\* The loop works with a client that was there when it woke, and only of that one's
\* browser is anything cast.
CastInv ==
    /\ v14 \in Nat /\ v1 \in 0 .. v14 /\ v6 \in 0 .. v14
    /\ v4 = FALSE /\ v5 # "stopping" /\ (v1 = 0 => v3 = {})
    /\ v5 = "off" => v13.at = "gone"
    /\ v13.at \in {"start", "send", "cast"} => v13.client \in 1 .. v14
    /\ v13.at \in {"send", "cast"} =>
          v13 = [at |-> v13.at, client |-> v13.client, tab |-> v13.tab, vp |-> v13.vp]
    /\ IF v13.at = "cast" /\ v13.client = v1
       THEN v3 \subseteq {Stream!Picture(v13.tab, v13.vp)} ELSE v3 = {}

LEMMA CastStart == Stream!Init => CastInv
BY DEF Stream!Init, Stream!FreshServer, CastInv

\* What a command or a viewer changes.
LEMMA CastCommands ==
    ASSUME CastInv,
           \/ Stream!StreamEnable \/ Stream!Launch \/ Stream!Close \/ Stream!TabSwitch
           \/ Stream!Sync \/ Stream!SetViewport \/ Stream!Connect \/ Stream!Disconnect
    PROVE  CastInv'
<1>1. CASE Stream!StreamEnable
    BY <1>1 DEF Stream!StreamEnable, Stream!Command, Stream!Waiting, CastInv
<1>2. CASE Stream!Launch
    <2>1. /\ v1 = 0 /\ v1' = v14 + 1 /\ v14' = v14 + 1 /\ v3 = {} /\ v3' = {} /\ v13' = v13
          /\ v6' \in {v6, v1'} /\ v4' = FALSE /\ v5' = v5
        BY <1>2 DEF Stream!Launch, Stream!Command, CastInv
    <2>. QED  BY <2>1 DEF CastInv
<1>3. CASE Stream!Close
    BY <1>3 DEF Stream!Close, Stream!Command, CastInv
<1>4. CASE Stream!TabSwitch \/ Stream!SetViewport \/ Stream!Connect
    BY <1>4 DEF Stream!TabSwitch, Stream!SetViewport, Stream!Connect, Stream!Command, CastInv
<1>5. CASE Stream!Sync \/ Stream!Disconnect
    BY <1>5 DEF Stream!Sync, Stream!Disconnect, CastInv
<1>. QED  BY <1>1, <1>2, <1>3, <1>4, <1>5

\* What the loop does.
LEMMA CastLoop ==
    ASSUME CastInv, Stream!LoopWakes \/ Stream!LoopReads \/ Stream!LoopStarts \/ Stream!LoopNotified
    PROVE  CastInv'
<1>1. /\ v1' = v1 /\ v4' = v4 /\ v5' = v5 /\ v6' = v6 /\ v14' = v14
    BY DEF Stream!LoopWakes, Stream!LoopReads, Stream!LoopStarts, Stream!LoopNotified
<1>2. CASE Stream!LoopWakes
    <2>1. v3 = {} /\ v3' = {}
        BY <1>2 DEF Stream!LoopWakes, Stream!Stopped, CastInv
    <2>2. \/ v13' = v13 \/ v13' = [at |-> "wait"]
          \/ v6 # 0 /\ v13' = [at |-> "start", client |-> v6]
        BY <1>2 DEF Stream!LoopWakes, Stream!Waiting
    <2>3. v13.at = "wait"
        BY <1>2 DEF Stream!LoopWakes
    <2>. QED  BY <1>1, <2>1, <2>2, <2>3 DEF CastInv
<1>3. CASE Stream!LoopReads
    BY <1>1, <1>3 DEF Stream!LoopReads, CastInv
<1>4. CASE Stream!LoopStarts
    <2>1. /\ v3 = {} /\ v13.client \in 1 .. v14
          /\ v13' = [at |-> "cast", client |-> v13.client, tab |-> v13.tab, vp |-> v13.vp]
        BY <1>4 DEF Stream!LoopStarts, CastInv
    <2>2. v13.client = v1 => v3' \subseteq {Stream!Picture(v13.tab, v13.vp)}
        BY <1>4, <2>1 DEF Stream!LoopStarts, Stream!Started
    <2>3. v13.client # v1 => v3' = {}
        BY <1>4, <2>1 DEF Stream!LoopStarts
    <2>4. /\ v13'.at = "cast" /\ v13'.client = v13.client /\ v13'.tab = v13.tab
          /\ v13'.vp = v13.vp /\ v5 # "off"
        BY <1>4, <2>1 DEF Stream!LoopStarts, CastInv
    <2>. QED  BY <1>1, <2>1, <2>2, <2>3, <2>4 DEF CastInv
<1>5. CASE Stream!LoopNotified
    <2>1. CASE v3' = v3 /\ v13' = v13
        BY <1>1, <2>1 DEF CastInv
    <2>2. CASE v13' = [at |-> "wait"] /\ v3' = IF v13.client = v1 THEN Stream!Stopped(v13.tab) ELSE v3
        <3>1. v13.at = "cast" /\ v13'.at = "wait"
            BY <1>5, <2>2 DEF Stream!LoopNotified
        <3>2. v3' = {}
            BY <2>2, <3>1 DEF CastInv, Stream!Stopped, Stream!Picture
        <3>3. v5 # "off"
            BY <3>1 DEF CastInv
        <3>. QED  BY <1>1, <3>1, <3>2, <3>3 DEF CastInv
    <2>. QED  BY <1>5, <2>1, <2>2 DEF Stream!LoopNotified, Stream!Waiting
<1>. QED  BY <1>2, <1>3, <1>4, <1>5

LEMMA CastKeeps == CastInv /\ [Stream!Next]_(Stream!vars) => CastInv'
<1>. SUFFICES ASSUME CastInv, [Stream!Next]_(Stream!vars) PROVE CastInv'
    OBVIOUS
<1>1. CASE UNCHANGED Stream!vars
    BY <1>1 DEF Stream!vars, CastInv
<1>2. CASE Stream!Next
    <2>1. ~ Stream!StreamDisable /\ ~ Stream!RecordingStart /\ ~ Stream!ScreencastStart
          /\ ~ Stream!ScreencastStop /\ ~ Stream!LoopEnds
        BY DEF Stream!StreamDisable, Stream!RecordingStart, Stream!ScreencastStart,
            Stream!ScreencastStop, Stream!LoopEnds, CastInv
    <2>. QED  BY <1>2, <2>1, CastCommands, CastLoop DEF Stream!Next
<1>. QED  BY <1>1, <1>2

LEMMA CastsOne == CastInv => Stream!OneCast
BY DEF CastInv, Stream!OneCast

\* Everything that can be switched on: the slot is the browser's from the command on
\* that changes it, and the tab when the server has been told.
Loops == [at : {"wait", "gone"}] \cup [at : {"start"}, client : Nat \ {0}]
         \cup [at : {"send", "cast"}, client : Nat \ {0}, tab : StreamTabs \cup {None}, vp : {0, 1}]
ServerInv ==
    /\ Shared!TypeOK
    /\ v13 \in Loops /\ v8 \in {0, 1} /\ v14 \in Nat /\ v12 \in BOOLEAN
    /\ v5 # "off" => v6 = v1
    /\ v5 # "on" => ~ v12
    /\ v5 # "off" /\ ~ v12 => (v7 = None) = (v1 = 0)

LEMMA ServerStart == Shared!Init => ServerInv
<1>. SUFFICES ASSUME Shared!Init PROVE ServerInv
    OBVIOUS
<1>1. /\ v1 = 0 /\ v2 \in StreamTabs /\ v3 = {} /\ v4 = FALSE /\ v5 = "off" /\ v6 = 0
      /\ v7 = None /\ v8 = 0 /\ v9 = 0 /\ v12 = FALSE /\ v13 = [at |-> "gone"] /\ v14 = 0
      /\ Shared!FreshServer
    BY DEF Shared!Init, Shared!FreshServer
<1>2. Shared!TypeOK
    BY <1>1, StreamAssumption DEF Shared!TypeOK
<1>3. v13 \in Loops
    BY <1>1 DEF Loops
<1>. QED  BY <1>1, <1>2, <1>3 DEF ServerInv

LEMMA ServerCommands ==
    ASSUME ServerInv,
           \/ Shared!StreamEnable \/ Shared!StreamDisable \/ Shared!Launch \/ Shared!Close
           \/ Shared!TabSwitch \/ Shared!RecordingStart \/ Shared!Sync \/ Shared!SetViewport
           \/ Shared!ScreencastStart \/ Shared!ScreencastStop
    PROVE  ServerInv'
<1>1. /\ v1 \in Nat /\ v14 \in Nat /\ v5 \in {"on", "off"}
      /\ v5 = "off" => v13.at = "gone" /\ Shared!FreshServer
      /\ v5 = "on" => v13.at # "gone"
      /\ v14' \in Nat /\ v9' = v9 /\ v8' \in {0, 1}
    <2>1. CASE Shared!Sync
        BY <2>1 DEF Shared!Sync, ServerInv, Shared!TypeOK
    <2>2. CASE ~ Shared!Sync
        <3>1. Shared!Command
            BY <2>2 DEF Shared!StreamEnable, Shared!StreamDisable, Shared!Launch, Shared!Close,
                Shared!TabSwitch, Shared!RecordingStart, Shared!SetViewport, Shared!ScreencastStart,
                Shared!ScreencastStop
        <3>2. v14' \in Nat /\ v5 # "stopping"
            BY <3>1 DEF Shared!Command, ServerInv
        <3>3. v9' = v9 /\ (v8' = v8 \/ v8' = 1 - v8)
            BY <2>2 DEF Shared!StreamEnable, Shared!StreamDisable, Shared!Launch, Shared!Close,
                Shared!TabSwitch, Shared!RecordingStart, Shared!SetViewport, Shared!ScreencastStart,
                Shared!ScreencastStop
        <3>. QED  BY <3>2, <3>3 DEF ServerInv, Shared!TypeOK
    <2>. QED  BY <2>1, <2>2
<1>2. CASE Shared!StreamEnable
    BY <1>1, <1>2 DEF Shared!StreamEnable, Shared!Waiting, ServerInv, Shared!TypeOK,
        Shared!FreshServer, Loops
<1>3. CASE Shared!StreamDisable
    BY <1>1, <1>3 DEF Shared!StreamDisable, Shared!Command, ServerInv, Shared!TypeOK,
        Shared!FreshServer
<1>4. CASE Shared!RecordingStart
    BY <1>1, <1>4 DEF Shared!RecordingStart, ServerInv, Shared!TypeOK, Shared!FreshServer
<1>5. CASE Shared!TabSwitch
    <2>1. v12' = (v5 = "on") /\ v12' \in BOOLEAN /\ v2' \in StreamTabs
        BY <1>5 DEF Shared!TabSwitch
    <2>2. UNCHANGED <<v1, v3, v4, v5, v6, v7, v8, v9, v10, v11, v13>>
        BY <1>5 DEF Shared!TabSwitch
    <2>. QED  BY <1>1, <2>1, <2>2 DEF ServerInv, Shared!TypeOK, Shared!FreshServer
<1>6. CASE Shared!Launch
    <2>1. /\ v1 = 0 /\ v1' \in Nat /\ v1' # 0 /\ v6' = IF v5 = "on" THEN v1' ELSE v6
          /\ v12' = (v5 = "on") /\ v12' \in BOOLEAN
        BY <1>1, <1>6 DEF Shared!Launch, Shared!Command
    <2>2. UNCHANGED <<v2, v3, v4, v5, v7, v8, v9, v10, v11, v13>>
        BY <1>6 DEF Shared!Launch
    <2>. QED  BY <1>1, <2>1, <2>2 DEF ServerInv, Shared!TypeOK, Shared!FreshServer
<1>7. CASE Shared!Close
    <2>1. /\ v1' = 0 /\ v3' = {} /\ v4' = FALSE /\ v6' = IF v5 = "on" THEN 0 ELSE v6
          /\ v12' = (v5 = "on") /\ v12' \in BOOLEAN
        BY <1>7 DEF Shared!Close
    <2>2. UNCHANGED <<v2, v5, v7, v8, v9, v10, v11, v13>>
        BY <1>7 DEF Shared!Close
    <2>. QED  BY <1>1, <2>1, <2>2 DEF ServerInv, Shared!TypeOK, Shared!FreshServer
<1>8. CASE Shared!Sync
    BY <1>1, <1>8, StreamAssumption DEF Shared!Sync, ServerInv, Shared!TypeOK, Shared!FreshServer
<1>9. CASE Shared!SetViewport
    BY <1>1, <1>9 DEF Shared!SetViewport, ServerInv, Shared!TypeOK, Shared!FreshServer
<1>10. CASE Shared!ScreencastStart \/ Shared!ScreencastStop
    <2>1. v2 \in StreamTabs /\ v8 \in {0, 1} /\ v3 \subseteq [tab : StreamTabs, vp : {0, 1}]
        BY DEF ServerInv, Shared!TypeOK
    <2>2. v3' = Shared!Started(v2, v8) \/ v3' = Shared!Stopped(v2)
        BY <1>10 DEF Shared!ScreencastStart, Shared!ScreencastStop
    <2>3. v3' \subseteq [tab : StreamTabs, vp : {0, 1}]
        BY <2>1, <2>2 DEF Shared!Started, Shared!Stopped, Shared!Picture
    <2>4. /\ v1 # 0 /\ (v5 = "off" => v11' = v11)
          /\ UNCHANGED <<v1, v2, v5, v6, v7, v8, v9, v10, v12, v13>>
        BY <1>10 DEF Shared!ScreencastStart, Shared!ScreencastStop
    <2>. QED  BY <1>1, <2>3, <2>4 DEF ServerInv, Shared!TypeOK, Shared!FreshServer
<1>. QED  BY <1>2, <1>3, <1>4, <1>5, <1>6, <1>7, <1>8, <1>9, <1>10

LEMMA ServerViewers ==
    ASSUME ServerInv, Shared!Connect \/ Shared!Disconnect
    PROVE  ServerInv'
<1>1. v9' \in 0 .. Viewers
    BY StreamAssumption DEF Shared!Connect, Shared!Disconnect, ServerInv, Shared!TypeOK
<1>. QED  BY <1>1 DEF Shared!Connect, Shared!Disconnect, ServerInv, Shared!TypeOK, Shared!FreshServer

LEMMA ServerLoop ==
    ASSUME ServerInv, Shared!Loop
    PROVE  ServerInv'
<1>1. /\ v1' = v1 /\ v2' = v2 /\ v4' = v4 /\ v12' = v12 /\ v14' = v14
    BY DEF Shared!Loop, Shared!LoopWakes, Shared!LoopReads, Shared!LoopStarts, Shared!LoopNotified,
        Shared!LoopEnds
<1>2. v3' \subseteq [tab : StreamTabs, vp : {0, 1}] /\ (v1 = 0 => v3' = {})
    BY DEF Shared!Loop, Shared!LoopWakes, Shared!LoopReads, Shared!LoopStarts, Shared!LoopNotified,
        Shared!LoopEnds, Shared!Started, Shared!Stopped, Shared!Picture, ServerInv, Shared!TypeOK, Loops
<1>3. CASE Shared!LoopEnds
    BY <1>1, <1>2, <1>3, StreamAssumption DEF Shared!LoopEnds, ServerInv, Shared!TypeOK,
        Shared!FreshServer, Loops
<1>4. CASE ~ Shared!LoopEnds
    <2>1. v5' = v5 /\ v6' = v6 /\ v7' = v7 /\ v8' = v8 /\ v9' = v9
        BY <1>4 DEF Shared!Loop, Shared!LoopWakes, Shared!LoopReads, Shared!LoopStarts,
            Shared!LoopNotified
    <2>2. v13' \in Loops /\ v13.at # "gone" /\ v13'.at # "gone"
        BY <1>4 DEF Shared!Loop, Shared!LoopWakes, Shared!LoopReads, Shared!LoopStarts,
            Shared!LoopNotified, Shared!Waiting, ServerInv, Shared!TypeOK, Loops
    <2>3. v13'.at \in {"wait", "start", "send", "cast", "gone"}
          /\ (v13'.at \in {"send", "cast"} => v13'.client > 0)
        BY <2>2 DEF Loops
    <2>. QED  BY <1>1, <1>2, <2>1, <2>2, <2>3 DEF ServerInv, Shared!TypeOK, Shared!FreshServer
<1>. QED  BY <1>3, <1>4

LEMMA ServerKeeps == ServerInv /\ [Shared!Next]_(Shared!vars) => ServerInv'
<1>. SUFFICES ASSUME ServerInv, [Shared!Next]_(Shared!vars) PROVE ServerInv'
    OBVIOUS
<1>1. CASE UNCHANGED Shared!vars
    BY <1>1 DEF Shared!vars, ServerInv, Shared!TypeOK, Shared!FreshServer
<1>2. CASE Shared!Next
    BY <1>2, ServerCommands, ServerViewers, ServerLoop DEF Shared!Next, Shared!Loop
<1>. QED  BY <1>1, <1>2

\* A behaviour is of one part, and its steps are those of that part's component.
LEMMA MediaParts ==
    ASSUME [SuiteNext]_all
    PROVE  /\ part' = part
           /\ part = "stream" => [Stream!Next]_(Stream!vars)
           /\ part = "shared" => [Shared!Next]_(Shared!vars)
<1>1. CASE UNCHANGED all
    BY <1>1 DEF all, shared, Stream!vars, Shared!vars
<1>2. CASE SuiteNext
    BY <1>2 DEF SuiteNext, DownloadStep, DownloadOnly, RecordStep, RecordOnly, StreamStep, StreamOnly,
        SharedStep, SharedOnly, TraceStep, TraceOnly, ChatStep, ChatOnly, CompactStep, CompactOnly
<1>. QED  BY <1>1, <1>2

\* stream/cdp_loop.rs and actions.rs: for any tabs and viewers, one tab is cast at a
\* time, whenever the loop is woken; and between commands the server works on the
\* daemon's browser, and on none when there is none, also when it is switched off and
\* on again and when commands cast on their own.
THEOREM StreamFollowsTheBrowser ==
    SuiteSpec => /\ [](part = "stream" => Stream!OneCast)
                 /\ [](part = "shared" => Shared!TypeOK /\ Shared!ServerKnowsTheBrowser)
<1>. DEFINE I == part = "stream" => CastInv
            J == part = "shared" => ServerInv
            K == part = "stream" => Stream!OneCast
            L == part = "shared" => Shared!TypeOK /\ Shared!ServerKnowsTheBrowser
<1>1. SuiteInit => I /\ J
    BY CastStart, ServerStart DEF SuiteInit
<1>2. I /\ J /\ [SuiteNext]_all => I' /\ J'
    BY MediaParts, CastKeeps, ServerKeeps
<1>3. I => K
    BY CastsOne
<1>4. J => L
    BY DEF ServerInv, Shared!ServerKnowsTheBrowser
<1>5. SuiteSpec => []K /\ []L
    BY <1>1, <1>2, <1>3, <1>4, PTL DEF SuiteSpec
<1>. QED  BY <1>5

=============================================================================

------------------------------ MODULE Downloads ------------------------------
(***************************************************************************)
(* download and wait --download: a command clicks, or not, then listens to *)
(* the download events of the browser until one says completed.  Other     *)
(* downloads may be under way: another tab's, the page's own, or that of a *)
(* download command that gave up.  The browser's side is external.         *)
(***************************************************************************)
EXTENDS Integers, Sequences

CONSTANTS
    Files,        \* the downloads, by their GUIDs
    NoFile,
    Tabs, Active, \* the sessions; commands act on Active
    Domain,       \* the domain Chrome reports downloads in: "Browser" or "Page"
    Patience,     \* the deadline, in ticks (30 s; the timeout of the command)
    Looks,        \* how often the file is looked for (10)
    MaxQueue      \* the bound on unread events

VARIABLES
    tab,     \* the tab each download belongs to
    dl,      \* "none", "asked", "going", "completed", "canceled"
    set,     \* setDownloadBehavior has named the directory and enabled events
    named,   \* downloads begun since: their files go there, under their GUIDs
    saved,   \* downloads whose files have been written out
    dest,    \* the file at the requested path: NoFile, "old" or a download
    cmd,     \* the command: where it is and what it holds
    rx,      \* the events it has not read
    mine,    \* the download its click asked for
    mixed,   \* an event of another download reached it
    result   \* how the last command ended, and what was so at that moment

browser == <<tab, dl, named, saved>>
vars == <<browser, set, dest, cmd, rx, mine, mixed, result>>

Idle == [at |-> "idle", op |-> "none", guid |-> NoFile, left |-> 0, looks |-> 0]

TypeOK ==
    /\ tab \in [Files -> Tabs]
    /\ dl \in [Files -> {"none", "asked", "going", "completed", "canceled"}]
    /\ set \in BOOLEAN /\ named \subseteq Files /\ saved \subseteq Files
    /\ dest \in Files \cup {NoFile, "old"}
    /\ cmd \in [at : {"idle", "click", "wait", "look"}, op : {"none", "download", "wait"},
                guid : Files \cup {NoFile}, left : 0..Patience, looks : 0..Looks]
    /\ Len(rx) <= MaxQueue /\ mine \in Files \cup {NoFile} /\ mixed \in BOOLEAN
    /\ result.kind \in {"none", "ok", "timeout", "canceled", "missing", "error"}

Init ==
    /\ tab \in [Files -> Tabs] /\ dl = [f \in Files |-> "none"]
    /\ set = FALSE /\ named = {} /\ saved = {} /\ dest \in {NoFile, "old"}
    /\ cmd = Idle /\ rx = <<>> /\ mine = NoFile /\ mixed = FALSE
    /\ result = [kind |-> "none", op |-> "none", file |-> NoFile, of |-> NoFile,
                 state |-> "none", there |-> FALSE, mixed |-> FALSE, unread |-> {}]

-----------------------------------------------------------------------------
(* The browser.                                                            *)

\* The mutant subscribes when the click has returned.
SubscribedLate == cmd.at = "wait"
\* rx exists from before the click until the wait is over.
Subscribed == cmd.at \in {"click", "wait"}

\* An event of download f for whoever has subscribed
Emit(f, kind) ==
    IF Subscribed /\ (Domain = "Browser" => set)
    THEN /\ Len(rx) < MaxQueue
         /\ rx' = Append(rx, [domain |-> Domain, tab |-> tab[f], kind |-> kind, guid |-> f])
         /\ mixed' = (mixed \/ (f # mine /\ (Domain = "Browser" \/ tab[f] = Active)))
    ELSE UNCHANGED <<rx, mixed>>

Moves(f, from, to) == dl[f] = from /\ dl' = [dl EXCEPT ![f] = to]

\* A page starts a download that no command asked for.
PageAsks(f) ==
    /\ Moves(f, "none", "asked")
    /\ UNCHANGED <<tab, set, named, saved, dest, cmd, rx, mine, mixed, result>>

Begins(f) ==
    /\ Moves(f, "asked", "going") /\ Emit(f, "willBegin")
    /\ named' = IF set THEN named \cup {f} ELSE named
    /\ UNCHANGED <<tab, set, saved, dest, cmd, mine, result>>

Progresses(f) ==
    /\ dl[f] = "going" /\ Subscribed /\ Emit(f, "inProgress")
    /\ UNCHANGED <<browser, set, dest, cmd, mine, result>>

Ends(f, how) ==
    /\ how \in {"completed", "canceled"} /\ Moves(f, "going", how) /\ Emit(f, how)
    /\ UNCHANGED <<tab, set, named, saved, dest, cmd, mine, result>>

\* The file is written out some time after completion was signalled.
Written(f) ==
    /\ dl[f] = "completed" /\ f \notin saved /\ saved' = saved \cup {f}
    /\ UNCHANGED <<tab, dl, set, named, dest, cmd, rx, mine, mixed, result>>

-----------------------------------------------------------------------------
(* The commands.                                                           *)

\* A command returns; the rest of the record is for the properties.
Return(kind, file) ==
    /\ cmd' = Idle /\ rx' = <<>> /\ dest' = file
    /\ result' = [kind |-> kind, op |-> cmd.op, file |-> file, of |-> mine,
                  state |-> IF mine = NoFile THEN "none" ELSE dl[mine],
                  there |-> mine \in saved, mixed |-> mixed,
                  unread |-> {rx[i].kind : i \in {j \in 1..Len(rx) : rx[j].guid = mine}}]

Begin(op, at, left) ==
    /\ cmd.at = "idle" /\ cmd' = [Idle EXCEPT !.at = at, !.op = op, !.left = left]
    /\ rx' = <<>> /\ mine' = NoFile /\ mixed' = FALSE
    /\ UNCHANGED <<browser, dest, result>>

\* Files are named by their GUIDs and events enabled, from now on.
set_download_behavior == set' = TRUE

\* handle_download up to the click: the directory, the behaviour, the subscription
Download == Begin("download", "click", 0) /\ set_download_behavior
\* The directory cannot be made, or the browser refuses.
DownloadFails ==
    /\ cmd.at = "idle"
    /\ result' = [kind |-> "error", op |-> "download", file |-> dest, of |-> NoFile,
                  state |-> "none", there |-> FALSE, mixed |-> FALSE, unread |-> {}]
    /\ UNCHANGED <<browser, set, dest, cmd, rx, mine, mixed>>

\* The page sees the click before the click returns.
Clicked(f) ==
    /\ cmd.at = "click" /\ mine = NoFile /\ tab[f] = Active
    /\ Moves(f, "none", "asked") /\ mine' = f
    /\ UNCHANGED <<tab, set, named, saved, dest, cmd, rx, mixed, result>>

\* The click returns, whether or not it made the page download anything.
ClickReturns ==
    /\ cmd.at = "click" /\ cmd' = [cmd EXCEPT !.at = "wait", !.left = Patience]
    /\ UNCHANGED <<browser, set, dest, rx, mine, mixed, result>>
ClickFails ==
    /\ cmd.at = "click" /\ Return("error", dest) /\ UNCHANGED <<browser, set, mine, mixed>>

\* handle_waitfordownload
WaitForDownload == Begin("wait", "wait", Patience) /\ UNCHANGED set

\* Events of the Browser domain count whatever their session.
IsDownloadEvent(e) == e.domain = "Browser" \/ e.tab = Active

\* An event that does not end the wait; of the GUIDs announced the last is kept.
Reads ==
    /\ cmd.at = "wait" /\ rx # <<>>
    /\ LET e == Head(rx)
       IN  /\ ~(IsDownloadEvent(e) /\ e.kind = "completed")
           /\ ~(IsDownloadEvent(e) /\ e.kind = "canceled" /\ cmd.op = "download")
           /\ cmd' = [cmd EXCEPT !.guid =
                  IF cmd.op = "download" /\ IsDownloadEvent(e) /\ e.kind = "willBegin"
                  THEN e.guid ELSE @]
    /\ rx' = Tail(rx)
    /\ UNCHANGED <<browser, set, dest, mine, mixed, result>>

\* download goes on to the file; wait --download answers with the path it was given.
ReadsCompleted ==
    /\ cmd.at = "wait" /\ rx # <<>>
    /\ IsDownloadEvent(Head(rx)) /\ Head(rx).kind = "completed"
    /\ \/ /\ cmd.op = "download" /\ cmd' = [cmd EXCEPT !.at = "look"] /\ rx' = <<>>
          /\ UNCHANGED <<dest, result>>
       \/ cmd.op = "wait" /\ Return("ok", dest)
    /\ UNCHANGED <<browser, set, mine, mixed>>

\* wait --download does not look for cancellations.
ReadsCanceled ==
    /\ cmd.at = "wait" /\ rx # <<>> /\ cmd.op = "download"
    /\ IsDownloadEvent(Head(rx)) /\ Head(rx).kind = "canceled"
    /\ Return("canceled", dest) /\ UNCHANGED <<browser, set, mine, mixed>>

\* Time passes; the deadline is looked at before each recv.
Tick ==
    /\ cmd.at = "wait" /\ cmd.left > 0
    /\ cmd' = [cmd EXCEPT !.left = @ - 1]
    /\ UNCHANGED <<browser, set, dest, rx, mine, mixed, result>>
TimesOut ==
    /\ cmd.at = "wait" /\ cmd.left = 0
    /\ Return("timeout", dest) /\ UNCHANGED <<browser, set, mine, mixed>>

\* guid_path.exists()
Exists(guid) == guid \in saved \cap named

\* The file of the last GUID announced is moved to the requested path.
Renames ==
    /\ cmd.at = "look" /\ Exists(cmd.guid)
    /\ \/ Return("ok", cmd.guid) /\ named' = named \ {cmd.guid}
       \/ Return("error", dest) /\ UNCHANGED named
    /\ UNCHANGED <<tab, dl, saved, set, mine, mixed>>

LooksAgain ==
    /\ cmd.at = "look" /\ cmd.guid # NoFile /\ ~Exists(cmd.guid) /\ cmd.looks < Looks
    /\ cmd' = [cmd EXCEPT !.looks = @ + 1]
    /\ UNCHANGED <<browser, set, dest, rx, mine, mixed, result>>

\* No GUID, or no file of that name: what lies at the path is taken for the download.
GivesUp ==
    /\ cmd.at = "look" /\ ~Exists(cmd.guid) /\ (cmd.guid = NoFile \/ cmd.looks = Looks)
    /\ Return(IF dest = NoFile THEN "missing" ELSE "ok", dest)
    /\ UNCHANGED <<browser, set, mine, mixed>>

Command ==
    \/ ClickReturns \/ Reads \/ ReadsCompleted \/ ReadsCanceled \/ TimesOut
    \/ Renames \/ LooksAgain \/ GivesUp

Next ==
    \/ Download \/ DownloadFails \/ WaitForDownload \/ ClickFails \/ Command \/ Tick
    \/ \E f \in Files : PageAsks(f) \/ Begins(f) \/ Progresses(f) \/ Written(f) \/ Clicked(f)
    \/ \E f \in Files, how \in {"completed", "canceled"} : Ends(f, how)

\* The command goes on whenever it can and time passes; the browser need not
\* do anything, and may report progress for ever.
Spec == Init /\ [][Next]_vars /\ WF_vars(Command) /\ WF_vars(Tick) /\ WF_vars(TimesOut)

-----------------------------------------------------------------------------
(* Properties.                                                             *)

\* handle_download says ok only when the file at the path is the one its click
\* asked for, as long as no other download is heard of and the file has been
\* written by the time it is given up.
OkMeansOurs ==
    result.op = "download" /\ result.kind = "ok" /\ ~result.mixed /\ result.there
        => result.file = result.of

\* The file handle_download reports was never downloaded by another tab.
FileOfThisTab ==
    result.op = "download" /\ result.kind = "ok" /\ result.file \in Files
        => tab[result.file] = Active

\* ok is never said of a path where there is nothing.
OkMeansFile == result.op = "download" /\ result.kind = "ok" => result.file # NoFile

\* A download that ended, however soon after the click, makes handle_download
\* time out only when the time ran out before its event was read.
NotMissed ==
    result.op = "download" /\ result.kind = "timeout"
        /\ result.state \in {"completed", "canceled"}
        => result.state \in result.unread

\* Every command returns.
Returns == cmd.at # "idle" ~> cmd.at = "idle"

=============================================================================

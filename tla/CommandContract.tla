--------------------------- MODULE CommandContract ---------------------------
(***************************************************************************)
(* A command line of agent-browser on its way: parsed, perhaps answered by  *)
(* the client itself, sent to the daemon alone or inside a batch, checked   *)
(* for its fields, and run.  Of a handler's work on the browser the model   *)
(* keeps, in the order of the code, the steps that decide which page the    *)
(* references and the selected frame of the daemon belong to.               *)
(***************************************************************************)
EXTENDS CommandTable, SequencesExt

VARIABLES
    browser,   \* the daemon has a browser
    refs,      \* "none", or the element references are of the page "here" or of one that is "gone"
    frame,     \* the selected frame: "main", or one of the page "here" or "gone"
    left,      \* who left the page that references or the frame are still of
    files,     \* the saved states
    answer     \* the last command and what became of it

vars == <<browser, refs, frame, left, files, answer>>

SavedStates == {"mine", "other"}
Outcomes == {"ok", "failed", "missing", "unknown", "no browser"}
NoAnswer == [line |-> "none", via |-> "main", fields |-> {}, outcome |-> "ok"]

TypeOK ==
    /\ browser \in BOOLEAN
    /\ refs \in {"none", "here", "gone"}
    /\ frame \in {"main", "here", "gone"}
    /\ left \in {"none"} \cup HandledActions
    /\ files \subseteq SavedStates
    /\ answer.outcome \in Outcomes

-----------------------------------------------------------------------------
(* What a handler does to the page and to what the daemon knows of it.     *)

\* The steps in the order of the code.  "leave": the active page becomes
\* another one; "forget": ref_map.clear(); "fill": a snapshot fills ref_map;
\* "unframe" and "enter": active_frame_id.
\* The mutant clears the references of navigate after it.
EffectLate(action, fields) ==
    CASE action = "navigate" -> <<"leave", "forget", "unframe">>
      [] action = "snapshot" -> <<"forget", "fill">>
      [] OTHER -> <<>>
Effect(action, fields) ==
    CASE action \in {"navigate", "tab_new", "tab_switch", "tab_close"} -> <<"forget", "unframe", "leave">>
      [] action \in {"back", "forward", "reload", "window_new"} -> <<"leave", "forget">>
      [] action = "vitals" -> IF "url" \in fields THEN <<"leave">> ELSE <<"leave", "forget">>
      [] action \in {"auth_login", "state_load", "setcontent", "recording_start"} -> <<"leave">>
      [] action = "diff_url" -> <<"leave", "fill", "leave", "forget", "fill">>
      [] action = "snapshot" -> <<"forget", "fill">>
      [] action = "screenshot" /\ "annotate" \in fields -> <<"forget", "fill">>
      [] action = "diff_snapshot" -> <<"fill">>
      [] action = "click" /\ "newTab" \in fields -> <<"forget", "leave">>
      [] action \in {"launch", "close"} -> <<"leave", "forget">>
      [] action = "frame" -> <<"enter">>
      [] action = "mainframe" -> <<"unframe">>
      [] OTHER -> <<>>

\* A step on [refs, frame, left].  A snapshot on top of older references
\* leaves those that it does not name again.
Step(action, s, step) ==
    CASE step = "leave" -> [refs  |-> IF s.refs = "none" THEN "none" ELSE "gone",
                            frame |-> IF s.frame = "main" THEN "main" ELSE "gone",
                            left  |-> action]
      [] step = "forget" -> [s EXCEPT !.refs = "none"]
      [] step = "fill" -> [s EXCEPT !.refs = IF s.refs = "gone" THEN "gone" ELSE "here"]
      [] step = "unframe" -> [s EXCEPT !.frame = "main"]
      [] step = "enter" -> [s EXCEPT !.frame = "here"]

\* The handlers that ask for nothing that can fail between two of these steps.
Uninterrupted == {"back", "forward", "reload", "window_new", "close"}

\* How many of the steps are taken: all of them, or fewer when a call fails.
\* launch takes none when it finds its browser in place, and fails after all.
Taken(action, steps, ok) ==
    CASE steps = <<>> -> {0}
      [] action = "launch" -> {0, Len(steps)}
      [] ok -> {Len(steps)}
      [] action \in Uninterrupted -> {0}
      [] OTHER -> 0 .. Len(steps) - 1

-----------------------------------------------------------------------------
Init ==
    /\ browser = FALSE
    /\ refs = "none" /\ frame = "main" /\ left = "none"
    /\ files = SavedStates
    /\ answer = NoAnswer

Answer(c, via, fields, outcome) ==
    answer' = [line |-> c.line, via |-> via, fields |-> fields, outcome |-> outcome]

\* The command as the client sends it: main reads the password from standard
\* input into the field password; run_batch does not.
Sent(via, fields) ==
    IF via = "main" /\ "passwordStdin" \in fields
    THEN (fields \ {"passwordStdin"}) \cup {"password"}
    ELSE fields

HasHandler(action) == action \in HandledActions

\* dispatch_state_command: state_clear with a path deletes that file, without
\* one every file; state_clean deletes what is old.
StateFileStep(c, via, fields) ==
    \E ok \in BOOLEAN :
      LET missing == ~(HandlerOf[c.action].needs \subseteq fields)
      IN  /\ Answer(c, via, fields, IF missing THEN "missing" ELSE IF ok THEN "ok" ELSE "failed")
          /\ files' \in IF missing \/ ~ok THEN {files}
                        ELSE CASE c.action = "state_clear" -> {{}}
                               [] c.action = "state_clean" -> SUBSET files
                               [] OTHER -> {files}
          /\ UNCHANGED <<browser, refs, frame, left>>

NeedsLaunch(action) == ~browser /\ action \notin SkipLaunch

\* execute_command: the launch may fail, and then nothing runs.
LaunchFails(c, via, fields) ==
    /\ NeedsLaunch(c.action)
    /\ Answer(c, via, fields, "failed")
    /\ UNCHANGED <<browser, refs, frame, left, files>>

\* The dispatch: no arm, a missing field or browser, or the handler's steps.
Dispatch(c, via, fields) ==
    LET known   == HasHandler(c.action)
        missing == known /\ ~(HandlerOf[c.action].needs \subseteq fields)
        up      == browser \/ NeedsLaunch(c.action)
        idle    == known /\ ~missing /\ ~up /\ c.action \notin NoBrowserNeeded
        outcome == CASE ~known -> {"unknown"} [] missing -> {"missing"}
                     [] idle -> {"no browser"} [] OTHER -> {"ok", "failed"}
    IN  \E o \in outcome :
          /\ Answer(c, via, fields, o)
          /\ browser' \in CASE c.action = "close" /\ o = "ok" -> {FALSE}
                            [] c.action = "launch" -> IF o = "ok" THEN {TRUE} ELSE {FALSE, browser}
                            [] OTHER -> {up}
          /\ LET steps == IF o \in {"ok", "failed"} THEN Effect(c.action, fields) ELSE <<>>
             IN  \E n \in Taken(c.action, steps, o # "failed") :
                   LET page == FoldLeft(LAMBDA s, st : Step(c.action, s, st),
                                        [refs |-> refs, frame |-> frame, left |-> left],
                                        SubSeq(steps, 1, n))
                   IN  /\ refs' = page.refs /\ frame' = page.frame
                       /\ left' = IF page.refs # "gone" /\ page.frame # "gone" THEN "none" ELSE page.left
          /\ UNCHANGED files

\* main answers for state files without a daemon; in a batch the daemon does,
\* with the same function.
OnStateFiles(action) == action \in {h.action : h \in StateFileHandlers}
\* main runs a batch itself.
KeptByMain(action, via) == via = "main" /\ action = "batch"

\* A line given to main, or as an element of a batch.  run_batch
\* sends every element to the daemon.
Run(c, via) ==
    \E options \in SUBSET c.may :
      LET fields == Sent(via, c.gives \cup options) IN
       CASE OnStateFiles(c.action) -> StateFileStep(c, via, fields)
         [] KeptByMain(c.action, via) ->
              Answer(c, via, fields, "ok") /\ UNCHANGED <<browser, refs, frame, left, files>>
         [] OTHER -> LaunchFails(c, via, fields) \/ Dispatch(c, via, fields)

\* One line at a time.
Ask == answer = NoAnswer /\ \E c \in Commands, via \in {"main", "batch"} : Run(c, via)

\* The user reads the answer, and may save a state again.
Read ==
    /\ answer # NoAnswer
    /\ answer' = NoAnswer
    /\ files' \in {files, SavedStates}
    /\ UNCHANGED <<browser, refs, frame, left>>

Next == Read \/ Ask

Spec == Init /\ [][Next]_vars

-----------------------------------------------------------------------------
(* Properties.                                                             *)

\* Whatever line the parser accepts, alone or in a batch, there is an arm of
\* execute_command's match for the action it becomes; only a batch inside a
\* batch has none.
EveryLineIsHandled ==
    answer.outcome = "unknown" => answer.line = "batch" /\ answer.via = "batch"

\* The fields the parser sets, with whatever options, are the fields the
\* handler cannot do without: a line that was accepted is never refused for a
\* missing parameter.  Two lines are: state rename, always, and auth save
\* --password-stdin in a batch, where nobody reads the password.
NothingIsMissing ==
    answer.outcome = "missing" =>
        \/ answer.line = "state rename"
        \/ answer.line = "auth save --password-stdin" /\ answer.via = "batch"

\* No handler that works on the page runs before there is a browser: what
\* execute_command launches nothing for does without.
BrowserWhenNeeded == answer.outcome # "no browser"

\* References to a page that was left, and a selected frame of it, come from
\* the commands listed here and from no other, whichever call of a handler
\* fails: the others forget first, or cannot fail in between.
StaleHasKnownCause ==
    /\ refs = "gone" => left \in {"vitals", "auth_login", "state_load", "recording_start", "diff_url"}
    /\ frame = "gone" => left \notin {"navigate", "tab_new", "tab_switch", "tab_close"}

=============================================================================

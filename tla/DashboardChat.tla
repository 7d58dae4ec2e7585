----------------------------- MODULE DashboardChat -----------------------------
(***************************************************************************)
(* The dashboard's chat request: the messages the front end keeps are      *)
(* turned into a conversation, a large one is compacted and the front end  *)
(* is told how many of its own messages to keep, and then the answer is    *)
(* streamed to it as events while the gateway's answer is still arriving.  *)
(***************************************************************************)
EXTENDS Naturals, Sequences, SequencesExt, FiniteSets, FiniteSetsExt

CONSTANTS
    MaxFront,     \* bound on the front end's messages
    KeepRecent,   \* KEEP_RECENT_MESSAGES
    MaxSteps,     \* requests of one chat request (50 in the code)
    MaxDeltas     \* bound on the pieces of one answer

VARIABLES
    front,    \* the front end's messages: role, and how much of it converts
    kept,     \* what the front end is told to keep, more than it has when nothing is said
    recent,   \* what is kept of the conversation when it is compacted
    phase,    \* "parse", "summary", "step", "asked", "stream", "tools", "end", "gone"
    out,      \* events written
    text,     \* text_started
    part,     \* number of the text part
    calls,    \* tool_call_args of this answer: the indices seen
    todo, step, deltas,
    reads     \* the front end takes what is written

vars == <<front, kept, recent, phase, out, text, part, calls, todo, step, deltas, reads>>

\* A message has a role; "empty" ones (only tool parts, no text) convert to
\* nothing.
Roles == {"user", "assistant"}
FrontMessage == [role : Roles, empty : BOOLEAN]

Init ==
    /\ front \in SeqOf(FrontMessage, MaxFront) /\ kept = MaxFront + 1 /\ recent = <<>>
    /\ phase = "parse" /\ out = <<>> /\ text = FALSE /\ part = 0
    /\ calls = {} /\ todo = <<>> /\ step = 0 /\ deltas = 0
    /\ reads = TRUE

-----------------------------------------------------------------------------
(* Compaction.                                                             *)

\* openai_messages after the system prompt: the places of the messages that
\* convert to something; frontend_boundaries counts those before each.
Converted(f) == SelectSeq([i \in DOMAIN f |-> i], LAMBDA i : ~ f[i].empty)
Boundary(f, i) == 1 + Cardinality({j \in 1 .. i - 1 : ~ f[j].empty})

\* find_safe_split on the conversation (whose first message is the system's)
Split(f) ==
    LET conv == Converted(f)
        desired == Len(conv) + 1 - KeepRecent
        users == {i \in 1 .. desired : f[conv[i]].role = "user"}
    IN  IF users # {} THEN Max(users) ELSE desired

KeptFront(f) == Cardinality({i \in DOMAIN f : Boundary(f, i) >= Split(f)})

\* A write ends when there is room for it.
Write(events) == reads /\ out' = out \o events
Ev(kind) == [ev |-> kind]
EvOf(kind, id) == [ev |-> kind, id |-> id]

\* The request is read and the conversation built; more than KeepRecent + 2
\* messages may be over the threshold.
Parse ==
    /\ phase = "parse"
    /\ \/ phase' = "step" /\ Write(<<Ev("start")>>)
       \/ /\ Len(Converted(front)) + 1 > KeepRecent + 2
          /\ phase' = "summary" /\ UNCHANGED out
    /\ UNCHANGED <<front, kept, recent, text, part, calls, todo, step, deltas, reads>>

\* The gateway answers with a summary, or fails, or is not asked: there is none
\* of nothing.
Summarise ==
    /\ phase = "summary" /\ phase' = "step"
    /\ \/ /\ Split(front) > 1 /\ kept' = KeptFront(front)
          /\ recent' = SubSeq(Converted(front), Split(front), Len(Converted(front)))
          /\ Write(<<Ev("start"), Ev("compacted")>>)
       \/ Write(<<Ev("start"), Ev("warning")>>) /\ UNCHANGED <<kept, recent>>
    /\ UNCHANGED <<front, text, part, calls, todo, step, deltas, reads>>

-----------------------------------------------------------------------------
(* The loop of requests.                                                   *)

TextEnd == IF text THEN <<EvOf("text-end", part)>> ELSE <<>>
Finished == <<Ev("finish"), Ev("done")>>

\* start-step, and the gateway is asked.
Request ==
    /\ phase = "step" /\ step < MaxSteps /\ step' = step + 1
    /\ Write(<<Ev("start-step")>>) /\ phase' = "asked"
    /\ UNCHANGED <<front, kept, recent, text, part, calls, todo, deltas, reads>>

\* The five minutes are over.  This is looked at here and nowhere else.
TimesUp ==
    /\ phase = "step" /\ step < MaxSteps
    /\ Write(<<Ev("error")>> \o Finished) /\ phase' = "end"
    /\ UNCHANGED <<front, kept, recent, text, part, calls, todo, step, deltas, reads>>

\* The gateway begins to answer,
Responds ==
    /\ phase = "asked" /\ phase' = "stream" /\ calls' = {} /\ deltas' = 0
    /\ text' = FALSE /\ part' = part + 1
    /\ UNCHANGED <<front, kept, recent, out, todo, step, reads>>

\* or it fails, or answers with an error.
RequestFails ==
    /\ phase = "asked" /\ Write(<<Ev("error")>> \o Finished) /\ phase' = "end"
    /\ UNCHANGED <<front, kept, recent, text, part, calls, todo, step, deltas, reads>>

\* All requests are used up.
StepsUsedUp ==
    /\ phase = "step" /\ step = MaxSteps /\ Write(Finished) /\ phase' = "end"
    /\ UNCHANGED <<front, kept, recent, text, part, calls, todo, step, deltas, reads>>

\* A piece of text: the first one opens a part.
TextDelta ==
    /\ phase = "stream" /\ deltas < MaxDeltas /\ deltas' = deltas + 1
    /\ Write((IF text THEN <<>> ELSE <<EvOf("text-start", part)>>) \o <<EvOf("text-delta", part)>>)
    /\ text' = TRUE
    /\ UNCHANGED <<front, kept, recent, phase, part, calls, todo, step, reads>>

\* A piece of a call: an open part of text is closed, and the next has a new
\* id; the first piece announces the call.
CallDelta ==
    /\ phase = "stream" /\ deltas < MaxDeltas /\ deltas' = deltas + 1
    /\ \E idx \in 1 .. 2 :
        /\ Write(TextEnd \o (IF idx \in calls THEN <<>> ELSE <<EvOf("tool-start", <<step, idx>>)>>)
                 \o <<EvOf("tool-delta", <<step, idx>>)>>)
        /\ calls' = calls \cup {idx}
    /\ text' = FALSE /\ part' = IF text THEN part + 1 ELSE part
    /\ UNCHANGED <<front, kept, recent, phase, todo, step, reads>>

\* The mutant runs the calls it has when the stream breaks only if it ended well.
StreamEndsDropping ==
    /\ phase = "stream"
    /\ \E whole \in BOOLEAN :
        /\ todo' = IF whole THEN SetToSortSeq(calls, <) ELSE <<>>
        /\ IF todo' = <<>>
           THEN Write(TextEnd \o <<Ev("finish-step")>> \o Finished) /\ phase' = "end"
           ELSE Write(TextEnd) /\ phase' = "tools"
    /\ text' = FALSE
    /\ UNCHANGED <<front, kept, recent, part, calls, step, deltas, reads>>
\* [DONE], or the stream breaks: the text is closed, and the calls are run in
\* the order of their indices; without calls the request is over.
StreamEnds ==
    /\ phase = "stream"
    /\ todo' = SetToSortSeq(calls, <)
    /\ IF calls = {}
       THEN Write(TextEnd \o <<Ev("finish-step")>> \o Finished) /\ phase' = "end"
       ELSE Write(TextEnd) /\ phase' = "tools"
    /\ text' = FALSE
    /\ UNCHANGED <<front, kept, recent, part, calls, step, deltas, reads>>

\* One call: its input, the command (which may time out), its output.
RunTool ==
    /\ phase = "tools"
    /\ Write(<<EvOf("tool-input", <<step, Head(todo)>>), EvOf("tool-output", <<step, Head(todo)>>)>>
             \o (IF Len(todo) = 1 THEN <<Ev("finish-step")>> ELSE <<>>))
    /\ todo' = Tail(todo) /\ phase' = IF Len(todo) = 1 THEN "step" ELSE "tools"
    /\ UNCHANGED <<front, kept, recent, text, part, calls, step, deltas, reads>>

\* The front end goes: writes of headers, start, start-step and text find out
\* and end the request; the others ignore it, and the tools are run.
Leaves ==
    /\ phase \in {"parse", "summary", "step", "asked", "stream"} /\ phase' = "gone"
    /\ UNCHANGED <<front, kept, recent, out, text, part, calls, todo, step, deltas, reads>>

\* The front end stops reading, and reads on.
Reads ==
    /\ phase \notin {"end", "gone"} /\ reads' = ~ reads
    /\ UNCHANGED <<front, kept, recent, phase, out, text, part, calls, todo, step, deltas>>

\* What the daemon does without the gateway, whose answers have no time limit: the
\* HTTP client has none.  A tool has one of its own.
Own == Parse \/ Request \/ TimesUp \/ StepsUsedUp \/ RunTool

Next ==
    \/ Own
    \/ Summarise \/ Responds \/ RequestFails \/ TextDelta \/ CallDelta \/ StreamEnds
    \/ Leaves \/ Reads

Spec == Init /\ [][Next]_vars /\ WF_vars(Own)

-----------------------------------------------------------------------------
(* Properties.                                                             *)

Places(e) == {i \in DOMAIN out : out[i] = e}
Before(e1, e2) == \A i \in Places(e2) : \E j \in Places(e1) : j < i

\* The messages the front end is told to keep are those that were not
\* summarised: they convert to exactly the recent part of the conversation.
KeepsWhatIsNotSummarised ==
    kept <= MaxFront =>
        SelectSeq([i \in 1 .. Len(front) |-> i], LAMBDA i : i > Len(front) - kept /\ ~ front[i].empty) = recent

\* Parts of text are opened once, closed once, and never open while a call is
\* streamed or run, or at the end of a step.
TextBracketed ==
    \A p \in 1 .. part :
        /\ \A kind \in {"text-start", "text-end"} : Cardinality(Places(EvOf(kind, p))) <= 1
        /\ Before(EvOf("text-start", p), EvOf("text-delta", p))
        /\ \A i \in Places(EvOf("text-start", p)) :
            \A j \in i + 1 .. Len(out) :
                out[j].ev \in {"tool-start", "tool-input", "finish-step", "start-step"} =>
                    \E k \in i + 1 .. j : out[k] = EvOf("text-end", p)

\* Every call announced to the front end gets its output, exactly once and
\* after its input, before the step is finished.
CallsAnswered ==
    /\ \A s \in 1 .. MaxSteps, c \in 1 .. 2 :
        /\ Before(EvOf("tool-start", <<s, c>>), EvOf("tool-input", <<s, c>>))
        /\ Before(EvOf("tool-input", <<s, c>>), EvOf("tool-output", <<s, c>>))
        /\ \A kind \in {"tool-start", "tool-input", "tool-output"} :
            Cardinality(Places(EvOf(kind, <<s, c>>))) <= 1
        /\ phase = "end" =>
            Cardinality(Places(EvOf("tool-start", <<s, c>>))) = Cardinality(Places(EvOf("tool-output", <<s, c>>)))

\* A request that the front end waits for and reads the events of comes to its
\* end, and the last two events say so, however many calls the gateway asks for;
\* or it waits for the gateway for ever.
WaitsForGateway == phase \in {"summary", "asked", "stream"}
Over == phase = "gone" \/ (phase = "end" /\ IsSuffix(Finished, out))
Terminates == <>[]reads => <>(Over \/ []WaitsForGateway)

=============================================================================

------------------------------ MODULE AgentTurn ------------------------------
(***************************************************************************)
(* AgentRuntime (reshape-core/src/runtime/mod.rs): one agent turn, from the *)
(* inbound event to the recorded answer, and the session it is recorded in. *)
(*                                                                         *)
(* The runtime is driven by one worker, so at most one turn runs at a time. *)
(* pc is the await at which the turn's future is suspended:                *)
(*   "load"      SessionStore::load                                        *)
(*   "chat"      LlmProvider::chat                                         *)
(*   "execute"   ToolRegistry::execute                                     *)
(*   "save"      SessionStore::save                                        *)
(* and "dispatch" is the head of the loop over a response's tool calls,    *)
(* which the code reaches without awaiting.  The store, the model and the  *)
(* tools answer anything they may answer; here the store's load and save   *)
(* are single steps (module SessionFile takes them apart).                 *)
(***************************************************************************)
EXTENDS Naturals, Sequences, FiniteSets

CONSTANTS
    Inputs,              \* payloads of input events
    Tools,               \* names of the registered tools
    CompleteTask,        \* the one tool whose result says should_continue = false
    UnknownTools,        \* names the model may invent
    CallIds,             \* identifiers the model gives its tool calls
    MaxToolIterations,   \* RuntimeLimits::max_tool_iterations
    MaxToolCalls,        \* RuntimeLimits::max_tool_calls
    MaxCallsPerResponse, \* bound: tool calls in one model response
    MaxTurns             \* bound: inbound events

ASSUME LimitsAssumption ==
    /\ MaxToolIterations \in Nat
    /\ MaxToolCalls \in Nat
    /\ MaxCallsPerResponse \in Nat \ {0}
    /\ MaxTurns \in Nat

ASSUME ToolsAssumption ==
    /\ CompleteTask \in Tools
    /\ Tools \cap UnknownTools = {}

VARIABLES
    stored,      \* the session in the store
    session,     \* the turn's own copy, not yet saved
    input,       \* payload of the event being processed
    pc,          \* where the turn is suspended
    messages,    \* the conversation sent to the model
    calls,       \* tool calls of the last response still to run
    iteration,   \* loop counter
    tool_calls,  \* tool calls counted against the budget
    output,      \* the terminal output event
    listening,   \* a progress callback was given
    progress,    \* progress events emitted in this turn
    result,      \* what process_with_optional_progress returned
    turns        \* inbound events so far

vars == <<stored, session, input, pc, messages, calls, iteration, tool_calls,
          output, listening, progress, result, turns>>

-----------------------------------------------------------------------------

Outputs == {"FinalMessage", "Completed"}

\* Errors returned after "turn_started"; the first two come straight out of
\* a `?' on the store, the others through emit_turn_failed.
StoreFailures == {"LoadFailed", "SaveFailed"}
TurnFailures == {"ChatFailed", "ToolFailed", "IterationBudget", "CallBudget",
                 "LoopEnded"}
Failures == {"InvalidSessionKey"} \cup StoreFailures \cup TurnFailures

Results == {"Ready", "Running", "Dropped"} \cup Outputs \cup Failures

Calls == [id : CallIds, name : Tools \cup UnknownTools]

CallLists == UNION {[1 .. n -> Calls] : n \in 0 .. MaxCallsPerResponse}

Entries == ({"Input"} \X Inputs) \cup ({"Output"} \X Outputs)

Sessions == [turn_index : Nat, history : Seq(Entries)]

DefaultSession == [turn_index |-> 0, history |-> <<>>]

Awaits == {"load", "chat", "execute", "save"}

EventKinds == {"TurnStarted", "AssistantMessage", "ToolStarted",
               "ToolFinished", "ToolFailed", "TurnCompleted", "TurnFailed"}

\* tool_name is Option<String>.
NoTool == <<>>
ToolNames == {NoTool} \cup {<<n>> : n \in Tools \cup UnknownTools}
Events == [kind : EventKinds, tool : ToolNames]
Event(kind, tool) == [kind |-> kind, tool |-> tool]

\* Session::record_input and Session::record_output.
RecordInput(s, i) ==
    [turn_index |-> s.turn_index + 1,
     history    |-> Append(s.history, <<"Input", i>>)]

RecordOutput(s, o) ==
    [turn_index |-> s.turn_index,
     history    |-> Append(s.history, <<"Output", o>>)]

\* Mutant: a batch of events is pushed as one.
EmitNested(events) == IF listening THEN Append(progress, events) ELSE progress

\* emit_progress: nothing at all without a callback; with one, the event's
\* sequence number is its position in the stream.
Emit(events) == IF listening THEN progress \o events ELSE progress

\* A conversation message; the calls of an assistant message and the call a
\* tool message answers are what the provider matches on.
Messages == [role : {"system", "user", "assistant", "tool"}, calls : Seq(Calls)]
Message(role, cs) == [role |-> role, calls |-> cs]

\* ChatMessage::assistant_with_tool_calls and ChatMessage::tool_for_call.
AssistantMessage(cs) == Message("assistant", cs)
ToolMessage(call) == Message("tool", <<call>>)

-----------------------------------------------------------------------------

Init ==
    /\ stored = DefaultSession
    /\ session = DefaultSession
    /\ input \in Inputs
    /\ pc = "idle"
    /\ messages = <<>>
    /\ calls = <<>>
    /\ iteration = 0
    /\ tool_calls = 0
    /\ output \in Outputs
    /\ listening \in BOOLEAN
    /\ progress = <<>>
    /\ result = "Ready"
    /\ turns = 0

\* The locals of a turn that has ended are gone.
ForgetLocals ==
    /\ session' = DefaultSession
    /\ messages' = <<>>
    /\ calls' = <<>>
    /\ iteration' = 0
    /\ tool_calls' = 0

\* process_with_optional_progress returns r after emitting the given events.
Return(r, events) ==
    /\ pc' = "idle"
    /\ result' = r
    /\ progress' = Emit(events)
    /\ ForgetLocals
    /\ UNCHANGED <<input, output, listening, turns>>

\* Mutant: the error is returned without emit_turn_failed.
FailSilently(r, events) ==
    /\ Return(r, events)
    /\ UNCHANGED stored

\* emit_turn_failed, then return Err.
Fail(r, events) ==
    /\ Return(r, events \o <<Event("TurnFailed", NoTool)>>)
    /\ UNCHANGED stored

\* An event for another session is rejected before anything is emitted.
RejectTurn ==
    /\ pc = "idle"
    /\ turns < MaxTurns
    /\ turns' = turns + 1
    /\ result' = "InvalidSessionKey"
    /\ progress' = <<>>
    /\ listening' \in BOOLEAN
    /\ UNCHANGED <<stored, session, input, pc, messages, calls, iteration,
                   tool_calls, output>>

\* The turn starts and waits for the session.
StartTurn ==
    /\ pc = "idle"
    /\ turns < MaxTurns
    /\ turns' = turns + 1
    /\ input' \in Inputs
    /\ listening' \in BOOLEAN
    /\ progress' = IF listening' THEN <<Event("TurnStarted", NoTool)>> ELSE <<>>
    /\ result' = "Running"
    /\ pc' = "load"
    /\ UNCHANGED <<stored, session, messages, calls, iteration, tool_calls, output>>

\* load succeeds: record_input on the copy, the first two messages, first chat.
LoadOk ==
    /\ pc = "load"
    /\ session' = RecordInput(stored, input)
    /\ messages' = <<Message("system", <<>>), Message("user", <<>>)>>
    /\ pc' = "chat"
    /\ UNCHANGED <<stored, input, calls, iteration, tool_calls, output,
                   listening, progress, result, turns>>

\* `load().await?': no event is emitted.
LoadErr ==
    /\ pc = "load"
    /\ Return("LoadFailed", <<>>)
    /\ UNCHANGED stored

\* Mutant: a failed model request starts the turn over.
ChatErrRetries ==
    /\ pc = "chat"
    /\ pc' = "load"
    /\ UNCHANGED <<stored, session, input, messages, calls, iteration,
                   tool_calls, output, listening, progress, result, turns>>

ChatErr ==
    /\ pc = "chat"
    /\ Fail("ChatFailed", <<>>)

\* A response whose content is not blank is announced first.
Announce(blank) ==
    IF blank THEN <<>> ELSE <<Event("AssistantMessage", NoTool)>>

\* A response without tool calls is the final message: record_output, save.
ChatFinal(blank) ==
    /\ pc = "chat"
    /\ progress' = Emit(Announce(blank))
    /\ messages' = Append(messages, AssistantMessage(<<>>))
    /\ output' = "FinalMessage"
    /\ session' = RecordOutput(session, "FinalMessage")
    /\ pc' = "save"
    /\ UNCHANGED <<stored, input, calls, iteration, tool_calls, listening,
                   result, turns>>

\* A response with tool calls in the last permitted iteration fails the turn.
ChatOverBudget(blank) ==
    /\ pc = "chat"
    /\ iteration = MaxToolIterations
    /\ Fail("IterationBudget", Announce(blank))

\* Mutant: the check for the last iteration is missing.
ChatCallsUnchecked(blank, cs) ==
    /\ pc = "chat"
    /\ cs # <<>>
    /\ progress' = Emit(Announce(blank))
    /\ messages' = Append(messages, AssistantMessage(cs))
    /\ calls' = cs
    /\ pc' = "dispatch"
    /\ UNCHANGED <<stored, session, input, iteration, tool_calls, output,
                   listening, result, turns>>

\* A response with tool calls: they are run one after the other.
ChatCalls(blank, cs) ==
    /\ pc = "chat"
    /\ iteration # MaxToolIterations
    /\ cs # <<>>
    /\ progress' = Emit(Announce(blank))
    /\ messages' = Append(messages, AssistantMessage(cs))
    /\ calls' = cs
    /\ pc' = "dispatch"
    /\ UNCHANGED <<stored, session, input, iteration, tool_calls, output,
                   listening, result, turns>>

\* The next call is within the budget: it is announced and started.
BeginCall ==
    /\ pc = "dispatch"
    /\ calls # <<>>
    /\ tool_calls + 1 <= MaxToolCalls
    /\ tool_calls' = tool_calls + 1
    /\ progress' = Emit(<<Event("ToolStarted", <<Head(calls).name>>)>>)
    /\ pc' = "execute"
    /\ UNCHANGED <<stored, session, input, messages, calls, iteration, output,
                   listening, result, turns>>

\* The next call exceeds the budget: it is not started, the turn fails.
RefuseCall ==
    /\ pc = "dispatch"
    /\ calls # <<>>
    /\ tool_calls + 1 > MaxToolCalls
    /\ Fail("CallBudget", <<>>)

\* All calls of the response are done.  The `for' either goes around again or
\* ends, and then the code after it reports a loop that ended unexpectedly.
NextIteration ==
    /\ pc = "dispatch"
    /\ calls = <<>>
    /\ IF iteration < MaxToolIterations
       THEN /\ iteration' = iteration + 1
            /\ pc' = "chat"
            /\ UNCHANGED <<stored, session, input, messages, calls, tool_calls,
                           output, listening, progress, result, turns>>
       ELSE Fail("LoopEnded", <<>>)

\* Mutant: the tool's result is not pushed for the model.
ExecuteContinueUnanswered ==
    /\ pc = "execute"
    /\ Head(calls).name \in Tools \ {CompleteTask}
    /\ progress' = Emit(<<Event("ToolFinished", <<Head(calls).name>>)>>)
    /\ calls' = Tail(calls)
    /\ pc' = "dispatch"
    /\ UNCHANGED <<stored, session, input, messages, iteration, tool_calls,
                   output, listening, result, turns>>

\* The tool answers and the turn goes on.
ExecuteContinue ==
    /\ pc = "execute"
    /\ Head(calls).name \in Tools \ {CompleteTask}
    /\ messages' = Append(messages, ToolMessage(Head(calls)))
    /\ progress' = Emit(<<Event("ToolFinished", <<Head(calls).name>>)>>)
    /\ calls' = Tail(calls)
    /\ pc' = "dispatch"
    /\ UNCHANGED <<stored, session, input, iteration, tool_calls, output,
                   listening, result, turns>>

\* complete_task answers: the remaining calls are not run, the turn is saved.
ExecuteComplete ==
    /\ pc = "execute"
    /\ Head(calls).name = CompleteTask
    /\ messages' = Append(messages, ToolMessage(Head(calls)))
    /\ progress' = Emit(<<Event("ToolFinished", <<Head(calls).name>>)>>)
    /\ calls' = Tail(calls)
    /\ output' = "Completed"
    /\ session' = RecordOutput(session, "Completed")
    /\ pc' = "save"
    /\ UNCHANGED <<stored, input, iteration, tool_calls, listening, result, turns>>

\* The tool fails, or no tool has that name: the whole turn fails.
ExecuteErr ==
    /\ pc = "execute"
    /\ Fail("ToolFailed", <<Event("ToolFailed", <<Head(calls).name>>)>>)

\* The session is saved and the output returned.
SaveOk ==
    /\ pc = "save"
    /\ stored' = session
    /\ Return(output, <<Event("TurnCompleted", NoTool)>>)

\* Mutant: the save takes effect although it reports an error.
SaveErrRecorded ==
    /\ pc = "save"
    /\ stored' = session
    /\ Return("SaveFailed", <<>>)

\* `save(session).await?': no event is emitted.
SaveErr ==
    /\ pc = "save"
    /\ Return("SaveFailed", <<>>)
    /\ UNCHANGED stored

\* Mutant: the turn's copy is written back wherever the turn is dropped.
DropSavesEarly ==
    /\ pc \in Awaits
    /\ Return("Dropped", <<>>)
    /\ stored' \in {stored, session}

\* The caller drops the turn's future at one of its awaits.  A save that has
\* been handed to the store may have happened.
Drop ==
    /\ pc \in Awaits
    /\ Return("Dropped", <<>>)
    /\ stored' \in IF pc = "save" THEN {stored, session} ELSE {stored}

\* reset_session, between two turns.
ResetSession ==
    /\ pc = "idle"
    /\ stored' = DefaultSession
    /\ UNCHANGED <<session, input, pc, messages, calls, iteration, tool_calls,
                   output, listening, progress, result, turns>>

\* What the turn does once started, whatever the model and the tools answer.
TurnStep ==
    \/ LoadOk \/ LoadErr
    \/ ChatErr
    \/ \E blank \in BOOLEAN :
          \/ ChatFinal(blank)
          \/ ChatOverBudget(blank)
          \/ \E cs \in CallLists : ChatCalls(blank, cs)
    \/ BeginCall \/ RefuseCall \/ NextIteration
    \/ ExecuteContinue \/ ExecuteComplete \/ ExecuteErr
    \/ SaveOk \/ SaveErr

Next == RejectTurn \/ StartTurn \/ TurnStep \/ Drop \/ ResetSession

Spec == Init /\ [][Next]_vars

\* The model request has a timeout (the provider's HTTP client is built with
\* one), tools and store calls return: a started turn keeps moving.
FairSpec == Spec /\ WF_vars(TurnStep)

-----------------------------------------------------------------------------
(***************************************************************************)
(* Properties.                                                             *)
(***************************************************************************)

\* The types of the turn's locals, of its progress events and of the session.
TypeOK ==
    /\ stored \in Sessions
    /\ session \in Sessions
    /\ input \in Inputs
    /\ pc \in Awaits \cup {"idle", "dispatch"}
    /\ messages \in Seq(Messages)
    /\ calls \in Seq(Calls)
    /\ iteration \in Nat
    /\ tool_calls \in Nat
    /\ output \in Outputs
    /\ listening \in BOOLEAN
    /\ progress \in Seq(Events)
    /\ result \in Results
    /\ turns \in Nat

\* In conversation m every assistant message is followed at once by the
\* replies to its calls, all of them, in the order of the calls.
CallsAnswered(m) ==
    \A i \in DOMAIN m : m[i].role = "assistant" =>
        \A k \in DOMAIN m[i].calls :
            i + k \in DOMAIN m /\ m[i + k] = ToolMessage(m[i].calls[k])

\* In conversation m every tool message is one of those replies.
RepliesSolicited(m) ==
    \A j \in DOMAIN m : m[j].role = "tool" =>
        \E i \in 1 .. j - 1 :
            m[i].role = "assistant" /\ j - i \in DOMAIN m[i].calls

(***************************************************************************)
(* Whenever the model is asked, the conversation it gets is one a chat      *)
(* completion endpoint accepts: each tool call of each earlier response is  *)
(* answered exactly once, in order, before the next response, and there is  *)
(* no reply to a call nobody made (the messages vector of the loop).        *)
(***************************************************************************)
ConversationWellFormed ==
    pc = "chat" => CallsAnswered(messages) /\ RepliesSolicited(messages)

TerminalKinds == {"TurnCompleted", "TurnFailed"}

(***************************************************************************)
(* The progress stream a client shows is always a prefix of a well formed   *)
(* one: turn_started first and only there, nothing after a terminal event,  *)
(* every tool_started answered next by the same tool's finished or failed   *)
(* event and no such event without it, and nothing but turn_completed after *)
(* complete_task has finished, even when the model asked for more calls.    *)
(***************************************************************************)
StreamWellFormed(p) ==
    \A i \in DOMAIN p :
        /\ p[i].kind = "TurnStarted" <=> i = 1
        /\ p[i].kind \in TerminalKinds => i = Len(p)
        /\ p[i].kind \in {"ToolFinished", "ToolFailed"} =>
              p[i - 1] = Event("ToolStarted", p[i].tool)
        /\ (p[i].kind = "ToolStarted" /\ i < Len(p)) =>
              p[i + 1].kind \in {"ToolFinished", "ToolFailed"}
        /\ (p[i] = Event("ToolFinished", <<CompleteTask>>) /\ i < Len(p)) =>
              p[i + 1].kind = "TurnCompleted"

\* The events the client is sent for the turn are in that order.
ProgressWellFormed == StreamWellFormed(progress)

LastKind == IF progress = <<>> THEN "None" ELSE progress[Len(progress)].kind

(***************************************************************************)
(* When a turn is over, the stream says how it ended: turn_completed        *)
(* exactly when the caller gets an output, turn_failed exactly when the     *)
(* model, a tool or a budget failed it.  The `?' on the session store makes *)
(* a store failure the one error that ends a stream silently.               *)
(***************************************************************************)
TerminalEventMatchesResult ==
    pc = "idle" /\ listening =>
        /\ LastKind = "TurnCompleted" <=> result \in Outputs
        /\ LastKind = "TurnFailed" <=> result \in TurnFailures

Positions(s, test(_)) == {i \in DOMAIN s : test(s[i])}

(***************************************************************************)
(* RuntimeLimits are limits: a turn asks the model at most                  *)
(* max_tool_iterations + 1 times and starts at most max_tool_calls tools,   *)
(* however the calls are spread over the responses.                         *)
(***************************************************************************)
WithinBudget ==
    /\ Cardinality(Positions(messages, LAMBDA m : m.role = "assistant"))
          <= MaxToolIterations + 1
    /\ Cardinality(Positions(progress, LAMBDA e : e.kind = "ToolStarted"))
          <= MaxToolCalls

(***************************************************************************)
(* What a client sees of a turn is what happened: the stream is well formed *)
(* and ends as the turn did, and shows no more work than the limits allow,  *)
(* however calls, failures and a client that leaves are spread over it.     *)
(***************************************************************************)
ProgressTellsTheTurn ==
    ProgressWellFormed /\ TerminalEventMatchesResult /\ WithinBudget

(***************************************************************************)
(* The code after the loop, which reports "tool loop ended unexpectedly",   *)
(* is never reached: each way of running out of iterations is caught by the *)
(* check in the last one, also when max_tool_iterations is 0.               *)
(***************************************************************************)
LoopNeverFallsThrough == result # "LoopEnded"

\* In session s inputs and outputs alternate, and turn_index counts the pairs.
WholeTurns(s) ==
    /\ Len(s.history) = 2 * s.turn_index
    /\ \A i \in DOMAIN s.history :
          s.history[i][1] = IF i % 2 = 1 THEN "Input" ELSE "Output"

(***************************************************************************)
(* The stored session consists of whole turns, whichever turns failed or    *)
(* were dropped in between.                                                 *)
(***************************************************************************)
StoredWholeTurns == WholeTurns(stored)

\* The session as its users see it (module SessionSpec).
Promise == INSTANCE SessionSpec WITH session <- stored, request <- input,
                                     answer <- result

(***************************************************************************)
(* The runtime implements SessionSpec: the store changes only by a whole    *)
(* turn of the running request or by a reset between turns; a caller that   *)
(* is told of an error finds nothing recorded, one that is told an output   *)
(* finds exactly that output recorded after its own input.                  *)
(***************************************************************************)
KeepsPromise == Promise!Spec

(***************************************************************************)
(* A started turn ends, whatever the model answers: a model that never      *)
(* stops calling tools runs out of budget.                                  *)
(***************************************************************************)
TurnEnds == pc # "idle" ~> pc = "idle"
=============================================================================

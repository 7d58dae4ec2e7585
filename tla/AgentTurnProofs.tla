--------------------------- MODULE AgentTurnProofs ---------------------------
(***************************************************************************)
(* Theorems about AgentTurn, for every set of inputs, tools and call ids    *)
(* and for all values of the limits.                                       *)
(***************************************************************************)
EXTENDS AgentTurn, TLAPS, SequenceTheorems, FiniteSetTheorems

(***************************************************************************)
(* Facts about the data the turn is built from.                            *)
(***************************************************************************)

\* Every event the runtime emits has the type of TurnProgressEvent.
LEMMA EventType ==
    ASSUME NEW k \in EventKinds, NEW t \in ToolNames
    PROVE  Event(k, t) \in Events
BY DEF Event, Events

\* The tool_name of an event about a tool call, and of the others.
LEMMA ToolNameType ==
    /\ NoTool \in ToolNames
    /\ \A c \in Calls : <<c.name>> \in ToolNames
BY DEF ToolNames, Calls

\* emit_progress keeps the stream a sequence of events.
LEMMA EmitType ==
    ASSUME TypeOK, NEW es \in Seq(Events)
    PROVE  Emit(es) \in Seq(Events)
BY ConcatProperties DEF TypeOK, Emit

\* What the model sends is a list of tool calls.
LEMMA CallListType == CallLists \subseteq Seq(Calls)
BY DEF CallLists

\* The first of the pending tool calls.
LEMMA HeadCall ==
    ASSUME NEW cs \in Seq(Calls), cs # <<>>
    PROVE  /\ Head(cs) \in Calls
           /\ Tail(cs) \in Seq(Calls)
BY HeadTailProperties

\* record_input and record_output keep the session a session.
LEMMA RecordType ==
    ASSUME NEW s \in Sessions
    PROVE  /\ \A i \in Inputs : RecordInput(s, i) \in Sessions
           /\ \A o \in Outputs : RecordOutput(s, o) \in Sessions
<1>1. ASSUME NEW i \in Inputs PROVE RecordInput(s, i) \in Sessions
  <2>1. <<"Input", i>> \in Entries
    BY DEF Entries
  <2>. QED  BY <2>1, AppendProperties DEF RecordInput, Sessions
<1>2. ASSUME NEW o \in Outputs PROVE RecordOutput(s, o) \in Sessions
  <2>1. <<"Output", o>> \in Entries
    BY DEF Entries
  <2>. QED  BY <2>1, AppendProperties DEF RecordOutput, Sessions
<1>. QED  BY <1>1, <1>2

\* The default session is a session.
LEMMA DefaultSessionType == DefaultSession \in Sessions
BY DEF DefaultSession, Sessions

(***************************************************************************)
(* Type correctness.                                                       *)
(***************************************************************************)

\* The event stream of a failing turn: the given events and turn_failed.
LEMMA FailEvents ==
    ASSUME NEW es \in Seq(Events)
    PROVE  es \o <<Event("TurnFailed", NoTool)>> \in Seq(Events)
BY EventType, ToolNameType, ConcatProperties DEF EventKinds

\* What a model answer announces is a sequence of events.
LEMMA AnnounceType ==
    ASSUME NEW b \in BOOLEAN
    PROVE  Announce(b) \in Seq(Events)
BY EventType, ToolNameType DEF Announce, EventKinds

\* Returning from process_with_optional_progress, in any way.
LEMMA ReturnType ==
    ASSUME TypeOK, NEW r \in Results, NEW es \in Seq(Events),
           Return(r, es), stored' \in Sessions
    PROVE  TypeOK'
<1>1. progress' \in Seq(Events)
  BY EmitType DEF Return
<1>. QED
  BY <1>1, DefaultSessionType DEF TypeOK, Return, ForgetLocals

\* A turn that fails leaves well-typed variables.
LEMMA FailType ==
    ASSUME TypeOK, NEW r \in TurnFailures, NEW es \in Seq(Events), Fail(r, es)
    PROVE  TypeOK'
<1>1. es \o <<Event("TurnFailed", NoTool)>> \in Seq(Events)
  BY FailEvents
<1>2. r \in Results /\ stored' \in Sessions
  BY DEF Results, Failures, Fail, TypeOK
<1>. QED  BY <1>1, <1>2, ReturnType DEF Fail

\* What is pending while a tool runs, and how far the loop has come: the
\* budget check comes before the calls of a response are run.
LoopInv ==
    /\ pc = "execute" => calls # <<>>
    /\ pc \in {"idle", "load"} => iteration = 0
    /\ pc = "chat" => iteration <= MaxToolIterations
    /\ pc \in {"dispatch", "execute"} => iteration < MaxToolIterations
    /\ result # "LoopEnded"

\* The initial state.
LEMMA InitTypeLoop == Init => TypeOK /\ LoopInv
<1>1. /\ "idle" \in Awaits \cup {"idle", "dispatch"}
      /\ "Ready" \in Results
  BY DEF Results
<1>. QED
  BY <1>1, DefaultSessionType DEF Init, TypeOK, LoopInv

\* Every step keeps the types and the loop's bookkeeping.
LEMMA StepTypeLoop == TypeOK /\ LoopInv /\ [Next]_vars => TypeOK' /\ LoopInv'
<1>. SUFFICES ASSUME TypeOK, LoopInv, [Next]_vars
              PROVE  TypeOK' /\ LoopInv'
  OBVIOUS
<1>. USE LimitsAssumption
<1>1. CASE RejectTurn
  <2>1. <<>> \in Seq(Events) /\ "InvalidSessionKey" \in Results
    BY DEF Results, Failures
  <2>. QED  BY <1>1, <2>1 DEF RejectTurn, TypeOK, LoopInv
<1>2. CASE StartTurn
  <2>1. progress' \in Seq(Events)
    BY <1>2, EventType, ToolNameType DEF StartTurn, EventKinds
  <2>2. "Running" \in Results /\ "load" \in Awaits
    BY DEF Results, Awaits
  <2>. QED  BY <1>2, <2>1, <2>2 DEF StartTurn, TypeOK, LoopInv
<1>3. CASE LoadOk
  <2>1. session' \in Sessions
    BY <1>3, RecordType DEF LoadOk, TypeOK
  <2>2. messages' \in Seq(Messages)
    BY <1>3 DEF LoadOk, Messages, Message
  <2>3. "chat" \in Awaits
    BY DEF Awaits
  <2>. QED  BY <1>3, <2>1, <2>2, <2>3 DEF LoadOk, TypeOK, LoopInv
<1>4. CASE LoadErr
  <2>1. <<>> \in Seq(Events) /\ "LoadFailed" \in Results /\ stored' \in Sessions
    BY <1>4 DEF LoadErr, Results, Failures, StoreFailures, TypeOK
  <2>2. TypeOK'
    BY <1>4, <2>1, ReturnType DEF LoadErr
  <2>. QED  BY <1>4, <2>2 DEF LoadErr, Return, ForgetLocals, LoopInv
<1>5. CASE ChatErr
  <2>1. <<>> \in Seq(Events)
    OBVIOUS
  <2>2. TypeOK'
    BY <1>5, <2>1, FailType DEF ChatErr, TurnFailures
  <2>. QED  BY <1>5, <2>2 DEF ChatErr, Fail, Return, ForgetLocals, LoopInv
<1>6. ASSUME NEW b \in BOOLEAN, ChatFinal(b)
      PROVE  TypeOK' /\ LoopInv'
  <2>1. progress' \in Seq(Events)
    BY <1>6, AnnounceType, EmitType DEF ChatFinal
  <2>2. messages' \in Seq(Messages)
    BY <1>6, AppendProperties DEF ChatFinal, AssistantMessage, Message, Messages, TypeOK
  <2>3. "FinalMessage" \in Outputs /\ "save" \in Awaits
    BY DEF Outputs, Awaits
  <2>4. session' \in Sessions
    BY <1>6, <2>3, RecordType DEF ChatFinal, TypeOK
  <2>. QED  BY <1>6, <2>1, <2>2, <2>3, <2>4 DEF ChatFinal, TypeOK, LoopInv
<1>7. ASSUME NEW b \in BOOLEAN, ChatOverBudget(b)
      PROVE  TypeOK' /\ LoopInv'
  <2>1. TypeOK'
    BY <1>7, AnnounceType, FailType DEF ChatOverBudget, TurnFailures
  <2>. QED  BY <1>7, <2>1 DEF ChatOverBudget, Fail, Return, ForgetLocals, LoopInv
<1>8. ASSUME NEW b \in BOOLEAN, NEW cs \in CallLists, ChatCalls(b, cs)
      PROVE  TypeOK' /\ LoopInv'
  <2>1. progress' \in Seq(Events)
    BY <1>8, AnnounceType, EmitType DEF ChatCalls
  <2>2. cs \in Seq(Calls)
    BY <1>8, CallListType
  <2>3. messages' \in Seq(Messages)
    BY <1>8, <2>2, AppendProperties DEF ChatCalls, AssistantMessage, Message, Messages, TypeOK
  <2>. QED  BY <1>8, <2>1, <2>2, <2>3 DEF ChatCalls, TypeOK, LoopInv
<1>9. CASE BeginCall
  <2>1. Head(calls) \in Calls
    BY <1>9, HeadCall DEF BeginCall, TypeOK
  <2>2. <<Event("ToolStarted", <<Head(calls).name>>)>> \in Seq(Events)
    BY <2>1, EventType, ToolNameType DEF EventKinds
  <2>3. progress' \in Seq(Events)
    BY <1>9, <2>2, EmitType DEF BeginCall
  <2>4. "execute" \in Awaits
    BY DEF Awaits
  <2>. QED  BY <1>9, <2>3, <2>4 DEF BeginCall, TypeOK, LoopInv
<1>10. CASE RefuseCall
  <2>1. <<>> \in Seq(Events)
    OBVIOUS
  <2>2. TypeOK'
    BY <1>10, <2>1, FailType DEF RefuseCall, TurnFailures
  <2>. QED  BY <1>10, <2>2 DEF RefuseCall, Fail, Return, ForgetLocals, LoopInv
<1>11. CASE NextIteration
  <2>1. iteration < MaxToolIterations
    BY <1>11 DEF NextIteration, LoopInv
  <2>2. "chat" \in Awaits
    BY DEF Awaits
  <2>. QED  BY <1>11, <2>1, <2>2 DEF NextIteration, TypeOK, LoopInv
<1>12. CASE ExecuteContinue
  <2>1. Head(calls) \in Calls /\ calls' \in Seq(Calls)
    BY <1>12, HeadCall DEF ExecuteContinue, TypeOK, LoopInv
  <2>2. <<Event("ToolFinished", <<Head(calls).name>>)>> \in Seq(Events)
    BY <2>1, EventType, ToolNameType DEF EventKinds
  <2>3. progress' \in Seq(Events)
    BY <1>12, <2>2, EmitType DEF ExecuteContinue
  <2>4. messages' \in Seq(Messages)
    BY <1>12, <2>1, AppendProperties DEF ExecuteContinue, ToolMessage, Message, Messages, TypeOK
  <2>. QED  BY <1>12, <2>1, <2>3, <2>4 DEF ExecuteContinue, TypeOK, LoopInv
<1>13. CASE ExecuteComplete
  <2>1. Head(calls) \in Calls /\ calls' \in Seq(Calls)
    BY <1>13, HeadCall DEF ExecuteComplete, TypeOK, LoopInv
  <2>2. <<Event("ToolFinished", <<Head(calls).name>>)>> \in Seq(Events)
    BY <2>1, EventType, ToolNameType DEF EventKinds
  <2>3. progress' \in Seq(Events)
    BY <1>13, <2>2, EmitType DEF ExecuteComplete
  <2>4. messages' \in Seq(Messages)
    BY <1>13, <2>1, AppendProperties DEF ExecuteComplete, ToolMessage, Message, Messages, TypeOK
  <2>5. "Completed" \in Outputs /\ "save" \in Awaits
    BY DEF Outputs, Awaits
  <2>6. session' \in Sessions
    BY <1>13, <2>5, RecordType DEF ExecuteComplete, TypeOK
  <2>. QED  BY <1>13, <2>1, <2>3, <2>4, <2>5, <2>6 DEF ExecuteComplete, TypeOK, LoopInv
<1>14. CASE ExecuteErr
  <2>1. Head(calls) \in Calls
    BY <1>14, HeadCall DEF ExecuteErr, TypeOK, LoopInv
  <2>2. <<Event("ToolFailed", <<Head(calls).name>>)>> \in Seq(Events)
    BY <2>1, EventType, ToolNameType DEF EventKinds
  <2>3. TypeOK'
    BY <1>14, <2>2, FailType DEF ExecuteErr, TurnFailures
  <2>. QED  BY <1>14, <2>3 DEF ExecuteErr, Fail, Return, ForgetLocals, LoopInv
<1>15. CASE SaveOk
  <2>1. <<Event("TurnCompleted", NoTool)>> \in Seq(Events)
    BY EventType, ToolNameType DEF EventKinds
  <2>2. output \in Results /\ output # "LoopEnded" /\ stored' \in Sessions
    BY <1>15 DEF SaveOk, TypeOK, Results, Outputs
  <2>3. TypeOK'
    BY <1>15, <2>1, <2>2, ReturnType DEF SaveOk
  <2>. QED  BY <1>15, <2>2, <2>3 DEF SaveOk, Return, ForgetLocals, LoopInv
<1>16. CASE SaveErr
  <2>1. <<>> \in Seq(Events) /\ "SaveFailed" \in Results /\ stored' \in Sessions
    BY <1>16 DEF SaveErr, Results, Failures, StoreFailures, TypeOK
  <2>2. TypeOK'
    BY <1>16, <2>1, ReturnType DEF SaveErr
  <2>. QED  BY <1>16, <2>2 DEF SaveErr, Return, ForgetLocals, LoopInv
<1>17. CASE Drop
  <2>1. <<>> \in Seq(Events) /\ "Dropped" \in Results /\ stored' \in Sessions
    BY <1>17 DEF Drop, Results, TypeOK
  <2>2. TypeOK'
    BY <1>17, <2>1, ReturnType DEF Drop
  <2>. QED  BY <1>17, <2>2 DEF Drop, Return, ForgetLocals, LoopInv
<1>18. CASE ResetSession
  BY <1>18, DefaultSessionType DEF ResetSession, TypeOK, LoopInv
<1>19. CASE UNCHANGED vars
  BY <1>19 DEF vars, TypeOK, LoopInv
<1>. QED
  BY <1>1, <1>2, <1>3, <1>4, <1>5, <1>6, <1>7, <1>8, <1>9, <1>10, <1>11,
     <1>12, <1>13, <1>14, <1>15, <1>16, <1>17, <1>18, <1>19
     DEF Next, TurnStep

(***************************************************************************)
(* Every state of every turn is well typed, for all limits and all answers  *)
(* of the model, the tools and the store.                                   *)
(***************************************************************************)
THEOREM TypeCorrect == Spec => []TypeOK
<1>1. Spec => [](TypeOK /\ LoopInv)
  BY InitTypeLoop, StepTypeLoop, PTL DEF Spec
<1>. QED  BY <1>1, PTL

(***************************************************************************)
(* The loop of process_with_optional_progress never ends by running out of  *)
(* its range: "tool loop ended unexpectedly" is dead code, whatever the     *)
(* limits, 0 included.                                                      *)
(***************************************************************************)
THEOREM LoopComplete == Spec => []LoopNeverFallsThrough
<1>1. LoopInv => LoopNeverFallsThrough
  BY DEF LoopInv, LoopNeverFallsThrough
<1>2. Spec => [](TypeOK /\ LoopInv)
  BY InitTypeLoop, StepTypeLoop, PTL DEF Spec
<1>. QED  BY <1>1, <1>2, PTL

(***************************************************************************)
(* The session.                                                            *)
(***************************************************************************)

\* The turn's own copy is the stored session with the input, and before the
\* save also the output; a caller waits exactly while the turn runs.
SessionInv ==
    /\ pc = "idle" <=> result # "Running"
    /\ pc \in {"chat", "dispatch", "execute"} => session = RecordInput(stored, input)
    /\ pc = "save" => session = RecordOutput(RecordInput(stored, input), output)

\* Recording an input and then an output adds one whole turn.
LEMMA RecordTurn ==
    ASSUME NEW s \in Sessions, NEW i \in Inputs, NEW o \in Outputs
    PROVE  RecordOutput(RecordInput(s, i), o) = Promise!WithTurn(s, i, o)
<1>. DEFINE a == <<"Input", i>>
            b == <<"Output", o>>
            h == s.history
<1>1. a \in Entries /\ b \in Entries /\ h \in Seq(Entries)
  BY DEF Entries, Sessions
<1>. HIDE DEF a, b, h
<1>2. Append(Append(h, a), b) = h \o <<a, b>>
  BY <1>1, AppendProperties, ConcatProperties
<1>. QED
  BY <1>2 DEF RecordOutput, RecordInput, Promise!WithTurn, a, b, h

\* A turn that returns leaves no turn running.
LEMMA ReturnSession ==
    ASSUME NEW r, NEW es, r # "Running", Return(r, es)
    PROVE  SessionInv'
BY DEF Return, SessionInv

\* A turn that fails is over, and its caller has the error.
LEMMA FailSession ==
    ASSUME NEW r \in TurnFailures, NEW es, Fail(r, es)
    PROVE  SessionInv'
BY ReturnSession DEF Fail, TurnFailures

\* No turn runs at the start.
LEMMA InitSession == Init => SessionInv
BY DEF Init, SessionInv

\* What a turn has loaded stays what the store has, with its input recorded.
LEMMA StepSession == TypeOK /\ SessionInv /\ [Next]_vars => SessionInv'
<1>. SUFFICES ASSUME TypeOK, SessionInv, [Next]_vars
              PROVE  SessionInv'
  OBVIOUS
<1>1. CASE RejectTurn
  BY <1>1 DEF RejectTurn, SessionInv
<1>2. CASE StartTurn
  BY <1>2 DEF StartTurn, SessionInv
<1>3. CASE LoadOk
  BY <1>3 DEF LoadOk, SessionInv
<1>4. CASE LoadErr
  BY <1>4, ReturnSession DEF LoadErr
<1>5. CASE ChatErr
  BY <1>5, FailSession DEF ChatErr, TurnFailures
<1>6. ASSUME NEW b \in BOOLEAN, ChatFinal(b)
      PROVE  SessionInv'
  BY <1>6 DEF ChatFinal, SessionInv
<1>7. ASSUME NEW b \in BOOLEAN, ChatOverBudget(b)
      PROVE  SessionInv'
  BY <1>7, FailSession DEF ChatOverBudget, TurnFailures
<1>8. ASSUME NEW b \in BOOLEAN, NEW cs \in CallLists, ChatCalls(b, cs)
      PROVE  SessionInv'
  BY <1>8 DEF ChatCalls, SessionInv
<1>9. CASE BeginCall
  BY <1>9 DEF BeginCall, SessionInv
<1>10. CASE RefuseCall
  BY <1>10, FailSession DEF RefuseCall, TurnFailures
<1>11. CASE NextIteration
  <2>1. CASE iteration < MaxToolIterations
    BY <1>11, <2>1 DEF NextIteration, SessionInv
  <2>2. CASE ~(iteration < MaxToolIterations)
    BY <1>11, <2>2, FailSession DEF NextIteration, TurnFailures
  <2>. QED  BY <2>1, <2>2
<1>12. CASE ExecuteContinue
  BY <1>12 DEF ExecuteContinue, SessionInv
<1>13. CASE ExecuteComplete
  BY <1>13 DEF ExecuteComplete, SessionInv
<1>14. CASE ExecuteErr
  BY <1>14, FailSession DEF ExecuteErr, TurnFailures
<1>15. CASE SaveOk
  <2>1. output # "Running"
    BY DEF TypeOK, Outputs
  <2>. QED  BY <1>15, <2>1, ReturnSession DEF SaveOk
<1>16. CASE SaveErr
  BY <1>16, ReturnSession DEF SaveErr
<1>17. CASE Drop
  BY <1>17, ReturnSession DEF Drop
<1>18. CASE ResetSession
  BY <1>18 DEF ResetSession, SessionInv
<1>19. CASE UNCHANGED vars
  BY <1>19 DEF vars, SessionInv
<1>. QED
  BY <1>1, <1>2, <1>3, <1>4, <1>5, <1>6, <1>7, <1>8, <1>9, <1>10, <1>11,
     <1>12, <1>13, <1>14, <1>15, <1>16, <1>17, <1>18, <1>19
     DEF Next, TurnStep

\* Steps of the turn that the session's users do not see.
LEMMA InvisibleStep ==
    ASSUME UNCHANGED <<stored, input, result>>
    PROVE  UNCHANGED Promise!vars
BY DEF Promise!vars

\* A turn that fails is a refusal.
LEMMA RefusedStep ==
    ASSUME NEW r \in Failures, NEW es, Return(r, es), UNCHANGED stored
    PROVE  Promise!Refuse
BY DEF Return, Promise!Refuse

\* A turn that fails is a refused request of SessionSpec.
LEMMA FailedStep ==
    ASSUME NEW r \in TurnFailures, NEW es, Fail(r, es)
    PROVE  Promise!Refuse
BY RefusedStep DEF Fail, Failures

\* The turn is saved: its caller gets the output, or has gone.
LEMMA SavedStep ==
    ASSUME TypeOK, SessionInv, pc = "save", stored' = session,
           NEW r \in {output, "Dropped"}, NEW es, Return(r, es)
    PROVE  Promise!Commit
<1>1. stored' = Promise!WithTurn(stored, input, output)
  BY RecordTurn DEF SessionInv, TypeOK
<1>2. result = "Running" /\ output \in Outputs
  BY DEF SessionInv, TypeOK
<1>3. result' \in {output, "Dropped"} /\ input' = input
  BY DEF Return
<1>. QED  BY <1>1, <1>2, <1>3 DEF Promise!Commit

\* Each step of the runtime is a step of SessionSpec or invisible to it.
LEMMA PromiseStep ==
    TypeOK /\ SessionInv /\ [Next]_vars => [Promise!Next]_(Promise!vars)
<1>. SUFFICES ASSUME TypeOK, SessionInv, [Next]_vars
              PROVE  Promise!Next \/ UNCHANGED Promise!vars
  OBVIOUS
<1>. USE DEF Promise!Next
<1>1. CASE RejectTurn
  BY <1>1 DEF RejectTurn, Promise!Refuse, Failures
<1>2. CASE StartTurn
  BY <1>2 DEF StartTurn, SessionInv, Promise!Accept
<1>3. CASE LoadOk
  BY <1>3, InvisibleStep DEF LoadOk
<1>4. CASE LoadErr
  BY <1>4, RefusedStep DEF LoadErr, Failures, StoreFailures
<1>5. CASE ChatErr
  BY <1>5, FailedStep DEF ChatErr, TurnFailures
<1>6. ASSUME NEW b \in BOOLEAN, ChatFinal(b)
      PROVE  UNCHANGED Promise!vars
  BY <1>6, InvisibleStep DEF ChatFinal
<1>7. ASSUME NEW b \in BOOLEAN, ChatOverBudget(b)
      PROVE  Promise!Refuse
  BY <1>7, FailedStep DEF ChatOverBudget, TurnFailures
<1>8. ASSUME NEW b \in BOOLEAN, NEW cs \in CallLists, ChatCalls(b, cs)
      PROVE  UNCHANGED Promise!vars
  BY <1>8, InvisibleStep DEF ChatCalls
<1>9. CASE BeginCall
  BY <1>9, InvisibleStep DEF BeginCall
<1>10. CASE RefuseCall
  BY <1>10, FailedStep DEF RefuseCall, TurnFailures
<1>11. CASE NextIteration
  <2>1. CASE iteration < MaxToolIterations
    BY <1>11, <2>1, InvisibleStep DEF NextIteration
  <2>2. CASE ~(iteration < MaxToolIterations)
    BY <1>11, <2>2, FailedStep DEF NextIteration, TurnFailures
  <2>. QED  BY <2>1, <2>2
<1>12. CASE ExecuteContinue
  BY <1>12, InvisibleStep DEF ExecuteContinue
<1>13. CASE ExecuteComplete
  BY <1>13, InvisibleStep DEF ExecuteComplete
<1>14. CASE ExecuteErr
  BY <1>14, FailedStep DEF ExecuteErr, TurnFailures
<1>15. CASE SaveOk
  BY <1>15, SavedStep DEF SaveOk
<1>16. CASE SaveErr
  BY <1>16, RefusedStep DEF SaveErr, Failures, StoreFailures
<1>17. CASE Drop
  <2>1. CASE stored' = stored
    <3>1. pc # "idle"
      BY <1>17 DEF Drop, Awaits
    <3>. QED  BY <1>17, <2>1, <3>1 DEF Drop, Return, SessionInv, Promise!Abandon
  <2>2. CASE stored' # stored
    <3>1. pc = "save" /\ stored' = session
      BY <1>17, <2>2 DEF Drop
    <3>. QED  BY <1>17, <3>1, SavedStep DEF Drop
  <2>. QED  BY <2>1, <2>2
<1>18. CASE ResetSession
  BY <1>18 DEF ResetSession, SessionInv, DefaultSession, Promise!Reset, Promise!EmptySession
<1>19. CASE UNCHANGED vars
  BY <1>19, InvisibleStep DEF vars
<1>. QED
  BY <1>1, <1>2, <1>3, <1>4, <1>5, <1>6, <1>7, <1>8, <1>9, <1>10, <1>11,
     <1>12, <1>13, <1>14, <1>15, <1>16, <1>17, <1>18, <1>19
     DEF Next, TurnStep

\* Both hold in every state.
LEMMA TypeAndSession == Spec => [](TypeOK /\ SessionInv)
<1>1. Init => TypeOK /\ LoopInv /\ SessionInv
  BY InitTypeLoop, InitSession
<1>2. TypeOK /\ LoopInv /\ SessionInv /\ [Next]_vars
         => (TypeOK /\ LoopInv /\ SessionInv)'
  BY StepTypeLoop, StepSession
<1>. QED  BY <1>1, <1>2, PTL DEF Spec

(***************************************************************************)
(* The runtime implements SessionSpec, for all limits and any behaviour of  *)
(* the model, the tools and the store, and wherever turns are dropped.      *)
(***************************************************************************)
THEOREM RuntimeKeepsPromise == Spec => KeepsPromise
<1>1. Init => Promise!Init
  BY DEF Init, DefaultSession, Promise!Init, Promise!EmptySession
<1>. QED  BY <1>1, TypeAndSession, PromiseStep, PTL
             DEF Spec, KeepsPromise, Promise!Spec

(***************************************************************************)
(* Whole turns.                                                            *)
(***************************************************************************)

\* One more turn keeps a session of whole turns one.
LEMMA WithTurnWhole ==
    ASSUME NEW s \in Sessions, WholeTurns(s), NEW i \in Inputs, NEW o \in Outputs
    PROVE  WholeTurns(Promise!WithTurn(s, i, o))
<1>. DEFINE pair == << <<"Input", i>>, <<"Output", o>> >>
            w == Promise!WithTurn(s, i, o)
<1>1. s.history \in Seq(Entries) /\ s.turn_index \in Nat
  BY DEF Sessions
<1>2. /\ pair \in Seq(Entries) /\ Len(pair) = 2
      /\ pair[1] = <<"Input", i>> /\ pair[2] = <<"Output", o>>
  BY DEF Entries
<1>3. w.history = s.history \o pair /\ w.turn_index = s.turn_index + 1
  BY DEF Promise!WithTurn
<1>4. Len(s.history) = 2 * s.turn_index
  BY DEF WholeTurns
<1>. HIDE DEF pair, w
<1>5. /\ w.history \in Seq(Entries)
      /\ Len(w.history) = 2 * s.turn_index + 2
      /\ \A k \in 1 .. 2 * s.turn_index + 2 :
            w.history[k] = IF k <= 2 * s.turn_index THEN s.history[k]
                                                    ELSE pair[k - 2 * s.turn_index]
  <2>. DEFINE h == s.history
  <2>1. h \in Seq(Entries)
    BY <1>1
  <2>. HIDE DEF h
  <2>2. /\ h \o pair \in Seq(Entries)
        /\ Len(h \o pair) = Len(h) + Len(pair)
        /\ \A k \in 1 .. Len(h) + Len(pair) :
              (h \o pair)[k] = IF k <= Len(h) THEN h[k] ELSE pair[k - Len(h)]
    BY <1>2, <2>1, ConcatProperties
  <2>3. w.history = h \o pair /\ Len(h) = 2 * s.turn_index
    BY <1>3, <1>4 DEF h
  <2>4. Len(h) + Len(pair) = 2 * s.turn_index + 2
    BY <1>2, <2>3
  <2>. QED  BY <2>2, <2>3, <2>4 DEF h
<1>6. DOMAIN w.history = 1 .. 2 * s.turn_index + 2
  BY <1>5
<1>7. ASSUME NEW k \in DOMAIN w.history
      PROVE  w.history[k][1] = IF k % 2 = 1 THEN "Input" ELSE "Output"
  <2>1. CASE k <= 2 * s.turn_index
    <3>1. k \in DOMAIN s.history
      BY <1>1, <1>4, <1>6, <2>1
    <3>. QED  BY <1>5, <1>6, <2>1, <3>1 DEF WholeTurns
  <2>2. CASE k = 2 * s.turn_index + 1
    <3>1. w.history[k] = <<"Input", i>>
      <4>1. k - 2 * s.turn_index = 1 /\ ~(k <= 2 * s.turn_index)
        BY <1>1, <2>2
      <4>2. w.history[k] = pair[1]
        BY <1>5, <1>6, <4>1
      <4>. QED  BY <1>2, <4>2
    <3>2. k % 2 = 1
      BY <1>1, <2>2
    <3>. QED  BY <3>1, <3>2
  <2>3. CASE k = 2 * s.turn_index + 2
    <3>1. w.history[k] = <<"Output", o>>
      <4>1. k - 2 * s.turn_index = 2 /\ ~(k <= 2 * s.turn_index)
        BY <1>1, <2>3
      <4>2. w.history[k] = pair[2]
        BY <1>5, <1>6, <4>1
      <4>. QED  BY <1>2, <4>2
    <3>2. k % 2 = 0
      BY <1>1, <2>3
    <3>. QED  BY <3>1, <3>2
  <2>. QED  BY <1>1, <1>6, <2>1, <2>2, <2>3
<1>8. Len(w.history) = 2 * w.turn_index
  BY <1>1, <1>3, <1>5
<1>9. WholeTurns(w)
  BY <1>7, <1>8 DEF WholeTurns
<1>. QED  BY <1>9 DEF w

\* The default session has no turns.
LEMMA InitWhole == Init => StoredWholeTurns
BY DEF Init, StoredWholeTurns, WholeTurns, DefaultSession

\* Whole turns are all that SessionSpec lets the session grow by.
LEMMA StepWhole ==
    TypeOK /\ StoredWholeTurns /\ [Promise!Next]_(Promise!vars) => StoredWholeTurns'
<1>. SUFFICES ASSUME TypeOK, StoredWholeTurns, [Promise!Next]_(Promise!vars)
              PROVE  StoredWholeTurns'
  OBVIOUS
<1>1. CASE stored' = stored
  BY <1>1 DEF StoredWholeTurns, WholeTurns
<1>2. CASE Promise!Commit
  <2>1. PICK o \in Outputs : stored' = Promise!WithTurn(stored, input, o)
    BY <1>2 DEF Promise!Commit
  <2>2. WholeTurns(Promise!WithTurn(stored, input, o))
    BY WithTurnWhole DEF TypeOK, StoredWholeTurns
  <2>3. StoredWholeTurns' = WholeTurns(stored')
    BY DEF StoredWholeTurns, WholeTurns
  <2>. QED  BY <2>1, <2>2, <2>3
<1>3. CASE Promise!Reset
  BY <1>3 DEF Promise!Reset, Promise!EmptySession, StoredWholeTurns, WholeTurns
<1>. QED
  BY <1>1, <1>2, <1>3 DEF Promise!Next, Promise!Accept, Promise!Refuse,
     Promise!Abandon, Promise!vars

(***************************************************************************)
(* The stored session is a sequence of whole turns, for all limits: no      *)
(* failed or dropped turn leaves an input without its output behind.        *)
(***************************************************************************)
THEOREM SessionHoldsWholeTurns == Spec => []StoredWholeTurns
<1>1. TypeOK /\ SessionInv /\ StoredWholeTurns /\ [Next]_vars => StoredWholeTurns'
  BY PromiseStep, StepWhole
<1>. QED  BY <1>1, TypeAndSession, InitWhole, PTL DEF Spec

(***************************************************************************)
(* The conversation.                                                       *)
(***************************************************************************)

\* In conversation m the response at position a is the last one, its first
\* calls are answered in order, and todo are the calls still to be answered;
\* every earlier response was answered in full before it.
AnsweredUpTo(m, a, todo) ==
    /\ a \in DOMAIN m
    /\ m[a].role = "assistant"
    /\ Len(m) - a + Len(todo) = Len(m[a].calls)
    /\ \A j \in a + 1 .. Len(m) : m[j] = ToolMessage(m[a].calls[j - a])
    /\ \A k \in DOMAIN todo : todo[k] = m[a].calls[Len(m) - a + k]
    /\ \A i \in 1 .. a - 1 : m[i].role = "assistant" =>
          \A k \in DOMAIN m[i].calls :
              i + k < a /\ m[i + k] = ToolMessage(m[i].calls[k])

\* Between two requests the last response is answered up to the pending calls.
ConversationInv ==
    /\ pc \in {"chat", "dispatch", "execute"} => RepliesSolicited(messages)
    /\ pc = "chat" => CallsAnswered(messages)
    /\ pc \in {"dispatch", "execute"} =>
          \E a \in DOMAIN messages : AnsweredUpTo(messages, a, calls)

\* The calls of a message are a list of calls.
LEMMA MessageCalls ==
    ASSUME NEW m \in Seq(Messages), NEW i \in DOMAIN m
    PROVE  /\ m[i].calls \in Seq(Calls)
           /\ Len(m[i].calls) \in Nat
           /\ DOMAIN m[i].calls = 1 .. Len(m[i].calls)
<1>1. m[i] \in Messages
  BY ElementOfSeq
<1>2. m[i].calls \in Seq(Calls)
  BY <1>1 DEF Messages
<1>. QED  BY <1>2, LenProperties

\* A response that is pushed is the last one, and none of its calls is answered.
LEMMA PushResponse ==
    ASSUME NEW m \in Seq(Messages), NEW cs \in Seq(Calls),
           CallsAnswered(m), RepliesSolicited(m)
    PROVE  LET w == Append(m, AssistantMessage(cs))
           IN  RepliesSolicited(w) /\ AnsweredUpTo(w, Len(m) + 1, cs)
<1>. DEFINE x == AssistantMessage(cs)
            w == Append(m, x)
            n == Len(m)
<1>1. x \in Messages /\ x.role = "assistant" /\ x.calls = cs
  BY DEF AssistantMessage, Message, Messages
<1>2. n \in Nat /\ DOMAIN m = 1 .. n
  OBVIOUS
<1>. HIDE DEF x
<1>3. /\ w \in Seq(Messages) /\ Len(w) = n + 1 /\ DOMAIN w = 1 .. n + 1
      /\ w[n + 1] = x
      /\ \A i \in 1 .. n : w[i] = m[i]
  BY <1>1, AppendProperties
<1>. HIDE DEF w, n
<1>4. RepliesSolicited(w)
  <2>. SUFFICES ASSUME NEW j \in DOMAIN w, w[j].role = "tool"
                PROVE  \E i \in 1 .. j - 1 :
                          w[i].role = "assistant" /\ j - i \in DOMAIN w[i].calls
    BY DEF RepliesSolicited
  <2>1. j \in DOMAIN m /\ m[j].role = "tool"
    BY <1>1, <1>2, <1>3
  <2>2. PICK i \in 1 .. j - 1 : m[i].role = "assistant" /\ j - i \in DOMAIN m[i].calls
    BY <2>1 DEF RepliesSolicited
  <2>3. i \in 1 .. n
    BY <1>2, <2>1, <2>2
  <2>. QED  BY <1>3, <2>2, <2>3
<1>5. ASSUME NEW i \in 1 .. n, w[i].role = "assistant", NEW k \in DOMAIN w[i].calls
      PROVE  i + k < n + 1 /\ w[i + k] = ToolMessage(w[i].calls[k])
  <2>1. w[i] = m[i] /\ i \in DOMAIN m
    BY <1>2, <1>3
  <2>2. i + k \in DOMAIN m /\ m[i + k] = ToolMessage(m[i].calls[k])
    BY <1>5, <2>1 DEF CallsAnswered
  <2>. QED  BY <1>2, <1>3, <2>1, <2>2
<1>6. AnsweredUpTo(w, n + 1, cs)
  <2>1. Len(w) - (n + 1) = 0 /\ Len(cs) \in Nat
    BY <1>2, <1>3
  <2>2. \A k \in DOMAIN cs : k \in Nat /\ cs[k] = x.calls[0 + k]
    BY <1>1
  <2>. QED  BY <1>1, <1>2, <1>3, <1>5, <2>1, <2>2 DEF AnsweredUpTo
<1>. QED  BY <1>4, <1>6 DEF w, x, n

\* The reply to the first pending call answers it, and it alone.
LEMMA PushReply ==
    ASSUME NEW m \in Seq(Messages), NEW a \in DOMAIN m, NEW todo \in Seq(Calls),
           todo # <<>>, RepliesSolicited(m), AnsweredUpTo(m, a, todo)
    PROVE  LET w == Append(m, ToolMessage(Head(todo)))
           IN  RepliesSolicited(w) /\ AnsweredUpTo(w, a, Tail(todo))
<1>. DEFINE x == ToolMessage(Head(todo))
            w == Append(m, x)
            n == Len(m)
            t == Tail(todo)
<1>1. /\ Head(todo) \in Calls /\ Head(todo) = todo[1]
      /\ t \in Seq(Calls) /\ Len(todo) \in Nat \ {0} /\ Len(t) = Len(todo) - 1
      /\ \A k \in 1 .. Len(t) : t[k] = todo[k + 1]
  BY HeadTailProperties
<1>2. x \in Messages /\ x.role = "tool"
  BY <1>1 DEF ToolMessage, Message, Messages
<1>3. n \in Nat /\ DOMAIN m = 1 .. n
  OBVIOUS
<1>. HIDE DEF x, t
<1>4. /\ w \in Seq(Messages) /\ Len(w) = n + 1 /\ DOMAIN w = 1 .. n + 1
      /\ w[n + 1] = x
      /\ \A i \in 1 .. n : w[i] = m[i]
  BY <1>2, AppendProperties
<1>. HIDE DEF w, n
<1>5. /\ w[a] = m[a] /\ a \in 1 .. n /\ m[a].role = "assistant"
      /\ m[a].calls \in Seq(Calls)
      /\ n - a + Len(todo) = Len(m[a].calls)
  BY <1>3, <1>4, MessageCalls DEF AnsweredUpTo, n
<1>6. x = ToolMessage(m[a].calls[n - a + 1])
  <2>1. 1 \in DOMAIN todo
    BY <1>1
  <2>. QED  BY <1>1, <2>1 DEF AnsweredUpTo, x, n
<1>7. RepliesSolicited(w)
  <2>. SUFFICES ASSUME NEW j \in DOMAIN w, w[j].role = "tool"
                PROVE  \E i \in 1 .. j - 1 :
                          w[i].role = "assistant" /\ j - i \in DOMAIN w[i].calls
    BY DEF RepliesSolicited
  <2>1. CASE j \in 1 .. n
    <3>1. PICK i \in 1 .. j - 1 : m[i].role = "assistant" /\ j - i \in DOMAIN m[i].calls
      BY <1>3, <1>4, <2>1 DEF RepliesSolicited
    <3>2. i \in 1 .. n
      BY <1>3, <2>1, <3>1
    <3>. QED  BY <1>4, <3>1, <3>2
  <2>2. CASE j = n + 1
    <3>1. j - a \in DOMAIN w[a].calls /\ a \in 1 .. j - 1
      BY <1>1, <1>3, <1>5, <2>2
    <3>. QED  BY <1>5, <3>1
  <2>. QED  BY <1>3, <1>4, <2>1, <2>2
<1>8. ASSUME NEW j \in a + 1 .. n + 1
      PROVE  w[j] = ToolMessage(w[a].calls[j - a])
  <2>1. CASE j \in 1 .. n
    BY <1>3, <1>4, <1>5, <2>1 DEF AnsweredUpTo, n
  <2>2. CASE j = n + 1
    BY <1>3, <1>4, <1>5, <1>6, <2>2
  <2>. QED  BY <1>3, <1>5, <2>1, <2>2
<1>9. ASSUME NEW k \in DOMAIN t
      PROVE  t[k] = w[a].calls[n + 1 - a + k]
  <2>1. k \in 1 .. Len(t) /\ k + 1 \in DOMAIN todo
    BY <1>1
  <2>2. todo[k + 1] = m[a].calls[n - a + (k + 1)]
    BY <2>1 DEF AnsweredUpTo, n
  <2>3. n - a + (k + 1) = n + 1 - a + k
    BY <1>3, <1>5, <2>1
  <2>. QED  BY <1>1, <1>5, <2>1, <2>2, <2>3
<1>10. ASSUME NEW i \in 1 .. a - 1, w[i].role = "assistant", NEW k \in DOMAIN w[i].calls
       PROVE  i + k < a /\ w[i + k] = ToolMessage(w[i].calls[k])
  <2>1. i \in 1 .. n /\ w[i] = m[i]
    BY <1>3, <1>4, <1>5
  <2>2. i + k < a /\ m[i + k] = ToolMessage(m[i].calls[k])
    BY <1>10, <2>1 DEF AnsweredUpTo
  <2>3. k \in Nat \ {0}
    <3>1. k \in 1 .. Len(m[i].calls) /\ Len(m[i].calls) \in Nat
      BY <1>3, <2>1, MessageCalls
    <3>. QED  BY <3>1
  <2>. QED  BY <1>3, <1>4, <1>5, <2>1, <2>2, <2>3
<1>11. AnsweredUpTo(w, a, t)
  <2>1. Len(w) - a + Len(t) = Len(w[a].calls)
    BY <1>1, <1>3, <1>4, <1>5
  <2>2. /\ a \in DOMAIN w /\ w[a].role = "assistant"
        /\ \A j \in a + 1 .. Len(w) : w[j] = ToolMessage(w[a].calls[j - a])
        /\ \A k \in DOMAIN t : t[k] = w[a].calls[Len(w) - a + k]
    BY <1>3, <1>4, <1>5, <1>8, <1>9
  <2>. QED  BY <1>10, <2>1, <2>2 DEF AnsweredUpTo
<1>. QED  BY <1>7, <1>11 DEF w, x, t

\* When no call is pending, every response is answered in full.
LEMMA NothingPending ==
    ASSUME NEW m \in Seq(Messages), NEW a \in DOMAIN m, AnsweredUpTo(m, a, <<>>)
    PROVE  CallsAnswered(m)
<1>. SUFFICES ASSUME NEW i \in DOMAIN m, m[i].role = "assistant",
                     NEW k \in DOMAIN m[i].calls
              PROVE  i + k \in DOMAIN m /\ m[i + k] = ToolMessage(m[i].calls[k])
  BY DEF CallsAnswered
<1>1. /\ i \in 1 .. Len(m) /\ a \in 1 .. Len(m) /\ Len(m) \in Nat
      /\ m[i].calls \in Seq(Calls) /\ k \in 1 .. Len(m[i].calls)
      /\ Len(m[i].calls) \in Nat
  BY MessageCalls
<1>2. CASE i < a
  <2>1. i \in 1 .. a - 1
    BY <1>1, <1>2
  <2>2. i + k < a /\ m[i + k] = ToolMessage(m[i].calls[k])
    BY <2>1 DEF AnsweredUpTo
  <2>. QED  BY <1>1, <2>2
<1>3. CASE i = a
  <2>1. Len(m) - a = Len(m[a].calls)
    BY <1>1 DEF AnsweredUpTo
  <2>2. i + k \in a + 1 .. Len(m) /\ (i + k) - a = k
    BY <1>1, <1>3, <2>1
  <2>3. m[i + k] = ToolMessage(m[a].calls[(i + k) - a])
    BY <2>2 DEF AnsweredUpTo
  <2>. QED  BY <1>1, <1>3, <2>2, <2>3
<1>4. CASE i > a
  <2>1. m[i] = ToolMessage(m[a].calls[i - a])
    BY <1>1, <1>4 DEF AnsweredUpTo
  <2>. QED  BY <2>1 DEF ToolMessage, Message
<1>. QED  BY <1>1, <1>2, <1>3, <1>4

\* Where no request is ahead in this turn, nothing is claimed of the messages.
LEMMA NoRequestAhead ==
    ASSUME pc' \in {"idle", "load", "save"}
    PROVE  ConversationInv'
BY DEF ConversationInv

\* A turn that fails asks the model nothing more.
LEMMA FailConversation ==
    ASSUME NEW r, NEW es, Fail(r, es)
    PROVE  ConversationInv'
BY NoRequestAhead DEF Fail, Return

\* Every step keeps the conversation well formed.
LEMMA StepConversation ==
    TypeOK /\ LoopInv /\ ConversationInv /\ [Next]_vars => ConversationInv'
<1>. SUFFICES ASSUME TypeOK, LoopInv, ConversationInv, [Next]_vars
              PROVE  ConversationInv'
  OBVIOUS
<1>1. CASE RejectTurn
  BY <1>1, NoRequestAhead DEF RejectTurn
<1>2. CASE StartTurn
  BY <1>2, NoRequestAhead DEF StartTurn
<1>3. CASE LoadOk
  <2>1. /\ DOMAIN messages' = 1 .. 2 /\ pc' = "chat"
        /\ messages'[1].role = "system" /\ messages'[2].role = "user"
    BY <1>3 DEF LoadOk, Message
  <2>2. CallsAnswered(messages') /\ RepliesSolicited(messages')
    BY <2>1 DEF CallsAnswered, RepliesSolicited
  <2>. QED  BY <2>1, <2>2 DEF ConversationInv, CallsAnswered, RepliesSolicited
<1>4. CASE LoadErr
  BY <1>4, NoRequestAhead DEF LoadErr, Return
<1>5. CASE ChatErr
  BY <1>5, FailConversation DEF ChatErr
<1>6. ASSUME NEW b \in BOOLEAN, ChatFinal(b)
      PROVE  ConversationInv'
  BY <1>6, NoRequestAhead DEF ChatFinal
<1>7. ASSUME NEW b \in BOOLEAN, ChatOverBudget(b)
      PROVE  ConversationInv'
  BY <1>7, FailConversation DEF ChatOverBudget
<1>8. ASSUME NEW b \in BOOLEAN, NEW cs \in CallLists, ChatCalls(b, cs)
      PROVE  ConversationInv'
  <2>1. /\ messages \in Seq(Messages) /\ cs \in Seq(Calls)
        /\ CallsAnswered(messages) /\ RepliesSolicited(messages)
    BY <1>8, CallListType DEF ChatCalls, TypeOK, ConversationInv
  <2>2. /\ messages' = Append(messages, AssistantMessage(cs))
        /\ calls' = cs /\ pc' = "dispatch"
    BY <1>8 DEF ChatCalls
  <2>3. /\ RepliesSolicited(messages')
        /\ AnsweredUpTo(messages', Len(messages) + 1, calls')
    BY <2>1, <2>2, PushResponse
  <2>4. Len(messages) + 1 \in DOMAIN messages'
    BY <2>3 DEF AnsweredUpTo
  <2>. QED
    BY <2>2, <2>3, <2>4 DEF ConversationInv, RepliesSolicited, AnsweredUpTo
<1>9. CASE BeginCall
  <2>1. /\ pc = "dispatch" /\ pc' = "execute"
        /\ messages' = messages /\ calls' = calls
    BY <1>9 DEF BeginCall
  <2>. QED  BY <2>1 DEF ConversationInv, RepliesSolicited, AnsweredUpTo
<1>10. CASE RefuseCall
  BY <1>10, FailConversation DEF RefuseCall
<1>11. CASE NextIteration
  <2>1. CASE iteration < MaxToolIterations
    <3>1. /\ calls = <<>> /\ messages' = messages /\ pc = "dispatch" /\ pc' = "chat"
      BY <1>11, <2>1 DEF NextIteration
    <3>2. PICK a \in DOMAIN messages : AnsweredUpTo(messages, a, <<>>)
      BY <3>1 DEF ConversationInv
    <3>3. CallsAnswered(messages) /\ RepliesSolicited(messages)
      BY <3>1, <3>2, NothingPending DEF TypeOK, ConversationInv
    <3>. QED  BY <3>1, <3>3 DEF ConversationInv, CallsAnswered, RepliesSolicited
  <2>2. CASE ~(iteration < MaxToolIterations)
    BY <1>11, <2>2, FailConversation DEF NextIteration
  <2>. QED  BY <2>1, <2>2
<1>12. CASE ExecuteContinue
  <2>1. /\ pc = "execute" /\ calls # <<>>
        /\ messages \in Seq(Messages) /\ calls \in Seq(Calls)
        /\ messages' = Append(messages, ToolMessage(Head(calls)))
        /\ calls' = Tail(calls) /\ pc' = "dispatch"
    BY <1>12 DEF ExecuteContinue, LoopInv, TypeOK
  <2>2. PICK a \in DOMAIN messages : AnsweredUpTo(messages, a, calls)
    BY <2>1 DEF ConversationInv
  <2>3. RepliesSolicited(messages') /\ AnsweredUpTo(messages', a, calls')
    BY <2>1, <2>2, PushReply DEF ConversationInv
  <2>4. a \in DOMAIN messages'
    BY <2>3 DEF AnsweredUpTo
  <2>. QED
    BY <2>1, <2>3, <2>4 DEF ConversationInv, RepliesSolicited, AnsweredUpTo
<1>13. CASE ExecuteComplete
  BY <1>13, NoRequestAhead DEF ExecuteComplete
<1>14. CASE ExecuteErr
  BY <1>14, FailConversation DEF ExecuteErr
<1>15. CASE SaveOk
  BY <1>15, NoRequestAhead DEF SaveOk, Return
<1>16. CASE SaveErr
  BY <1>16, NoRequestAhead DEF SaveErr, Return
<1>17. CASE Drop
  BY <1>17, NoRequestAhead DEF Drop, Return
<1>18. CASE ResetSession
  BY <1>18, NoRequestAhead DEF ResetSession
<1>19. CASE UNCHANGED vars
  <2>1. pc' = pc /\ messages' = messages /\ calls' = calls
    BY <1>19 DEF vars
  <2>. QED
    BY <2>1 DEF ConversationInv, CallsAnswered, RepliesSolicited, AnsweredUpTo
<1>. QED
  BY <1>1, <1>2, <1>3, <1>4, <1>5, <1>6, <1>7, <1>8, <1>9, <1>10, <1>11,
     <1>12, <1>13, <1>14, <1>15, <1>16, <1>17, <1>18, <1>19
     DEF Next, TurnStep

(***************************************************************************)
(* Every request to the model carries a conversation in which each call of  *)
(* each earlier response is answered once, in order and before the next     *)
(* response, however many calls and iterations the limits allow.            *)
(***************************************************************************)
THEOREM ModelGetsWholeConversations == Spec => []ConversationWellFormed
<1>1. Init => ConversationInv
  BY DEF Init, ConversationInv
<1>2. ConversationInv => ConversationWellFormed
  BY DEF ConversationInv, ConversationWellFormed
<1>3. Spec => [](TypeOK /\ LoopInv)
  BY InitTypeLoop, StepTypeLoop, PTL DEF Spec
<1>. QED  BY <1>1, <1>2, <1>3, StepConversation, PTL DEF Spec

(***************************************************************************)
(* The progress stream.                                                    *)
(***************************************************************************)

\* Event e may come next in a stream whose last event is l.
MayFollow(l, e) ==
    /\ e.kind # "TurnStarted"
    /\ l.kind \notin TerminalKinds
    /\ e.kind \in {"ToolFinished", "ToolFailed"} => l = Event("ToolStarted", e.tool)
    /\ l.kind = "ToolStarted" => e.kind \in {"ToolFinished", "ToolFailed"}
    /\ l = Event("ToolFinished", <<CompleteTask>>) => e.kind = "TurnCompleted"

\* The stream of a turn that runs: well formed, and its last event l fits the
\* place the turn is suspended at.
FitsPlace(p, cs, l) ==
    /\ p = "load" => l.kind = "TurnStarted"
    /\ p \in {"load", "chat", "dispatch"} =>
          /\ l.kind \in {"TurnStarted", "AssistantMessage", "ToolFinished"}
          /\ l # Event("ToolFinished", <<CompleteTask>>)
    /\ p = "execute" => l = Event("ToolStarted", <<Head(cs).name>>)
    /\ p = "save" => l.kind \in {"TurnStarted", "AssistantMessage", "ToolFinished"}

\* Where tools start in stream p.
StartedAt(p) == {i \in DOMAIN p : p[i].kind = "ToolStarted"}

\* One more event that may follow keeps the stream well formed.
LEMMA PushEvent ==
    ASSUME NEW p \in Seq(Events), p # <<>>, StreamWellFormed(p),
           NEW e \in Events, MayFollow(p[Len(p)], e)
    PROVE  /\ p \o <<e>> \in Seq(Events) /\ p \o <<e>> # <<>>
           /\ Len(p \o <<e>>) = Len(p) + 1
           /\ (p \o <<e>>)[Len(p \o <<e>>)] = e
           /\ StreamWellFormed(p \o <<e>>)
<1>. DEFINE w == Append(p, e)
            n == Len(p)
<1>1. n \in Nat \ {0} /\ DOMAIN p = 1 .. n /\ p \o <<e>> = w
  BY EmptySeq, LenProperties, AppendIsConcat
<1>2. /\ w \in Seq(Events) /\ Len(w) = n + 1 /\ DOMAIN w = 1 .. n + 1
      /\ w[n + 1] = e /\ w # <<>>
      /\ \A i \in 1 .. n : w[i] = p[i]
  BY AppendProperties
<1>. HIDE DEF w
<1>3. MayFollow(w[n], w[n + 1])
  <2>1. w[n] = p[Len(p)] /\ w[n + 1] = e
    BY <1>1, <1>2
  <2>. QED  BY <2>1
<1>. HIDE DEF n
<1>4. ASSUME NEW i \in 1 .. n + 1
      PROVE  /\ w[i].kind = "TurnStarted" <=> i = 1
             /\ w[i].kind \in TerminalKinds => i = n + 1
             /\ w[i].kind \in {"ToolFinished", "ToolFailed"} =>
                   w[i - 1] = Event("ToolStarted", w[i].tool)
             /\ (w[i].kind = "ToolStarted" /\ i < n + 1) =>
                   w[i + 1].kind \in {"ToolFinished", "ToolFailed"}
             /\ (w[i] = Event("ToolFinished", <<CompleteTask>>) /\ i < n + 1) =>
                   w[i + 1].kind = "TurnCompleted"
  <2>1. CASE i = n + 1
    <3>1. w[i] = e /\ w[i - 1] = w[n] /\ i # 1
      BY <1>1, <1>2, <2>1
    <3>. QED  BY <1>1, <1>2, <1>3, <2>1, <3>1 DEF MayFollow
  <2>2. CASE i = n
    <3>1. w[i] = p[n] /\ n \in DOMAIN p /\ (i # 1 => w[i - 1] = p[n - 1])
      BY <1>1, <1>2, <2>2
    <3>2. /\ p[n].kind = "TurnStarted" <=> n = 1
          /\ p[n].kind \in {"ToolFinished", "ToolFailed"} =>
                p[n - 1] = Event("ToolStarted", p[n].tool)
      BY <3>1 DEF StreamWellFormed
    <3>3. w[i].kind \in {"ToolFinished", "ToolFailed"} => i # 1
      BY <2>2, <3>1, <3>2
    <3>. QED  BY <1>1, <1>2, <1>3, <2>2, <3>1, <3>2, <3>3 DEF MayFollow
  <2>3. CASE i \in 1 .. n - 1
    <3>1. /\ w[i] = p[i] /\ w[i + 1] = p[i + 1] /\ i \in DOMAIN p /\ i < Len(p)
          /\ (i # 1 => w[i - 1] = p[i - 1])
      BY <1>1, <1>2, <2>3 DEF n
    <3>2. /\ p[i].kind = "TurnStarted" <=> i = 1
          /\ p[i].kind \in TerminalKinds => i = Len(p)
          /\ p[i].kind \in {"ToolFinished", "ToolFailed"} =>
                p[i - 1] = Event("ToolStarted", p[i].tool)
          /\ p[i].kind = "ToolStarted" => p[i + 1].kind \in {"ToolFinished", "ToolFailed"}
          /\ p[i] = Event("ToolFinished", <<CompleteTask>>) =>
                p[i + 1].kind = "TurnCompleted"
      BY <3>1 DEF StreamWellFormed
    <3>3. w[i].kind \in {"ToolFinished", "ToolFailed"} => i # 1
      BY <3>1, <3>2
    <3>. QED  BY <1>1, <2>3, <3>1, <3>2, <3>3 DEF n
  <2>. QED  BY <1>1, <2>1, <2>2, <2>3
<1>5. StreamWellFormed(w)
  BY <1>2, <1>4 DEF StreamWellFormed
<1>. QED  BY <1>1, <1>2, <1>5 DEF n

\* One more event is at most one more start.
LEMMA PushCounts ==
    ASSUME NEW p \in Seq(Events), NEW e \in Events
    PROVE  /\ IsFiniteSet(StartedAt(p)) /\ Cardinality(StartedAt(p)) \in Nat
           /\ Cardinality(StartedAt(p \o <<e>>)) \in Nat
           /\ Cardinality(StartedAt(p \o <<e>>)) <= Cardinality(StartedAt(p)) + 1
           /\ e.kind # "ToolStarted" => StartedAt(p \o <<e>>) = StartedAt(p)
<1>. DEFINE w == Append(p, e)
            n == Len(p)
<1>1. n \in Nat /\ DOMAIN p = 1 .. n /\ p \o <<e>> = w
  BY LenProperties, AppendIsConcat
<1>2. /\ DOMAIN w = 1 .. n + 1 /\ w[n + 1] = e
      /\ \A i \in 1 .. n : w[i] = p[i]
  BY AppendProperties
<1>. HIDE DEF w, n
<1>3. StartedAt(w) = IF e.kind = "ToolStarted" THEN StartedAt(p) \cup {n + 1}
                                               ELSE StartedAt(p)
  <2>1. ASSUME NEW i
        PROVE  i \in StartedAt(w) <=>
                  i \in StartedAt(p) \/ (e.kind = "ToolStarted" /\ i = n + 1)
    <3>1. i \in 1 .. n + 1 <=> i \in 1 .. n \/ i = n + 1
      BY <1>1
    <3>2. n + 1 \notin 1 .. n
      BY <1>1
    <3>. QED  BY <1>1, <1>2, <3>1, <3>2 DEF StartedAt
  <2>. QED  BY <2>1
<1>4. IsFiniteSet(StartedAt(p)) /\ Cardinality(StartedAt(p)) \in Nat
  <2>1. IsFiniteSet(1 .. n)
    BY <1>1, FS_Interval
  <2>2. StartedAt(p) \subseteq 1 .. n
    BY <1>1 DEF StartedAt
  <2>. QED  BY <2>1, <2>2, FS_Subset, FS_CardinalityType
<1>5. n + 1 \notin StartedAt(p)
  BY <1>1 DEF StartedAt
<1>6. Cardinality(StartedAt(p) \cup {n + 1}) = Cardinality(StartedAt(p)) + 1
  BY <1>4, <1>5, FS_AddElement
<1>7. /\ Cardinality(StartedAt(w)) \in Nat
      /\ Cardinality(StartedAt(w)) <= Cardinality(StartedAt(p)) + 1
      /\ e.kind # "ToolStarted" => StartedAt(w) = StartedAt(p)
  BY <1>3, <1>4, <1>6
<1>. QED  BY <1>1, <1>4, <1>7, Zenon

LastEvent == progress[Len(progress)]

\* The stream and the place of the turn agree, no more tools were started
\* than counted, and the stream of a turn that is over tells how it ended.
ProgressInv ==
    /\ pc \in {"idle", "load"} => tool_calls = 0
    /\ Cardinality(StartedAt(progress)) <= MaxToolCalls
    /\ pc # "idle" => Cardinality(StartedAt(progress)) <= tool_calls
    /\ ~listening => progress = <<>>
    /\ StreamWellFormed(progress)
    /\ listening /\ pc # "idle" => progress # <<>> /\ FitsPlace(pc, calls, LastEvent)
    /\ TerminalEventMatchesResult

\* Stream p, of which nothing is sent to a caller that does not listen.
StreamOf(p) ==
    /\ p \in Seq(Events)
    /\ StreamWellFormed(p)
    /\ IF listening THEN p # <<>> ELSE p = <<>>

\* What emit_progress makes of stream p and event e.
Sent(p, e) == IF listening THEN p \o <<e>> ELSE p

\* Sending an event that may follow.
LEMMA SendEvent ==
    ASSUME NEW p, StreamOf(p), NEW e \in Events,
           listening => MayFollow(p[Len(p)], e)
    PROVE  /\ StreamOf(Sent(p, e))
           /\ listening => Sent(p, e)[Len(Sent(p, e))] = e
           /\ Cardinality(StartedAt(p)) \in Nat
           /\ Cardinality(StartedAt(Sent(p, e))) \in Nat
           /\ Cardinality(StartedAt(Sent(p, e))) <= Cardinality(StartedAt(p)) + 1
           /\ e.kind # "ToolStarted" => StartedAt(Sent(p, e)) = StartedAt(p)
<1>0. p \in Seq(Events) /\ StreamWellFormed(p)
  BY DEF StreamOf
<1>1. CASE listening
  <2>1. Sent(p, e) = p \o <<e>> /\ p # <<>>
    BY <1>1 DEF Sent, StreamOf
  <2>. DEFINE w == p \o <<e>>
  <2>2. /\ w \in Seq(Events) /\ w # <<>> /\ w[Len(w)] = e /\ StreamWellFormed(w)
    BY <1>0, <1>1, <2>1, PushEvent
  <2>3. /\ Cardinality(StartedAt(p)) \in Nat
        /\ Cardinality(StartedAt(w)) \in Nat
        /\ Cardinality(StartedAt(w)) <= Cardinality(StartedAt(p)) + 1
        /\ e.kind # "ToolStarted" => StartedAt(w) = StartedAt(p)
    BY <1>0, PushCounts
  <2>. HIDE DEF w
  <2>4. Sent(p, e) = w
    BY <2>1 DEF w
  <2>. QED  BY <1>1, <2>2, <2>3, <2>4 DEF StreamOf
<1>2. CASE ~listening
  <2>1. Sent(p, e) = p
    BY <1>2 DEF Sent
  <2>2. Cardinality(StartedAt(p)) \in Nat
    BY <1>0, PushCounts
  <2>. QED  BY <1>2, <2>1, <2>2
<1>. QED  BY <1>1, <1>2

\* emit_progress in terms of single events.
LEMMA EmitSends ==
    ASSUME TypeOK, NEW e \in Events, NEW f \in Events
    PROVE  /\ Emit(<<>>) = progress
           /\ Emit(<<e>>) = Sent(progress, e)
           /\ Emit(<<>> \o <<e>>) = Sent(progress, e)
           /\ Emit(<<e>> \o <<f>>) = Sent(Sent(progress, e), f)
<1>1. progress \in Seq(Events) /\ <<e>> \in Seq(Events) /\ <<f>> \in Seq(Events)
  BY DEF TypeOK
<1>2. /\ progress \o <<>> = progress /\ <<>> \o <<e>> = <<e>>
      /\ progress \o (<<e>> \o <<f>>) = (progress \o <<e>>) \o <<f>>
  BY <1>1, ConcatEmptySeq, ConcatAssociative
<1>. QED  BY <1>2, Zenon DEF Emit, Sent

\* The stream of a turn that runs.
LEMMA RunningStream ==
    ASSUME TypeOK, ProgressInv, pc # "idle"
    PROVE  /\ StreamOf(progress)
           /\ listening => FitsPlace(pc, calls, LastEvent)
           /\ Cardinality(StartedAt(progress)) \in Nat
<1>1. Cardinality(StartedAt(progress)) \in Nat
  <2>1. Event("TurnFailed", NoTool) \in Events
    BY EventType, ToolNameType DEF EventKinds
  <2>. QED  BY <2>1, PushCounts DEF TypeOK
<1>. QED  BY <1>1 DEF StreamOf, ProgressInv, TypeOK

\* A turn that ends without a word: the store failed it, or it was dropped.
LEMMA SilentEnd ==
    ASSUME TypeOK, ProgressInv, pc \in Awaits,
           NEW r \in {"LoadFailed", "SaveFailed", "Dropped"}, Return(r, <<>>)
    PROVE  ProgressInv'
<1>1. Event("TurnFailed", NoTool) \in Events
  BY EventType, ToolNameType DEF EventKinds
<1>2. /\ pc # "idle" /\ pc' = "idle" /\ result' = r /\ progress' = progress
      /\ tool_calls' = 0 /\ listening' = listening
  BY <1>1, EmitSends DEF Awaits, Return, ForgetLocals
<1>3. listening => LastKind' \notin TerminalKinds
  <2>. SUFFICES ASSUME listening PROVE LastKind' \notin TerminalKinds
    OBVIOUS
  <2>1. progress # <<>> /\ FitsPlace(pc, calls, LastEvent)
    BY <1>2 DEF ProgressInv
  <2>2. LastEvent.kind \notin TerminalKinds
    BY <2>1 DEF FitsPlace, Event, TerminalKinds, Awaits
  <2>3. LastKind' = LastEvent.kind
    BY <1>2, <2>1 DEF LastKind, LastEvent
  <2>. QED  BY <2>2, <2>3
<1>4. r \notin Outputs /\ r \notin TurnFailures
  BY DEF Outputs, TurnFailures
<1>5. TerminalEventMatchesResult'
  BY <1>2, <1>3, <1>4 DEF TerminalEventMatchesResult, TerminalKinds
<1>. QED  BY <1>2, <1>5 DEF ProgressInv, StreamWellFormed, StartedAt

\* A turn that ends with event e as its last word.
LEMMA LoudEnd ==
    ASSUME TypeOK, NEW p, StreamOf(p), Cardinality(StartedAt(p)) <= MaxToolCalls,
           NEW r, NEW e, NEW es,
           listening => /\ p[Len(p)].kind \notin TerminalKinds \cup {"ToolStarted"}
                        /\ p[Len(p)] = Event("ToolFinished", <<CompleteTask>>) =>
                              r \in Outputs,
           Return(r, es), Emit(es) = Sent(p, e),
           \/ r \in Outputs /\ e = Event("TurnCompleted", NoTool)
           \/ r \in TurnFailures /\ e = Event("TurnFailed", NoTool)
    PROVE  ProgressInv'
<1>1. /\ e \in Events /\ e.kind \in TerminalKinds /\ e.kind # "ToolStarted"
      /\ e.kind = "TurnCompleted" <=> r \in Outputs
      /\ e.kind = "TurnFailed" <=> r \in TurnFailures
  BY EventType, ToolNameType DEF EventKinds, Event, TerminalKinds, Outputs, TurnFailures
<1>2. listening => MayFollow(p[Len(p)], e)
  BY <1>1 DEF MayFollow, TerminalKinds
<1>. DEFINE q == Sent(p, e)
<1>3. /\ StreamOf(q) /\ (listening => q[Len(q)] = e)
      /\ StartedAt(q) = StartedAt(p)
  BY <1>1, <1>2, SendEvent
<1>4. /\ pc' = "idle" /\ result' = r /\ progress' = q
      /\ tool_calls' = 0 /\ listening' = listening
  BY DEF Return, ForgetLocals
<1>. HIDE DEF q
<1>5. listening => LastKind' = e.kind
  BY <1>3, <1>4 DEF LastKind, StreamOf
<1>6. TerminalEventMatchesResult'
  BY <1>1, <1>4, <1>5 DEF TerminalEventMatchesResult
<1>7. StreamWellFormed(progress') /\ Cardinality(StartedAt(progress')) <= MaxToolCalls
  BY <1>3, <1>4 DEF StreamOf
<1>8. ~listening => progress' = <<>>
  BY <1>3, <1>4 DEF StreamOf
<1>. QED  BY <1>4, <1>6, <1>7, <1>8 DEF ProgressInv, StreamWellFormed, StartedAt

\* The turn goes on from p, the stream it has sent, and no tool was started.
LEMMA TurnGoesOn ==
    ASSUME NEW p, StreamOf(p), StartedAt(p) = StartedAt(progress), ProgressInv,
           pc # "idle", pc' \notin {"idle", "load"}, tool_calls' = tool_calls,
           progress' = p, listening' = listening,
           listening => FitsPlace(pc', calls', p[Len(p)])
    PROVE  ProgressInv'
<1>1. /\ StreamWellFormed(progress') /\ StartedAt(progress') = StartedAt(progress)
      /\ IF listening THEN progress' # <<>> ELSE progress' = <<>>
  BY DEF StreamOf
<1>2. TerminalEventMatchesResult'
  BY DEF TerminalEventMatchesResult
<1>3. listening' => FitsPlace(pc', calls', LastEvent')
  BY DEF LastEvent
<1>. QED  BY <1>1, <1>2, <1>3 DEF ProgressInv, StreamWellFormed, StartedAt

\* A response with content is announced, one without is not.
LEMMA AnnounceSends ==
    ASSUME TypeOK, ProgressInv, pc = "chat", NEW b \in BOOLEAN
    PROVE  \E p : /\ StreamOf(p) /\ p = Emit(Announce(b))
                  /\ StartedAt(p) = StartedAt(progress)
                  /\ Emit(Announce(b) \o <<Event("TurnFailed", NoTool)>>)
                        = Sent(p, Event("TurnFailed", NoTool))
                  /\ listening =>
                        /\ p[Len(p)].kind \in {"TurnStarted", "AssistantMessage", "ToolFinished"}
                        /\ p[Len(p)] # Event("ToolFinished", <<CompleteTask>>)
<1>. DEFINE e == Event("AssistantMessage", NoTool)
            f == Event("TurnFailed", NoTool)
<1>1. e \in Events /\ f \in Events
  BY EventType, ToolNameType DEF EventKinds
<1>2. /\ StreamOf(progress)
      /\ listening => /\ LastEvent.kind \in {"TurnStarted", "AssistantMessage", "ToolFinished"}
                      /\ LastEvent # Event("ToolFinished", <<CompleteTask>>)
  BY RunningStream DEF FitsPlace
<1>3. CASE b
  <2>1. Announce(b) = <<>>
    BY <1>3 DEF Announce
  <2>. QED  BY <1>1, <1>2, <2>1, EmitSends DEF LastEvent
<1>4. CASE ~b
  <2>1. Announce(b) = <<e>>
    BY <1>4 DEF Announce
  <2>2. e.kind = "AssistantMessage"
    BY DEF Event
  <2>3. listening => MayFollow(LastEvent, e)
    BY <1>2, <2>2 DEF MayFollow, TerminalKinds
  <2>. DEFINE p == Sent(progress, e)
  <2>4. /\ StreamOf(p) /\ (listening => p[Len(p)] = e)
        /\ StartedAt(p) = StartedAt(progress)
    BY <1>1, <1>2, <2>2, <2>3, SendEvent DEF LastEvent
  <2>5. Emit(Announce(b)) = p /\ Emit(Announce(b) \o <<f>>) = Sent(p, f)
    BY <1>1, <2>1, EmitSends
  <2>6. e # Event("ToolFinished", <<CompleteTask>>)
    BY DEF Event
  <2>. HIDE DEF e, f, p
  <2>. QED  BY <2>2, <2>4, <2>5, <2>6 DEF f
<1>. QED  BY <1>3, <1>4

\* Nothing is emitted at the start.
LEMMA InitProgress == Init => ProgressInv
<1>1. Cardinality(StartedAt(<<>>)) = 0
  <2>1. StartedAt(<<>>) = {}
    BY DEF StartedAt
  <2>. QED  BY <2>1, FS_EmptySet
<1>. SUFFICES ASSUME Init PROVE ProgressInv
  OBVIOUS
<1>2. StreamWellFormed(<<>>)
  BY DEF StreamWellFormed
<1>3. TerminalEventMatchesResult
  BY DEF Init, TerminalEventMatchesResult, LastKind, Outputs, TurnFailures
<1>. QED  BY <1>1, <1>2, <1>3, LimitsAssumption DEF Init, ProgressInv

\* Every step keeps the progress stream well formed.
LEMMA StepProgress ==
    TypeOK /\ LoopInv /\ ProgressInv /\ [Next]_vars => ProgressInv'
<1>. SUFFICES ASSUME TypeOK, LoopInv, ProgressInv, [Next]_vars
              PROVE  ProgressInv'
  OBVIOUS
<1>. USE LimitsAssumption
<1>a. /\ StreamWellFormed(<<>>) /\ StartedAt(<<>>) = {}
      /\ Cardinality({}) = 0
  BY FS_EmptySet DEF StreamWellFormed, StartedAt
<1>b. Event("TurnFailed", NoTool) \in Events
  BY EventType, ToolNameType DEF EventKinds
<1>1. CASE RejectTurn
  <2>1. /\ pc' = "idle" /\ progress' = <<>> /\ tool_calls' = 0
        /\ result' = "InvalidSessionKey"
    BY <1>1 DEF RejectTurn, ProgressInv
  <2>2. TerminalEventMatchesResult'
    BY <2>1 DEF TerminalEventMatchesResult, LastKind, Outputs, TurnFailures
  <2>3. StreamWellFormed(progress') /\ Cardinality(StartedAt(progress')) <= MaxToolCalls
    BY <1>a, <2>1
  <2>. QED  BY <2>1, <2>2, <2>3 DEF ProgressInv, StreamWellFormed, StartedAt
<1>2. CASE StartTurn
  <2>. DEFINE e == Event("TurnStarted", NoTool)
  <2>1. /\ pc' = "load" /\ tool_calls' = 0 /\ listening' \in BOOLEAN
        /\ progress' = IF listening' THEN <<e>> ELSE <<>>
    BY <1>2 DEF StartTurn, ProgressInv
  <2>2. e.kind = "TurnStarted" /\ e # Event("ToolFinished", <<CompleteTask>>)
    BY DEF Event
  <2>. HIDE DEF e
  <2>3. /\ Len(<<e>>) = 1 /\ <<e>>[1] = e /\ DOMAIN <<e>> = {1}
    OBVIOUS
  <2>4. StreamWellFormed(<<e>>) /\ StartedAt(<<e>>) = {}
    BY <2>2, <2>3 DEF StreamWellFormed, StartedAt, TerminalKinds
  <2>5. StreamWellFormed(progress') /\ Cardinality(StartedAt(progress')) = 0
    BY <1>a, <2>1, <2>4
  <2>6. listening' => progress' # <<>> /\ FitsPlace(pc', calls', LastEvent')
    BY <2>1, <2>2, <2>3 DEF FitsPlace, LastEvent
  <2>7. TerminalEventMatchesResult'
    BY <2>1 DEF TerminalEventMatchesResult
  <2>. QED
    BY <2>1, <2>5, <2>6, <2>7 DEF ProgressInv, StreamWellFormed, StartedAt
<1>3. CASE LoadOk
  <2>1. /\ pc = "load" /\ pc' = "chat" /\ progress' = progress
        /\ tool_calls' = tool_calls /\ listening' = listening
    BY <1>3 DEF LoadOk
  <2>2. StreamOf(progress) /\ (listening => FitsPlace("load", calls, LastEvent))
    BY <2>1, RunningStream
  <2>3. listening => FitsPlace(pc', calls', progress[Len(progress)])
    BY <2>1, <2>2 DEF FitsPlace, LastEvent
  <2>. QED  BY <2>1, <2>2, <2>3, TurnGoesOn
<1>4. CASE LoadErr
  BY <1>4, SilentEnd DEF LoadErr, Awaits
<1>5. CASE ChatErr
  <2>1. pc = "chat" /\ Return("ChatFailed", <<>> \o <<Event("TurnFailed", NoTool)>>)
    BY <1>5 DEF ChatErr, Fail
  <2>2. /\ StreamOf(progress) /\ (listening => FitsPlace("chat", calls, LastEvent))
        /\ Cardinality(StartedAt(progress)) <= MaxToolCalls
    BY <2>1, RunningStream DEF ProgressInv
  <2>. QED
    BY <1>b, <2>1, <2>2, EmitSends, LoudEnd DEF FitsPlace, LastEvent, TerminalKinds, TurnFailures
<1>6. ASSUME NEW b \in BOOLEAN, ChatFinal(b)
      PROVE  ProgressInv'
  <2>1. /\ pc = "chat" /\ pc' = "save" /\ progress' = Emit(Announce(b))
        /\ tool_calls' = tool_calls /\ listening' = listening
    BY <1>6 DEF ChatFinal
  <2>2. PICK p : /\ StreamOf(p) /\ p = Emit(Announce(b))
                 /\ StartedAt(p) = StartedAt(progress)
                 /\ listening => p[Len(p)].kind \in
                       {"TurnStarted", "AssistantMessage", "ToolFinished"}
    BY <2>1, AnnounceSends
  <2>3. listening => FitsPlace(pc', calls', p[Len(p)])
    BY <2>1, <2>2 DEF FitsPlace
  <2>. QED  BY <2>1, <2>2, <2>3, TurnGoesOn
<1>7. ASSUME NEW b \in BOOLEAN, ChatOverBudget(b)
      PROVE  ProgressInv'
  <2>. DEFINE f == Event("TurnFailed", NoTool)
  <2>1. pc = "chat" /\ Return("IterationBudget", Announce(b) \o <<f>>)
    BY <1>7 DEF ChatOverBudget, Fail
  <2>2. PICK p : /\ StreamOf(p) /\ StartedAt(p) = StartedAt(progress)
                 /\ Emit(Announce(b) \o <<f>>) = Sent(p, f)
                 /\ listening =>
                       /\ p[Len(p)].kind \in {"TurnStarted", "AssistantMessage", "ToolFinished"}
                       /\ p[Len(p)] # Event("ToolFinished", <<CompleteTask>>)
    BY <2>1, AnnounceSends
  <2>3. Cardinality(StartedAt(p)) <= MaxToolCalls
    BY <2>2 DEF ProgressInv
  <2>. QED  BY <2>1, <2>2, <2>3, LoudEnd DEF TerminalKinds, TurnFailures
<1>8. ASSUME NEW b \in BOOLEAN, NEW cs \in CallLists, ChatCalls(b, cs)
      PROVE  ProgressInv'
  <2>1. /\ pc = "chat" /\ pc' = "dispatch" /\ progress' = Emit(Announce(b))
        /\ tool_calls' = tool_calls /\ listening' = listening
    BY <1>8 DEF ChatCalls
  <2>2. PICK p : /\ StreamOf(p) /\ p = Emit(Announce(b))
                 /\ StartedAt(p) = StartedAt(progress)
                 /\ listening =>
                       /\ p[Len(p)].kind \in {"TurnStarted", "AssistantMessage", "ToolFinished"}
                       /\ p[Len(p)] # Event("ToolFinished", <<CompleteTask>>)
    BY <2>1, AnnounceSends
  <2>3. listening => FitsPlace(pc', calls', p[Len(p)])
    BY <2>1, <2>2 DEF FitsPlace
  <2>. QED  BY <2>1, <2>2, <2>3, TurnGoesOn
<1>9. CASE BeginCall
  <2>. DEFINE e == Event("ToolStarted", <<Head(calls).name>>)
              p == Sent(progress, e)
  <2>1. /\ pc = "dispatch" /\ pc' = "execute" /\ progress' = Emit(<<e>>)
        /\ tool_calls' = tool_calls + 1 /\ tool_calls + 1 <= MaxToolCalls
        /\ listening' = listening /\ calls # <<>> /\ calls' = calls
    BY <1>9 DEF BeginCall
  <2>2. e \in Events /\ e.kind = "ToolStarted"
    BY <2>1, HeadCall, EventType, ToolNameType DEF TypeOK, EventKinds, Event
  <2>3. /\ StreamOf(progress) /\ (listening => FitsPlace("dispatch", calls, LastEvent))
    BY <2>1, RunningStream
  <2>4. listening => MayFollow(LastEvent, e)
    BY <2>2, <2>3 DEF MayFollow, FitsPlace, TerminalKinds
  <2>5. /\ StreamOf(p) /\ (listening => p[Len(p)] = e)
        /\ Cardinality(StartedAt(progress)) \in Nat
        /\ Cardinality(StartedAt(p)) \in Nat
        /\ Cardinality(StartedAt(p)) <= Cardinality(StartedAt(progress)) + 1
    BY <2>2, <2>3, <2>4, SendEvent DEF LastEvent
  <2>6. progress' = p
    BY <1>b, <2>1, <2>2, EmitSends
  <2>7. Cardinality(StartedAt(progress)) <= tool_calls /\ tool_calls \in Nat
    BY <2>1 DEF ProgressInv, TypeOK
  <2>8. listening => p # <<>> /\ FitsPlace(pc', calls', p[Len(p)])
    BY <2>1, <2>5 DEF FitsPlace, StreamOf
  <2>. HIDE DEF e, p
  <2>9. /\ Cardinality(StartedAt(progress')) <= tool_calls'
        /\ Cardinality(StartedAt(progress')) <= MaxToolCalls
        /\ StreamWellFormed(progress')
        /\ ~listening => progress' = <<>>
    BY <2>1, <2>5, <2>6, <2>7 DEF StreamOf
  <2>10. listening' => progress' # <<>> /\ FitsPlace(pc', calls', LastEvent')
    BY <2>1, <2>6, <2>8 DEF LastEvent
  <2>11. TerminalEventMatchesResult'
    BY <2>1 DEF TerminalEventMatchesResult
  <2>. QED
    BY <2>1, <2>9, <2>10, <2>11 DEF ProgressInv, StreamWellFormed, StartedAt
<1>10. CASE RefuseCall
  <2>1. pc = "dispatch" /\ Return("CallBudget", <<>> \o <<Event("TurnFailed", NoTool)>>)
    BY <1>10 DEF RefuseCall, Fail
  <2>2. /\ StreamOf(progress) /\ (listening => FitsPlace("dispatch", calls, LastEvent))
        /\ Cardinality(StartedAt(progress)) <= MaxToolCalls
    BY <2>1, RunningStream DEF ProgressInv
  <2>. QED
    BY <1>b, <2>1, <2>2, EmitSends, LoudEnd DEF FitsPlace, LastEvent, TerminalKinds, TurnFailures
<1>11. CASE NextIteration
  <2>1. iteration < MaxToolIterations
    BY <1>11 DEF NextIteration, LoopInv
  <2>2. /\ pc = "dispatch" /\ pc' = "chat" /\ progress' = progress
        /\ tool_calls' = tool_calls /\ listening' = listening
    BY <1>11, <2>1 DEF NextIteration
  <2>3. StreamOf(progress) /\ (listening => FitsPlace("dispatch", calls, LastEvent))
    BY <2>2, RunningStream
  <2>4. listening => FitsPlace(pc', calls', progress[Len(progress)])
    BY <2>2, <2>3 DEF FitsPlace, LastEvent
  <2>. QED  BY <2>2, <2>3, <2>4, TurnGoesOn
<1>12. CASE ExecuteContinue
  <2>. DEFINE e == Event("ToolFinished", <<Head(calls).name>>)
              p == Sent(progress, e)
  <2>1. /\ pc = "execute" /\ pc' = "dispatch" /\ progress' = Emit(<<e>>)
        /\ tool_calls' = tool_calls /\ listening' = listening
        /\ calls # <<>> /\ Head(calls).name # CompleteTask
    BY <1>12 DEF ExecuteContinue, LoopInv
  <2>2. /\ e \in Events /\ e.kind = "ToolFinished" /\ e.tool = <<Head(calls).name>>
        /\ e # Event("ToolFinished", <<CompleteTask>>)
    BY <2>1, HeadCall, EventType, ToolNameType DEF TypeOK, EventKinds, Event
  <2>3. StreamOf(progress) /\ (listening => FitsPlace("execute", calls, LastEvent))
    BY <2>1, RunningStream
  <2>4. listening => MayFollow(LastEvent, e)
    BY <2>2, <2>3 DEF MayFollow, FitsPlace, TerminalKinds, Event
  <2>5. /\ StreamOf(p) /\ (listening => p[Len(p)] = e)
        /\ StartedAt(p) = StartedAt(progress)
    BY <2>2, <2>3, <2>4, SendEvent DEF LastEvent
  <2>6. progress' = p
    BY <1>b, <2>1, <2>2, EmitSends
  <2>. HIDE DEF e, p
  <2>7. listening => FitsPlace(pc', calls', p[Len(p)])
    BY <2>1, <2>2, <2>5 DEF FitsPlace
  <2>. QED  BY <2>1, <2>5, <2>6, <2>7, TurnGoesOn
<1>13. CASE ExecuteComplete
  <2>. DEFINE e == Event("ToolFinished", <<Head(calls).name>>)
              p == Sent(progress, e)
  <2>1. /\ pc = "execute" /\ pc' = "save" /\ progress' = Emit(<<e>>)
        /\ tool_calls' = tool_calls /\ listening' = listening /\ calls # <<>>
    BY <1>13 DEF ExecuteComplete, LoopInv
  <2>2. e \in Events /\ e.kind = "ToolFinished" /\ e.tool = <<Head(calls).name>>
    BY <2>1, HeadCall, EventType, ToolNameType DEF TypeOK, EventKinds, Event
  <2>3. StreamOf(progress) /\ (listening => FitsPlace("execute", calls, LastEvent))
    BY <2>1, RunningStream
  <2>4. listening => MayFollow(LastEvent, e)
    BY <2>2, <2>3 DEF MayFollow, FitsPlace, TerminalKinds, Event
  <2>5. /\ StreamOf(p) /\ (listening => p[Len(p)] = e)
        /\ StartedAt(p) = StartedAt(progress)
    BY <2>2, <2>3, <2>4, SendEvent DEF LastEvent
  <2>6. progress' = p
    BY <1>b, <2>1, <2>2, EmitSends
  <2>. HIDE DEF e, p
  <2>7. listening => FitsPlace(pc', calls', p[Len(p)])
    BY <2>1, <2>2, <2>5 DEF FitsPlace
  <2>. QED  BY <2>1, <2>5, <2>6, <2>7, TurnGoesOn
<1>14. CASE ExecuteErr
  <2>. DEFINE e == Event("ToolFailed", <<Head(calls).name>>)
              f == Event("TurnFailed", NoTool)
              p == Sent(progress, e)
  <2>1. pc = "execute" /\ calls # <<>> /\ Return("ToolFailed", <<e>> \o <<f>>)
    BY <1>14 DEF ExecuteErr, Fail, LoopInv
  <2>2. e \in Events /\ e.kind = "ToolFailed" /\ e.tool = <<Head(calls).name>>
    BY <2>1, HeadCall, EventType, ToolNameType DEF TypeOK, EventKinds, Event
  <2>3. StreamOf(progress) /\ (listening => FitsPlace("execute", calls, LastEvent))
    BY <2>1, RunningStream
  <2>4. listening => MayFollow(LastEvent, e)
    BY <2>2, <2>3 DEF MayFollow, FitsPlace, TerminalKinds, Event
  <2>5. /\ StreamOf(p) /\ (listening => p[Len(p)] = e)
        /\ StartedAt(p) = StartedAt(progress)
    BY <2>2, <2>3, <2>4, SendEvent DEF LastEvent
  <2>6. Emit(<<e>> \o <<f>>) = Sent(p, f)
    BY <1>b, <2>2, EmitSends
  <2>7. Cardinality(StartedAt(p)) <= MaxToolCalls
    BY <2>5 DEF ProgressInv
  <2>8. e # Event("ToolFinished", <<CompleteTask>>)
    BY DEF Event
  <2>. HIDE DEF e, p
  <2>. QED
    BY <2>1, <2>2, <2>5, <2>6, <2>7, <2>8, LoudEnd DEF TerminalKinds, TurnFailures
<1>15. CASE SaveOk
  <2>. DEFINE e == Event("TurnCompleted", NoTool)
  <2>1. pc = "save" /\ Return(output, <<e>>) /\ output \in Outputs
    BY <1>15 DEF SaveOk, TypeOK
  <2>2. /\ StreamOf(progress) /\ (listening => FitsPlace("save", calls, LastEvent))
        /\ Cardinality(StartedAt(progress)) <= MaxToolCalls
    BY <2>1, RunningStream DEF ProgressInv
  <2>3. Emit(<<e>>) = Sent(progress, e)
    BY EmitSends, EventType, ToolNameType DEF EventKinds
  <2>. QED
    BY <2>1, <2>2, <2>3, LoudEnd DEF FitsPlace, LastEvent, TerminalKinds
<1>16. CASE SaveErr
  BY <1>16, SilentEnd DEF SaveErr, Awaits
<1>17. CASE Drop
  BY <1>17, SilentEnd DEF Drop
<1>18. CASE ResetSession
  <2>1. /\ pc' = pc /\ pc = "idle" /\ progress' = progress /\ result' = result
        /\ tool_calls' = tool_calls /\ listening' = listening
    BY <1>18 DEF ResetSession
  <2>. QED
    BY <2>1 DEF ProgressInv, StreamWellFormed, StartedAt,
                TerminalEventMatchesResult, LastKind
<1>19. CASE UNCHANGED vars
  <2>1. /\ pc' = pc /\ progress' = progress /\ result' = result /\ calls' = calls
        /\ tool_calls' = tool_calls /\ listening' = listening
    BY <1>19 DEF vars
  <2>. QED
    BY <2>1 DEF ProgressInv, StreamWellFormed, StartedAt, FitsPlace, LastEvent,
                TerminalEventMatchesResult, LastKind
<1>. QED
  BY <1>1, <1>2, <1>3, <1>4, <1>5, <1>6, <1>7, <1>8, <1>9, <1>10, <1>11,
     <1>12, <1>13, <1>14, <1>15, <1>16, <1>17, <1>18, <1>19
     DEF Next, TurnStep

(***************************************************************************)
(* The limits.                                                             *)
(***************************************************************************)

\* Where the model answered in conversation m.
ResponsesAt(m) == {i \in DOMAIN m : m[i].role = "assistant"}

\* One response per iteration, and no iteration beyond the limit.
RequestInv ==
    /\ pc \in {"idle", "load"} => messages = <<>>
    /\ pc = "chat" => Cardinality(ResponsesAt(messages)) <= iteration
    /\ pc \in {"dispatch", "execute", "save"} =>
          Cardinality(ResponsesAt(messages)) <= iteration + 1
    /\ pc = "save" => iteration <= MaxToolIterations

\* One more message is at most one more response.
LEMMA PushMessage ==
    ASSUME NEW m \in Seq(Messages), NEW x \in Messages
    PROVE  /\ Cardinality(ResponsesAt(m)) \in Nat
           /\ Cardinality(ResponsesAt(Append(m, x))) \in Nat
           /\ Cardinality(ResponsesAt(Append(m, x))) <= Cardinality(ResponsesAt(m)) + 1
           /\ x.role # "assistant" => ResponsesAt(Append(m, x)) = ResponsesAt(m)
<1>. DEFINE w == Append(m, x)
            n == Len(m)
<1>1. n \in Nat /\ DOMAIN m = 1 .. n
  BY LenProperties
<1>2. /\ DOMAIN w = 1 .. n + 1 /\ w[n + 1] = x
      /\ \A i \in 1 .. n : w[i] = m[i]
  BY AppendProperties
<1>. HIDE DEF w, n
<1>3. ResponsesAt(w) = IF x.role = "assistant" THEN ResponsesAt(m) \cup {n + 1}
                                               ELSE ResponsesAt(m)
  <2>1. ASSUME NEW i
        PROVE  i \in ResponsesAt(w) <=>
                  i \in ResponsesAt(m) \/ (x.role = "assistant" /\ i = n + 1)
    <3>1. i \in 1 .. n + 1 <=> i \in 1 .. n \/ i = n + 1
      BY <1>1
    <3>2. n + 1 \notin 1 .. n
      BY <1>1
    <3>. QED  BY <1>1, <1>2, <3>1, <3>2 DEF ResponsesAt
  <2>. QED  BY <2>1
<1>4. IsFiniteSet(ResponsesAt(m)) /\ Cardinality(ResponsesAt(m)) \in Nat
  <2>1. IsFiniteSet(1 .. n)
    BY <1>1, FS_Interval
  <2>2. ResponsesAt(m) \subseteq 1 .. n
    BY <1>1 DEF ResponsesAt
  <2>. QED  BY <2>1, <2>2, FS_Subset, FS_CardinalityType
<1>5. n + 1 \notin ResponsesAt(m)
  BY <1>1 DEF ResponsesAt
<1>6. Cardinality(ResponsesAt(m) \cup {n + 1}) = Cardinality(ResponsesAt(m)) + 1
  BY <1>4, <1>5, FS_AddElement
<1>7. /\ Cardinality(ResponsesAt(w)) \in Nat
      /\ Cardinality(ResponsesAt(w)) <= Cardinality(ResponsesAt(m)) + 1
      /\ x.role # "assistant" => ResponsesAt(w) = ResponsesAt(m)
  BY <1>3, <1>4, <1>6
<1>. QED  BY <1>4, <1>7 DEF w

\* A turn that has returned has no conversation left.
LEMMA ReturnRequest ==
    ASSUME NEW r, NEW es, Return(r, es)
    PROVE  RequestInv'
BY DEF Return, ForgetLocals, RequestInv

\* A response is pushed in the iteration that asked for it.
LEMMA ResponseCounted ==
    ASSUME TypeOK, LoopInv, RequestInv, pc = "chat", NEW cs \in Seq(Calls),
           messages' = Append(messages, AssistantMessage(cs)),
           iteration' = iteration, pc' \in {"dispatch", "save"}
    PROVE  RequestInv'
<1>1. AssistantMessage(cs) \in Messages
  BY DEF AssistantMessage, Message, Messages
<1>2. /\ Cardinality(ResponsesAt(messages)) \in Nat
      /\ Cardinality(ResponsesAt(messages')) \in Nat
      /\ Cardinality(ResponsesAt(messages')) <= Cardinality(ResponsesAt(messages)) + 1
  BY <1>1, PushMessage DEF TypeOK
<1>3. /\ Cardinality(ResponsesAt(messages)) <= iteration
      /\ iteration \in Nat /\ iteration <= MaxToolIterations
  BY DEF RequestInv, LoopInv, TypeOK
<1>4. Cardinality(ResponsesAt(messages')) <= iteration' + 1
  BY <1>2, <1>3
<1>. QED  BY <1>3, <1>4 DEF RequestInv, ResponsesAt

\* A reply to a call is no response.
LEMMA ReplyNotCounted ==
    ASSUME TypeOK, LoopInv, RequestInv, pc = "execute",
           messages' = Append(messages, ToolMessage(Head(calls))),
           iteration' = iteration, pc' \in {"dispatch", "save"}
    PROVE  RequestInv'
<1>1. /\ ToolMessage(Head(calls)) \in Messages
      /\ ToolMessage(Head(calls)).role # "assistant"
  BY HeadCall DEF ToolMessage, Message, Messages, LoopInv, TypeOK
<1>2. ResponsesAt(messages') = ResponsesAt(messages)
  BY <1>1, PushMessage DEF TypeOK
<1>3. iteration \in Nat /\ iteration < MaxToolIterations
  BY DEF LoopInv, TypeOK
<1>4. Cardinality(ResponsesAt(messages')) <= iteration' + 1
  BY <1>2 DEF RequestInv
<1>5. iteration' <= MaxToolIterations /\ pc' \notin {"idle", "load", "chat"}
  BY <1>3, LimitsAssumption
<1>. QED  BY <1>4, <1>5, Zenon DEF RequestInv

\* Every step keeps what a request to the model has.
LEMMA StepRequest ==
    TypeOK /\ LoopInv /\ RequestInv /\ [Next]_vars => RequestInv'
<1>. SUFFICES ASSUME TypeOK, LoopInv, RequestInv, [Next]_vars
              PROVE  RequestInv'
  OBVIOUS
<1>1. CASE RejectTurn
  BY <1>1 DEF RejectTurn, RequestInv
<1>2. CASE StartTurn
  BY <1>2 DEF StartTurn, RequestInv
<1>3. CASE LoadOk
  <2>1. /\ pc = "load" /\ pc' = "chat" /\ iteration' = iteration
        /\ messages' = <<Message("system", <<>>), Message("user", <<>>)>>
    BY <1>3 DEF LoadOk
  <2>2. ResponsesAt(messages') = {}
    BY <2>1 DEF ResponsesAt, Message
  <2>3. Cardinality(ResponsesAt(messages')) <= iteration'
    <3>1. Cardinality(ResponsesAt(messages')) = 0
      BY <2>2, FS_EmptySet
    <3>. QED  BY <2>1, <3>1 DEF TypeOK
  <2>. QED  BY <2>1, <2>3 DEF RequestInv, ResponsesAt
<1>4. CASE LoadErr
  BY <1>4, ReturnRequest DEF LoadErr
<1>5. CASE ChatErr
  BY <1>5, ReturnRequest DEF ChatErr, Fail
<1>6. ASSUME NEW b \in BOOLEAN, ChatFinal(b)
      PROVE  RequestInv'
  <2>1. <<>> \in Seq(Calls)
    OBVIOUS
  <2>. QED  BY <1>6, <2>1, ResponseCounted DEF ChatFinal
<1>7. ASSUME NEW b \in BOOLEAN, ChatOverBudget(b)
      PROVE  RequestInv'
  BY <1>7, ReturnRequest DEF ChatOverBudget, Fail
<1>8. ASSUME NEW b \in BOOLEAN, NEW cs \in CallLists, ChatCalls(b, cs)
      PROVE  RequestInv'
  <2>1. cs \in Seq(Calls)
    BY CallListType
  <2>. QED  BY <1>8, <2>1, ResponseCounted DEF ChatCalls
<1>9. CASE BeginCall
  BY <1>9 DEF BeginCall, RequestInv, ResponsesAt
<1>10. CASE RefuseCall
  BY <1>10, ReturnRequest DEF RefuseCall, Fail
<1>11. CASE NextIteration
  <2>1. CASE iteration < MaxToolIterations
    BY <1>11, <2>1 DEF NextIteration, RequestInv, ResponsesAt
  <2>2. CASE ~(iteration < MaxToolIterations)
    BY <1>11, <2>2, ReturnRequest DEF NextIteration, Fail
  <2>. QED  BY <2>1, <2>2
<1>12. CASE ExecuteContinue
  BY <1>12, ReplyNotCounted DEF ExecuteContinue
<1>13. CASE ExecuteComplete
  BY <1>13, ReplyNotCounted DEF ExecuteComplete
<1>14. CASE ExecuteErr
  BY <1>14, ReturnRequest DEF ExecuteErr, Fail
<1>15. CASE SaveOk
  BY <1>15, ReturnRequest DEF SaveOk
<1>16. CASE SaveErr
  BY <1>16, ReturnRequest DEF SaveErr
<1>17. CASE Drop
  BY <1>17, ReturnRequest DEF Drop
<1>18. CASE ResetSession
  BY <1>18 DEF ResetSession, RequestInv
<1>19. CASE UNCHANGED vars
  BY <1>19 DEF vars, RequestInv, ResponsesAt
<1>. QED
  BY <1>1, <1>2, <1>3, <1>4, <1>5, <1>6, <1>7, <1>8, <1>9, <1>10, <1>11,
     <1>12, <1>13, <1>14, <1>15, <1>16, <1>17, <1>18, <1>19
     DEF Next, TurnStep

\* Within the limits, from what is counted.
LEMMA BudgetKept ==
    TypeOK /\ LoopInv /\ ProgressInv /\ RequestInv => WithinBudget
<1>. SUFFICES ASSUME TypeOK, LoopInv, ProgressInv, RequestInv
              PROVE  WithinBudget
  OBVIOUS
<1>1. /\ Positions(messages, LAMBDA m : m.role = "assistant") = ResponsesAt(messages)
      /\ Positions(progress, LAMBDA e : e.kind = "ToolStarted") = StartedAt(progress)
  BY DEF Positions, ResponsesAt, StartedAt
<1>2. Cardinality(ResponsesAt(messages)) <= MaxToolIterations + 1
  <2>1. CASE pc \in {"idle", "load"}
    <3>1. ResponsesAt(messages) = {}
      BY <2>1 DEF RequestInv, ResponsesAt
    <3>. QED  BY <3>1, FS_EmptySet, LimitsAssumption
  <2>2. CASE pc \in {"chat", "dispatch", "execute", "save"}
    <3>1. Cardinality(ResponsesAt(messages)) \in Nat
      <4>1. Message("user", <<>>) \in Messages
        BY DEF Message, Messages
      <4>. QED  BY <4>1, PushMessage DEF TypeOK
    <3>. QED  BY <2>2, <3>1, LimitsAssumption DEF RequestInv, LoopInv, TypeOK
  <2>. QED  BY <2>1, <2>2 DEF TypeOK, Awaits
<1>3. Cardinality(StartedAt(progress)) <= MaxToolCalls
  BY DEF ProgressInv
<1>. QED  BY <1>1, <1>2, <1>3 DEF WithinBudget

(***************************************************************************)
(* What a listening client is shown is a prefix of a well formed stream, it *)
(* ends as the turn did, and a turn never asks the model or starts a tool   *)
(* more often than RuntimeLimits allow: for all limits, 0 included, and any *)
(* number of calls in a response.                                           *)
(***************************************************************************)
THEOREM StreamTellsTheTurn == Spec => []ProgressTellsTheTurn
<1>. DEFINE Inv == TypeOK /\ LoopInv /\ ProgressInv /\ RequestInv
<1>1. Init => Inv
  <2>1. Init => RequestInv
    BY DEF Init, RequestInv
  <2>. QED  BY <2>1, InitTypeLoop, InitProgress
<1>2. Inv /\ [Next]_vars => Inv'
  BY StepTypeLoop, StepProgress, StepRequest
<1>3. Inv => ProgressTellsTheTurn
  BY BudgetKept DEF ProgressTellsTheTurn, ProgressWellFormed, ProgressInv
<1>. QED  BY <1>1, <1>2, <1>3, PTL DEF Spec
=============================================================================

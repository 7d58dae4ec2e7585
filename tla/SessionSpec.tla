----------------------------- MODULE SessionSpec -----------------------------
(***************************************************************************)
(* What the runtime promises about the one session "local:main": the        *)
(* stored session only ever grows by whole turns, a turn that is refused    *)
(* leaves no trace, and a turn that is answered is recorded with exactly    *)
(* the answer it gave.  A caller that goes away may or may not leave its    *)
(* turn recorded, but never half of it.                                     *)
(***************************************************************************)
EXTENDS Naturals, Sequences

CONSTANTS
    Inputs,      \* payloads of input events
    Outputs,     \* terminal output events of a turn
    Failures     \* ways in which a turn can be refused

VARIABLES
    session,     \* the stored session
    request,     \* the input of the last accepted turn
    answer       \* what the caller of the last turn has been told

vars == <<session, request, answer>>

EmptySession == [turn_index |-> 0, history |-> <<>>]

Answers == {"Ready", "Running", "Dropped"} \cup Outputs \cup Failures

\* The session s with one whole turn added.
WithTurn(s, i, o) ==
    [turn_index |-> s.turn_index + 1,
     history    |-> s.history \o << <<"Input", i>>, <<"Output", o>> >>]

Init ==
    /\ session = EmptySession
    /\ request \in Inputs
    /\ answer = "Ready"

\* A turn begins.  Nothing is recorded yet.
Accept ==
    /\ answer # "Running"
    /\ request' \in Inputs
    /\ answer' = "Running"
    /\ UNCHANGED session

\* The caller is told that the turn failed: nothing has been recorded.
Refuse ==
    /\ answer' \in Failures
    /\ UNCHANGED <<session, request>>

\* The turn is recorded with its output; the caller is told that output, or
\* is not there any more.
Commit ==
    /\ answer = "Running"
    /\ \E o \in Outputs :
          /\ session' = WithTurn(session, request, o)
          /\ answer' \in {o, "Dropped"}
    /\ UNCHANGED request

\* The caller goes away before anything was recorded.
Abandon ==
    /\ answer = "Running"
    /\ answer' = "Dropped"
    /\ UNCHANGED <<session, request>>

\* The history is cleared between two turns.
Reset ==
    /\ answer # "Running"
    /\ session' = EmptySession
    /\ UNCHANGED <<request, answer>>

Next == Accept \/ Refuse \/ Commit \/ Abandon \/ Reset

Spec == Init /\ [][Next]_vars
=============================================================================

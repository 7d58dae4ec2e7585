-------------------------- MODULE MCExtensionSuite --------------------------
(***************************************************************************)
(* The browser extension and what reaches it: the connection manager, the  *)
(* pending selection of the worker and its popup, and the stream of a      *)
(* completion.  The parts share no state; a behaviour is one of one part,  *)
(* chosen at the start, so the states of this specification are those of   *)
(* its parts.                                                              *)
(***************************************************************************)
EXTENDS ExtensionConnection

CONSTANTS
    Contexts, NoContext, Unset,   \* as PendingContext has them
    MaxOpens, MaxRestarts

ASSUME PendingAssumption ==
    NoContext \notin Contexts /\ Unset \notin Contexts \cup {NoContext}

VARIABLES
    part,   \* the component this behaviour is of
    v1, v2, v3, v4, v5, v6, v7, v8, v9, v10, v11, v12, v13, v14   \* its variables

Off == "off"   \* of a variable the part has no use for
pool == <<v1, v2, v3, v4, v5, v6, v7, v8, v9, v10, v11, v12, v13, v14>>
all == <<vars, part, pool>>

\* Addresses are interchangeable, and so are captured selections.
Symmetry == Permutations(Addresses) \cup Permutations(Contexts)

Pending == INSTANCE PendingContext WITH
    Contexts <- Contexts, None <- NoContext, Unset <- Unset,
    MaxOpens <- MaxOpens, MaxRestarts <- MaxRestarts, mem <- v1, store <- v2, calls <- v3, link <- v4,
    working <- v5, toBg <- v6, toPopup <- v7, popup <- v8, captured <- v9,
    opens <- v10, restarts <- v11, last <- v12, sent <- v13, raced <- v14

Llm == INSTANCE LlmStream WITH
    Indices <- {1, 2}, MaxEvents <- 3, script <- v1, pos <- v2, pending <- v3,
    content <- v4, calls <- v5, result <- v6

SuiteInit ==
    /\ Init
    /\ \/ /\ part = "extension" /\ v1 = Off /\ v2 = Off /\ v3 = Off
          /\ v4 = Off /\ v5 = Off /\ v6 = Off /\ v7 = Off /\ v8 = Off
          /\ v9 = Off /\ v10 = Off /\ v11 = Off /\ v12 = Off /\ v13 = Off
          /\ v14 = Off
       \/ part = "pending" /\ Pending!Init
       \/ /\ part = "llm" /\ Llm!Init /\ v7 = Off /\ v8 = Off /\ v9 = Off
          /\ v10 = Off /\ v11 = Off /\ v12 = Off /\ v13 = Off /\ v14 = Off

ExtensionConnectionStep == part = "extension" /\ Next /\ UNCHANGED <<part, pool>>

PendingOnly == part = "pending" /\ UNCHANGED <<part, vars>>
PendingStep == PendingOnly /\ Pending!Next

LlmOnly == part = "llm" /\ UNCHANGED <<part, vars, v7, v8, v9, v10, v11, v12, v13, v14>>
LlmStep == LlmOnly /\ Llm!Next

SuiteNext ==
    \/ ExtensionConnectionStep
    \/ PendingStep
    \/ LlmStep

SuiteSpec == SuiteInit /\ [][SuiteNext]_all

-----------------------------------------------------------------------------

\* background.ts and popup.tsx: what the worker holds or will load is the
\* selection last set or cleared, unless that happened while a load was in
\* flight; once everything has arrived the chip of an open popup shows it; and
\* a selection the agent was given does not come back by itself, whatever
\* replies and restarts come between.
SelectionKept ==
    part = "pending" =>
        /\ Pending!TypeOK
        /\ Pending!PendingIsLastUnlessRaced
        /\ Pending!ChipShowsPending
        /\ Pending!SentOnce

\* openai.rs: a response is all the deltas that arrived, each once and in
\* order, wherever the transport cut the stream, and a stream that stops early
\* never yields half a tool call.
AggregatedInOrder ==
    part = "llm" => Llm!TypeOK /\ Llm!AggregatedInOrder /\ Llm!NoHalfCall

=============================================================================

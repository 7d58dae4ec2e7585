------------------------- MODULE ExtensionConnection -------------------------
(***************************************************************************)
(* RpcConnectionManager (extensions/reshape/src/background-connection.ts)   *)
(* and the requests of rpc.ts it awaits.  The background script runs one    *)
(* piece of code at a time, but each await lets the popup's other requests  *)
(* and socket events in: connect, send, resetSession and disconnect overlap.*)
(*                                                                         *)
(* A socket goes through                                                   *)
(*   "unborn" -> "connecting" -> "open" -> "closing" or "broken" -> "closed" *)
(* "closing": closed cleanly by either side, the close event is to come;    *)
(* "broken": the error event has fired, the close event is to come.         *)
(* waitForResponse listens to messages and errors, not to close: what is    *)
(* awaited on a socket that closes cleanly is never settled.                *)
(***************************************************************************)
EXTENDS Naturals, Sequences, FiniteSets, FiniteSetsExt, SequencesExt

CONSTANTS
    Addresses,   \* RPC addresses the user types
    MaxSockets,  \* bound: sockets opened
    MaxSends,    \* bound: chat messages sent
    MaxResets    \* bound: resets

ASSUME ExtensionBounds ==
    /\ MaxSockets \in Nat
    /\ MaxSends \in Nat
    /\ MaxResets \in Nat

Sockets == 1 .. MaxSockets
None == 0
Undefined == "undefined"

VARIABLES
    socket,          \* this.socket, or None
    status,          \* this.status
    address,         \* this.address
    history,         \* this.history: Undefined or the messages
    isWorking,       \* this.isWorking
    sendGeneration,  \* this.sendGeneration
    state,           \* of each socket
    listening,       \* sockets whose close event has a listener
    awaits,          \* promises being awaited
    wire,            \* of each socket: requests sent and not yet answered
    sends, resets    \* requests so far

manager == <<socket, status, address, history, isWorking, sendGeneration>>
vars == <<socket, status, address, history, isWorking, sendGeneration,
          state, listening, awaits, wire, sends, resets>>

-----------------------------------------------------------------------------

\* Messages of a chat history, by what the popup shows of them.
MessageKinds == {"user", "working", "complete"}

\* An await of connect (opening, then fetching the history), of a send with
\* the generation it remembers, or of a
\* reset with its number.
Opening(s) == [call |-> "open", socket |-> s]
Fetching(s) == [call |-> "history", socket |-> s]
Sending(s, g) == [call |-> "input", socket |-> s, generation |-> g]
Resetting(s, n) == [call |-> "reset", socket |-> s, number |-> n]

Init ==
    /\ socket = None
    /\ status = "idle"
    /\ address \in Addresses
    /\ history = Undefined
    /\ isWorking = FALSE
    /\ sendGeneration = 0
    /\ state = [s \in Sockets |-> "unborn"]
    /\ listening = {}
    /\ awaits = {}
    /\ wire = [s \in Sockets |-> <<>>]
    /\ sends = 0
    /\ resets = 0

\* socket.close() on an open socket; without effect on any other.
Close(st, s) ==
    IF s # None /\ st[s] = "open" THEN [st EXCEPT ![s] = "closing"] ELSE st

\* socket.send(): discarded unless the socket is open.
Transmit(s, request) ==
    wire' = IF state[s] = "open" THEN [wire EXCEPT ![s] = Append(@, request)] ELSE wire

\* The awaited response arrives: the server answers in order, and a socket
\* that is no longer open delivers nothing.
Arrives(a) ==
    /\ a \in awaits
    /\ state[a.socket] = "open"
    /\ wire[a.socket] # <<>>
    /\ Head(wire[a.socket]) = a.call
    /\ wire' = [wire EXCEPT ![a.socket] = Tail(@)]

\* The await is rejected by the socket's error event.
Breaks(a) ==
    /\ a \in awaits
    /\ state[a.socket] = "broken"
    /\ UNCHANGED wire

\* replaceLastWorkingMessage
ReplaceLastWorking(h) ==
    LET working == {i \in DOMAIN h : h[i] = "working"}
    IN  IF working = {} THEN Append(h, "complete")
                        ELSE [h EXCEPT ![Max(working)] = "complete"]

-----------------------------------------------------------------------------
(***************************************************************************)
(* connect                                                                 *)
(***************************************************************************)

\* connect up to its first await.  (To the address it is connected to, it
\* does nothing.)
Connect(a) ==
    /\ ~(status = "connected" /\ socket # None /\ address = a)
    /\ \E s \in Sockets :
          /\ state[s] = "unborn"
          /\ \A t \in Sockets : t < s => state[t] # "unborn"
          /\ state' = [Close(state, socket) EXCEPT ![s] = "connecting"]
          /\ awaits' = awaits \cup {Opening(s)}
    /\ status' = "connecting"
    /\ address' = a
    /\ isWorking' = FALSE
    /\ sendGeneration' = sendGeneration + 1
    /\ UNCHANGED <<socket, history, listening, wire, sends, resets>>

\* The handshake is acknowledged; the history is requested.
ConnectOk(s) ==
    /\ Opening(s) \in awaits
    /\ state[s] = "connecting"
    /\ state' = [state EXCEPT ![s] = "open"]
    /\ socket' = s
    /\ status' = "connected"
    /\ awaits' = (awaits \ {Opening(s)}) \cup {Fetching(s)}
    /\ wire' = [wire EXCEPT ![s] = <<"history">>]
    /\ UNCHANGED <<address, history, isWorking, sendGeneration, listening, sends, resets>>

\* An error before the acknowledgement, or another answer than it.
ConnectErr(s) ==
    /\ Opening(s) \in awaits
    /\ state[s] = "connecting"
    /\ state' = [state EXCEPT ![s] = "closed"]
    /\ awaits' = awaits \ {Opening(s)}
    /\ socket' = None
    /\ status' = "error"
    /\ history' = Undefined
    /\ UNCHANGED <<address, isWorking, sendGeneration, listening, wire, sends, resets>>

\* The history arrives, or an error in its place; only now is the close
\* listener added.
HistoryDone(s) ==
    /\ \/ Arrives(Fetching(s)) /\ history' \in {<<>>, <<"user", "complete">>}
       \/ Breaks(Fetching(s)) /\ history' = <<>>
    /\ awaits' = awaits \ {Fetching(s)}
    /\ listening' = listening \cup {s}
    /\ UNCHANGED <<socket, status, address, isWorking, sendGeneration, state, sends, resets>>

-----------------------------------------------------------------------------
(***************************************************************************)
(* send, resetSession, disconnect                                          *)
(***************************************************************************)

CanCall == socket # None /\ status = "connected" /\ ~isWorking

Send ==
    /\ CanCall
    /\ sends < MaxSends
    /\ sends' = sends + 1
    /\ sendGeneration' = sendGeneration + 1
    /\ isWorking' = TRUE
    /\ history' = (IF history = Undefined THEN <<>> ELSE history) \o <<"user", "working">>
    /\ awaits' = awaits \cup {Sending(socket, sendGeneration')}
    /\ Transmit(socket, "input")
    /\ UNCHANGED <<socket, status, address, state, listening, resets>>

\* Mutant: a send settles whatever has become of its connection.
SettleAlways(a, st) ==
    /\ awaits' = awaits \ {a}
    /\ isWorking' = FALSE
    /\ history' = IF history = Undefined THEN history ELSE ReplaceLastWorking(history)
    /\ status' = st
    /\ UNCHANGED <<socket, address, sendGeneration, state, listening, sends, resets>>

\* A send that is still the last one settles: the working message is replaced,
\* unless the history has gone (reading it throws), the status becomes st, and
\* the flag is cleared.  An older one leaves everything alone.
Settle(a, st) ==
    /\ awaits' = awaits \ {a}
    /\ IF a.generation = sendGeneration
       THEN /\ isWorking' = FALSE
            /\ history' = IF history = Undefined THEN history ELSE ReplaceLastWorking(history)
            /\ status' = st
       ELSE UNCHANGED <<isWorking, history, status>>
    /\ UNCHANGED <<socket, address, sendGeneration, state, listening, sends, resets>>

\* The result arrives; with the history gone, the TypeError of reading it is
\* caught as a failed send.
SendOk(a) ==
    /\ a.call = "input"
    /\ Arrives(a)
    /\ Settle(a, IF history = Undefined THEN "error" ELSE status)

\* A JSON-RPC error arrives: the connection is kept.
SendRefused(a) ==
    /\ a.call = "input"
    /\ Arrives(a)
    /\ Settle(a, status)

SendBroken(a) ==
    /\ a.call = "input"
    /\ Breaks(a)
    /\ Settle(a, "error")

ResetSession ==
    /\ CanCall
    /\ resets < MaxResets
    /\ resets' = resets + 1
    /\ awaits' = awaits \cup {Resetting(socket, resets')}
    /\ Transmit(socket, "reset")
    /\ UNCHANGED manager
    /\ UNCHANGED <<state, listening, sends>>

\* The reset is confirmed with the empty history.
ResetOk(a) ==
    /\ a.call = "reset"
    /\ Arrives(a)
    /\ awaits' = awaits \ {a}
    /\ history' = <<>>
    /\ UNCHANGED <<socket, status, address, isWorking, sendGeneration, state,
                   listening, sends, resets>>

ResetErr(a) ==
    /\ a.call = "reset"
    /\ Arrives(a) \/ Breaks(a)
    /\ awaits' = awaits \ {a}
    /\ status' = "error"
    /\ UNCHANGED <<socket, address, history, isWorking, sendGeneration, state,
                   listening, sends, resets>>

\* disconnect never waits.  (Of a manager that shows nothing it only advances
\* the generation, which nobody remembers then.)
Disconnect ==
    /\ status # "idle" \/ isWorking \/ history # Undefined
    /\ state' = Close(state, socket)
    /\ socket' = None
    /\ status' = "idle"
    /\ history' = Undefined
    /\ isWorking' = FALSE
    /\ sendGeneration' = sendGeneration + 1
    /\ UNCHANGED <<address, listening, awaits, wire, sends, resets>>

-----------------------------------------------------------------------------
(***************************************************************************)
(* The network.                                                            *)
(***************************************************************************)

\* The connection fails.
SocketError(s) ==
    /\ state[s] = "open"
    /\ state' = [state EXCEPT ![s] = "broken"]
    /\ UNCHANGED manager
    /\ UNCHANGED <<listening, awaits, wire, sends, resets>>

\* The server closes the connection, perhaps before the acknowledgement.
ServerCloses(s) ==
    /\ state[s] \in {"open", "connecting"}
    /\ state' = [state EXCEPT ![s] = "closing"]
    /\ UNCHANGED manager
    /\ UNCHANGED <<listening, awaits, wire, sends, resets>>

\* The close event.  What an error event rejects has settled by then.
CloseEvent(s) ==
    /\ \/ state[s] = "closing"
       \/ state[s] = "broken" /\ \A a \in awaits : a.socket # s
    /\ state' = [state EXCEPT ![s] = "closed"]
    /\ IF s \in listening /\ socket = s
       THEN socket' = None /\ status' = "idle" /\ history' = Undefined
       ELSE UNCHANGED <<socket, status, history>>
    /\ UNCHANGED <<address, isWorking, sendGeneration, listening, awaits, wire, sends, resets>>

Next ==
    \/ \E a \in Addresses : Connect(a)
    \/ \E s \in Sockets :
          \/ ConnectOk(s) \/ ConnectErr(s) \/ HistoryDone(s)
          \/ SocketError(s) \/ ServerCloses(s) \/ CloseEvent(s)
    \/ Send \/ ResetSession \/ Disconnect
    \/ \E a \in awaits :
          SendOk(a) \/ SendRefused(a) \/ SendBroken(a) \/ ResetOk(a) \/ ResetErr(a)

Spec == Init /\ [][Next]_vars

-----------------------------------------------------------------------------
(***************************************************************************)
(* Properties.                                                             *)
(***************************************************************************)

\* Types of the manager's fields; only a socket whose handshake was
\* acknowledged becomes this.socket.
TypeOK ==
    /\ socket \in Sockets \cup {None}
    /\ socket # None => state[socket] \notin {"unborn", "connecting"}
    /\ status \in {"idle", "connecting", "connected", "error"}
    /\ address \in Addresses
    /\ history = Undefined \/ history \in Seq(MessageKinds)
    /\ isWorking \in BOOLEAN
    /\ sendGeneration \in Nat
    /\ state \in [Sockets -> {"unborn", "connecting", "open", "closing", "broken", "closed"}]
    /\ listening \subseteq Sockets
    /\ \A a \in awaits : a.socket \in Sockets
    /\ wire \in [Sockets -> Seq({"history", "input", "reset"})]

(***************************************************************************)
(* The flag that blocks further sends is owned: it is set exactly while the *)
(* send of the current generation is awaited, so an older send can neither  *)
(* clear it under a newer one nor leave it set with nobody to clear it.     *)
(***************************************************************************)
WorkingHasOwner ==
    isWorking <=> \E a \in awaits : a.call = "input" /\ a.generation = sendGeneration

(***************************************************************************)
(* The server drops what arrives during a turn of the same connection       *)
(* (RpcServer!StreamOverlap).  The manager never provokes that: no request  *)
(* follows an unanswered input on its socket, however connects, resets and  *)
(* sends overlap.                                                           *)
(***************************************************************************)
NeverOverlapsTurn ==
    \A s \in Sockets : \A i \in 1 .. Len(wire[s]) - 1 : wire[s][i] # "input"

Spinners == IF history = Undefined THEN {} ELSE {i \in DOMAIN history : history[i] = "working"}

(***************************************************************************)
(* No working message outlives its turn: once no connect is under way, the  *)
(* history shows one only while a send is pending, and never two.           *)
(***************************************************************************)
NoOrphanSpinner ==
    (\A a \in awaits : a.call \notin {"open", "history"}) =>
        Cardinality(Spinners) <= IF isWorking THEN 1 ELSE 0

(***************************************************************************)
(* Whatever sockets and replies come in whichever order, "working" belongs  *)
(* to a send that is still under way, no request overlaps a turn, and no    *)
(* spinner outlives the work it stands for.                                 *)
(***************************************************************************)
WorkingIsTrue == TypeOK /\ WorkingHasOwner /\ NeverOverlapsTurn /\ NoOrphanSpinner

(***************************************************************************)
(* src/__tests__/background-connection.test.ts: "exposes an in-flight turn  *)
(* in history while a send is pending".  A history that was requested       *)
(* before the send, by connect or by resetSession, replaces it.             *)
(***************************************************************************)
PendingTurnInHistory ==
    isWorking /\ status = "connected" => Spinners # {}
=============================================================================

---------------------- MODULE ExtensionConnectionProofs ----------------------
(***************************************************************************)
(* Theorems about the parts of MCExtensionSuite: the connection manager, for*)
(* any addresses and any number of sockets, sends and resets; and, below,  *)
(* the pending selection of the worker and its popup.                      *)
(***************************************************************************)
EXTENDS MCExtensionSuite, TLAPS, SequenceTheorems, FiniteSetTheorems

(***************************************************************************)
(* The inductive invariant.                                                *)
(***************************************************************************)

Requests == {"history", "input", "reset"}
States == {"unborn", "connecting", "open", "closing", "broken", "closed"}

HasInput(w) == \E i \in DOMAIN w : w[i] = "input"

\* On wire w nothing follows an unanswered input.
InputLast(w) == \A i \in 1 .. Len(w) - 1 : w[i] # "input"

IsSend(a) == a.call = "input"

\* The awaits that count; no two sends remember the same generation, and none
\* remembers one that is still to come.
AwaitsInv ==
    /\ \A a \in awaits : /\ a.call \in {"open", "history", "input", "reset"}
                         /\ IsSend(a) => a.generation \in 0 .. sendGeneration
    /\ \A a, b \in awaits : IsSend(a) /\ IsSend(b) /\ a.generation = b.generation => a = b

\* An input that the manager's own socket has not answered is the one the
\* flag stands for.
WireInv ==
    /\ \A s \in Sockets : InputLast(wire[s])
    /\ \A s \in Sockets : socket = s /\ state[s] = "open" /\ HasInput(wire[s]) =>
          \E a \in awaits : IsSend(a) /\ a.socket = s /\ a.generation = sendGeneration

NoConnect == \A a \in awaits : a.call \notin {"open", "history"}

\* Every connect ends with a history that shows no working message, so until
\* the last one does nothing is said of it.
SpinnerInv ==
    NoConnect => /\ \A i, j \in Spinners : i = j
                 /\ ~isWorking => Spinners = {}

ManagerInv == TypeOK /\ AwaitsInv /\ WorkingHasOwner /\ WireInv /\ SpinnerInv

(***************************************************************************)
(* Sockets and wires.                                                      *)
(***************************************************************************)

\* The sockets are numbered from 1, so that none is None.
LEMMA SocketNumbers == None \notin Sockets
BY ExtensionBounds DEF None, Sockets

\* socket.close() leaves no open socket behind, and opens none.
LEMMA CloseState ==
    ASSUME NEW st \in [Sockets -> States], NEW s \in Sockets \cup {None}
    PROVE  /\ Close(st, s) \in [Sockets -> States]
           /\ \A t \in Sockets : Close(st, s)[t] = "open" => st[t] = "open" /\ t # s
           /\ \A t \in Sockets : Close(st, s)[t] \in {"unborn", "connecting"} => st[t] = Close(st, s)[t]
BY SocketNumbers DEF Close, States

\* The first request of a wire is answered.
LEMMA TailInput ==
    ASSUME NEW w \in Seq(Requests), w # <<>>, InputLast(w)
    PROVE  /\ Tail(w) \in Seq(Requests) /\ InputLast(Tail(w))
           /\ HasInput(Tail(w)) => HasInput(w) /\ Head(w) # "input"
<1>. DEFINE l == Len(w)
            t == Tail(w)
<1>1. /\ l \in Nat /\ l > 0 /\ DOMAIN w = 1 .. l /\ Head(w) = w[1]
      /\ t \in Seq(Requests) /\ Len(t) = l - 1 /\ \A i \in 1 .. l - 1 : t[i] = w[i + 1]
  BY HeadTailProperties, LenProperties, EmptySeq
<1>2. \A i \in 1 .. l - 1 : w[i] # "input"
  BY DEF InputLast
<1>. HIDE DEF l, t
<1>3. DOMAIN t = 1 .. l - 1
  BY <1>1, LenProperties
<1>4. ASSUME NEW i \in 1 .. l - 1 - 1
      PROVE  t[i] # "input"
  <2>1. i + 1 \in 1 .. l - 1 /\ i \in 1 .. l - 1
    BY <1>1
  <2>. QED  BY <1>1, <1>2, <2>1
<1>5. ASSUME HasInput(t)
      PROVE  HasInput(w) /\ Head(w) # "input"
  <2>1. PICK i \in 1 .. l - 1 : t[i] = "input"
    BY <1>3, <1>5 DEF HasInput
  <2>2. i + 1 \in 1 .. l /\ 1 \in 1 .. l - 1
    BY <1>1
  <2>. QED  BY <1>1, <1>2, <2>1, <2>2 DEF HasInput
<1>. QED  BY <1>1, <1>4, <1>5 DEF InputLast, t

\* A request is written after others that are no inputs.
LEMMA AppendInput ==
    ASSUME NEW w \in Seq(Requests), ~HasInput(w), NEW r \in Requests
    PROVE  /\ Append(w, r) \in Seq(Requests) /\ InputLast(Append(w, r))
           /\ HasInput(Append(w, r)) => r = "input"
<1>. DEFINE l == Len(w)
            t == Append(w, r)
<1>1. /\ l \in Nat /\ DOMAIN w = 1 .. l
      /\ t \in Seq(Requests) /\ Len(t) = l + 1 /\ t[l + 1] = r
      /\ \A i \in 1 .. l : t[i] = w[i]
  BY AppendProperties, LenProperties
<1>. HIDE DEF l, t
<1>2. DOMAIN t = 1 .. l + 1
  BY <1>1, LenProperties
<1>3. \A i \in 1 .. l : t[i] # "input"
  BY <1>1 DEF HasInput
<1>4. (l + 1) - 1 = l /\ \A i \in 1 .. l + 1 : i \in 1 .. l \/ i = l + 1
  BY <1>1
<1>. QED  BY <1>1, <1>2, <1>3, <1>4 DEF InputLast, HasInput, t

\* The socket of a caller is not lost and not one in the making.
LEMMA OwnSocket ==
    ASSUME TypeOK, socket # None
    PROVE  socket \in Sockets /\ state[socket] \notin {"unborn", "connecting"}
BY DEF TypeOK

(***************************************************************************)
(* Histories.                                                              *)
(***************************************************************************)

\* The working messages of history h.
Working(h) == IF h = Undefined THEN {} ELSE {i \in DOMAIN h : h[i] = "working"}

IsHistory(h) == h = Undefined \/ h \in Seq(MessageKinds)

\* The spinners of the popup are the working messages of the history.
LEMMA SpinnersOfHistory == Spinners = Working(history)
BY DEF Spinners, Working

\* What the server sends, and no history, shows no working message.
LEMMA FetchedHistory ==
    ASSUME NEW h \in {Undefined, <<>>, <<"user", "complete">>}
    PROVE  IsHistory(h) /\ Working(h) = {}
<1>1. CASE h = Undefined
  BY <1>1 DEF IsHistory, Working
<1>2. CASE h = <<>>
  <2>1. <<>> \in Seq(MessageKinds)
    BY EmptySeq
  <2>. QED  BY <1>2, <2>1 DEF IsHistory, Working
<1>3. CASE h = <<"user", "complete">>
  <2>1. <<"user", "complete">> \in Seq(MessageKinds)
    BY DEF MessageKinds
  <2>2. \A i \in {1, 2} : <<"user", "complete">>[i] # "working"
    OBVIOUS
  <2>3. DOMAIN <<"user", "complete">> = {1, 2}
    OBVIOUS
  <2>. QED  BY <1>3, <2>1, <2>2, <2>3 DEF IsHistory, Working
<1>. QED  BY <1>1, <1>2, <1>3

\* A send shows one working message more.
LEMMA SentHistory ==
    ASSUME NEW h, IsHistory(h)
    PROVE  LET new == (IF h = Undefined THEN <<>> ELSE h) \o <<"user", "working">>
           IN  /\ IsHistory(new)
               /\ Working(h) = {} => \A i, j \in Working(new) : i = j
<1>. DEFINE b == IF h = Undefined THEN <<>> ELSE h
            t == <<"user", "working">>
            l == Len(b)
            new == b \o t
<1>1. b \in Seq(MessageKinds) /\ t \in Seq(MessageKinds) /\ Len(t) = 2
      /\ t[1] = "user" /\ t[2] = "working"
  BY EmptySeq DEF IsHistory, MessageKinds
<1>2. Working(h) = {} => \A i \in DOMAIN b : b[i] # "working"
  BY DEF Working
<1>. HIDE DEF b, t
<1>3. /\ new \in Seq(MessageKinds) /\ l \in Nat /\ Len(new) = l + 2 /\ DOMAIN b = 1 .. l
      /\ \A i \in 1 .. l + 2 : new[i] = IF i <= l THEN b[i] ELSE t[i - l]
  <2>1. l \in Nat /\ DOMAIN b = 1 .. l
    BY ONLY <1>1, LenProperties
  <2>2. /\ new \in Seq(MessageKinds) /\ Len(new) = l + Len(t)
        /\ \A i \in 1 .. l + Len(t) : new[i] = IF i <= l THEN b[i] ELSE t[i - l]
    BY ONLY <1>1, ConcatProperties
  <2>3. l + Len(t) = l + 2
    BY ONLY <1>1
  <2>. QED  BY ONLY <2>1, <2>2, <2>3
<1>. HIDE DEF new, l
<1>4. DOMAIN new = 1 .. l + 2
  BY <1>3, LenProperties
<1>5. ASSUME Working(h) = {}, NEW i \in DOMAIN new, new[i] = "working"
      PROVE  i = l + 2
  <2>1. i \in 1 .. l \/ i = l + 1 \/ i = l + 2
    BY <1>3, <1>4
  <2>2. CASE i \in 1 .. l
    BY <1>2, <1>3, <1>4, <1>5, <2>2
  <2>3. CASE i = l + 1
    <3>1. ~(i <= l) /\ i - l = 1
      BY <1>3, <2>3
    <3>. QED  BY <1>1, <1>3, <1>4, <1>5, <3>1
  <2>. QED  BY <2>1, <2>2, <2>3
<1>. QED  BY <1>3, <1>5 DEF IsHistory, Working, new, b, t

\* A send that settles leaves none.
LEMMA SettledHistory ==
    ASSUME NEW h, IsHistory(h), h # Undefined
    PROVE  /\ IsHistory(ReplaceLastWorking(h))
           /\ (\A i, j \in Working(h) : i = j) => Working(ReplaceLastWorking(h)) = {}
<1>. DEFINE S == {i \in DOMAIN h : h[i] = "working"}
            l == Len(h)
<1>1. /\ h \in Seq(MessageKinds) /\ l \in Nat /\ DOMAIN h = 1 .. l /\ Working(h) = S
      /\ "complete" \in MessageKinds
  BY LenProperties DEF IsHistory, Working, MessageKinds
<1>2. CASE S = {}
  <2>. DEFINE t == Append(h, "complete")
  <2>1. ReplaceLastWorking(h) = t
    BY <1>2 DEF ReplaceLastWorking
  <2>2. /\ t \in Seq(MessageKinds) /\ Len(t) = l + 1 /\ t[l + 1] = "complete"
        /\ \A i \in 1 .. l : t[i] = h[i]
    BY <1>1, AppendProperties
  <2>. HIDE DEF t, l
  <2>3. DOMAIN t = 1 .. l + 1 /\ \A i \in 1 .. l + 1 : i \in 1 .. l \/ i = l + 1
    BY <1>1, <2>2, LenProperties
  <2>4. \A i \in DOMAIN t : t[i] # "working"
    BY <1>1, <1>2, <2>2, <2>3
  <2>. QED  BY <2>1, <2>2, <2>4 DEF IsHistory, Working
<1>3. CASE S # {}
  <2>. DEFINE m == Max(S)
              t == [h EXCEPT ![m] = "complete"]
  <2>1. ReplaceLastWorking(h) = t
    BY <1>3 DEF ReplaceLastWorking
  <2>2. (\A i, j \in S : i = j) => S = {m}
    <3>. SUFFICES ASSUME \A i, j \in S : i = j PROVE S = {m}
      OBVIOUS
    <3>1. PICK x \in S : S = {x}
      BY <1>3
    <3>2. x \in Nat
      BY <1>1
    <3>3. \E y \in S : \A z \in S : y >= z
      BY <3>1, <3>2
    <3>4. m \in S
      BY <3>3 DEF Max
    <3>. QED  BY <3>4
  <2>. HIDE DEF m
  <2>3. t \in [1 .. l -> MessageKinds]
    <3>1. h \in [1 .. l -> MessageKinds]
      BY <1>1, LenProperties
    <3>. HIDE DEF l
    <3>. QED  BY <1>1, <3>1
  <2>4. t \in Seq(MessageKinds)
    BY <1>1, <2>3, SeqDef
  <2>5. (\A i, j \in S : i = j) => \A i \in DOMAIN t : t[i] # "working"
    <3>. SUFFICES ASSUME S = {m}, NEW i \in DOMAIN h PROVE t[i] # "working"
      BY <2>2
    <3>1. CASE i = m
      BY <3>1
    <3>2. CASE i # m
      BY <3>2
    <3>. QED  BY <3>1, <3>2
  <2>6. (\A i, j \in S : i = j) => Working(t) = {}
    BY <2>5 DEF Working
  <2>. QED  BY <1>1, <2>1, <2>4, <2>6 DEF IsHistory
<1>. QED  BY <1>2, <1>3

(***************************************************************************)
(* The steps.                                                              *)
(***************************************************************************)

\* The awaits a request adds, field by field.
LEMMA AwaitFields ==
    ASSUME NEW s, NEW n
    PROVE  /\ Opening(s).call = "open" /\ Opening(s).socket = s
           /\ Fetching(s).call = "history" /\ Fetching(s).socket = s
           /\ Resetting(s, n).call = "reset" /\ Resetting(s, n).socket = s
           /\ Sending(s, n).call = "input" /\ Sending(s, n).socket = s
           /\ Sending(s, n).generation = n
BY DEF Opening, Fetching, Resetting, Sending

\* What is awaited belongs to a socket.
LEMMA TypeOKAwaits == TypeOK => \A a \in awaits : a.socket \in Sockets
BY DEF TypeOK

\* Nothing is awaited, written or shown at first.
LEMMA InitManager == Init => ManagerInv
<1>. SUFFICES ASSUME Init PROVE ManagerInv
  OBVIOUS
<1>1. TypeOK
  BY SocketNumbers, EmptySeq DEF Init, TypeOK, Undefined
<1>2. AwaitsInv /\ WorkingHasOwner /\ SpinnerInv
  BY DEF Init, AwaitsInv, WorkingHasOwner, SpinnerInv, Spinners
<1>3. WireInv
  <2>1. InputLast(<<>>)
    BY EmptySeq DEF InputLast
  <2>. QED  BY <2>1, SocketNumbers DEF Init, WireInv
<1>. QED  BY <1>1, <1>2, <1>3 DEF ManagerInv

\* The manager's own socket is closed before the generation advances, so that
\* no input is left on it without the send of its generation.
LEMMA ConnectInv ==
    ASSUME ManagerInv, NEW a \in Addresses, Connect(a)
    PROVE  ManagerInv'
<1>. USE DEF ManagerInv
<1>1. PICK s \in Sockets : /\ state[s] = "unborn"
                           /\ state' = [Close(state, socket) EXCEPT ![s] = "connecting"]
                           /\ awaits' = awaits \cup {Opening(s)}
  BY DEF Connect
<1>2. /\ status' = "connecting" /\ address' = a /\ isWorking' = FALSE
      /\ sendGeneration' = sendGeneration + 1
      /\ UNCHANGED <<socket, history, listening, wire, sends, resets>>
  BY DEF Connect
<1>. DEFINE st == Close(state, socket)
<1>3. /\ st \in [Sockets -> States]
      /\ \A t \in Sockets : st[t] = "open" => t # socket
      /\ \A t \in Sockets : st[t] \in {"unborn", "connecting"} => state[t] = st[t]
  <2>1. state \in [Sockets -> States] /\ socket \in Sockets \cup {None}
    BY DEF TypeOK, States
  <2>. QED  BY <2>1, CloseState
<1>4. socket # None => socket # s
  BY <1>1, OwnSocket
<1>5. TypeOK'
  <2>1. state' \in [Sockets -> States]
    BY <1>1, <1>3 DEF States
  <2>2. socket # None => state'[socket] \notin {"unborn", "connecting"}
    BY <1>1, <1>3, <1>4, OwnSocket
  <2>3. \A b \in awaits' : b.socket \in Sockets
    BY <1>1, TypeOKAwaits, AwaitFields
  <2>4. sendGeneration' \in Nat
    BY <1>2 DEF TypeOK
  <2>. QED  BY <1>2, <2>1, <2>2, <2>3, <2>4 DEF TypeOK, States
<1>6. AwaitsInv'
  <2>1. \A b \in awaits' : b \in awaits \/ b.call = "open"
    BY <1>1, AwaitFields
  <2>2. 0 .. sendGeneration \subseteq 0 .. sendGeneration'
    BY <1>2 DEF TypeOK
  <2>. QED  BY <2>1, <2>2 DEF AwaitsInv, IsSend
<1>7. WorkingHasOwner'
  <2>1. \A n \in 0 .. sendGeneration : n # sendGeneration'
    BY <1>2 DEF TypeOK
  <2>2. \A b \in awaits' : b.call = "input" => b.generation # sendGeneration'
    BY <1>1, <2>1, AwaitFields DEF AwaitsInv, IsSend
  <2>. QED  BY <1>2, <2>2 DEF WorkingHasOwner
<1>8. WireInv'
  <2>1. \A t \in Sockets : state'[t] = "open" => t # socket
    BY <1>1, <1>3
  <2>. QED  BY <1>2, <2>1 DEF WireInv
<1>9. SpinnerInv'
  BY <1>1, AwaitFields DEF SpinnerInv, NoConnect
<1>. QED  BY <1>5, <1>6, <1>7, <1>8, <1>9

\* A handshake is done: the socket is published and its history asked for.
LEMMA ConnectOkInv ==
    ASSUME ManagerInv, NEW s \in Sockets, ConnectOk(s)
    PROVE  ManagerInv'
<1>. USE DEF ManagerInv
<1>1. /\ state' = [state EXCEPT ![s] = "open"] /\ socket' = s /\ status' = "connected"
      /\ awaits' = (awaits \ {Opening(s)}) \cup {Fetching(s)}
      /\ wire' = [wire EXCEPT ![s] = <<"history">>]
      /\ UNCHANGED <<address, history, isWorking, sendGeneration, listening, sends, resets>>
  BY DEF ConnectOk
<1>2. /\ <<"history">> \in Seq(Requests) /\ InputLast(<<"history">>)
      /\ ~HasInput(<<"history">>)
  BY DEF Requests, InputLast, HasInput
<1>3. TypeOK'
  <2>1. wire' \in [Sockets -> Seq(Requests)]
    BY <1>1, <1>2 DEF TypeOK, Requests
  <2>2. \A b \in awaits' : b.socket \in Sockets
    BY <1>1, TypeOKAwaits, AwaitFields
  <2>3. state' \in [Sockets -> States] /\ state'[s] = "open"
    BY <1>1 DEF TypeOK, States
  <2>. QED  BY <1>1, <2>1, <2>2, <2>3 DEF TypeOK, Requests, States
<1>4. \A b \in awaits' : b \in awaits \/ b.call = "history"
  BY <1>1, AwaitFields
<1>5. \A b \in awaits : b.call = "input" => b \in awaits'
  BY <1>1, AwaitFields
<1>6. AwaitsInv'
  BY <1>1, <1>4 DEF AwaitsInv, IsSend
<1>7. WorkingHasOwner'
  BY <1>1, <1>4, <1>5 DEF WorkingHasOwner
<1>8. WireInv'
  BY <1>1, <1>2 DEF WireInv, TypeOK
<1>9. SpinnerInv'
  BY <1>1, AwaitFields DEF SpinnerInv, NoConnect
<1>. QED  BY <1>3, <1>6, <1>7, <1>8, <1>9

\* A failed connect forgets the socket and the history.
LEMMA ConnectErrInv ==
    ASSUME ManagerInv, NEW s \in Sockets, ConnectErr(s)
    PROVE  ManagerInv'
<1>. USE DEF ManagerInv
<1>1. /\ state' = [state EXCEPT ![s] = "closed"] /\ socket' = None /\ status' = "error"
      /\ awaits' = awaits \ {Opening(s)} /\ history' = Undefined
      /\ UNCHANGED <<address, isWorking, sendGeneration, listening, wire, sends, resets>>
  BY DEF ConnectErr
<1>2. TypeOK'
  BY <1>1 DEF TypeOK
<1>3. \A b \in awaits : b.call = "input" => b \in awaits'
  BY <1>1, AwaitFields
<1>4. AwaitsInv' /\ WorkingHasOwner'
  BY <1>1, <1>3 DEF AwaitsInv, WorkingHasOwner, IsSend
<1>5. WireInv'
  BY <1>1, SocketNumbers DEF WireInv
<1>6. SpinnerInv'
  BY <1>1 DEF SpinnerInv, Spinners
<1>. QED  BY <1>2, <1>4, <1>5, <1>6

\* An answer takes the first request off the wire of its socket.
LEMMA AnsweredWire ==
    ASSUME TypeOK, WireInv, NEW a \in awaits, Arrives(a)
    PROVE  /\ a.socket \in Sockets /\ state[a.socket] = "open"
           /\ wire' \in [Sockets -> Seq(Requests)]
           /\ \A s \in Sockets : InputLast(wire'[s])
           /\ \A s \in Sockets : HasInput(wire'[s]) => HasInput(wire[s])
           /\ a.call = "input" => ~HasInput(wire'[a.socket])
<1>. DEFINE t == a.socket
            w == wire[t]
<1>1. /\ t \in Sockets /\ state[t] = "open" /\ w # <<>> /\ Head(w) = a.call
      /\ wire' = [wire EXCEPT ![t] = Tail(w)]
      /\ wire \in [Sockets -> Seq(Requests)]
  BY DEF TypeOK, Arrives, Requests
<1>2. w \in Seq(Requests) /\ InputLast(w)
  BY <1>1 DEF WireInv
<1>. HIDE DEF w, t
<1>3. /\ Tail(w) \in Seq(Requests) /\ InputLast(Tail(w))
      /\ HasInput(Tail(w)) => HasInput(w) /\ Head(w) # "input"
  BY <1>1, <1>2, TailInput
<1>4. \A s \in Sockets : wire'[s] = IF s = t THEN Tail(w) ELSE wire[s]
  BY <1>1
<1>. QED  BY <1>1, <1>3, <1>4 DEF w, t, WireInv

\* The history that was asked for replaces the one shown.
LEMMA HistoryDoneInv ==
    ASSUME ManagerInv, NEW s \in Sockets, HistoryDone(s)
    PROVE  ManagerInv'
<1>. USE DEF ManagerInv
<1>1. /\ awaits' = awaits \ {Fetching(s)} /\ listening' = listening \cup {s}
      /\ UNCHANGED <<socket, status, address, isWorking, sendGeneration, state, sends, resets>>
      /\ Fetching(s) \in awaits
  BY DEF HistoryDone, Arrives, Breaks
<1>2. history' \in {Undefined, <<>>, <<"user", "complete">>}
  BY DEF HistoryDone
<1>3. /\ wire' \in [Sockets -> Seq(Requests)]
      /\ \A t \in Sockets : InputLast(wire'[t])
      /\ \A t \in Sockets : HasInput(wire'[t]) => HasInput(wire[t])
  <2>1. CASE Arrives(Fetching(s))
    BY <1>1, <2>1, AnsweredWire
  <2>2. CASE Breaks(Fetching(s))
    BY <2>2 DEF Breaks, TypeOK, WireInv, Requests
  <2>. QED  BY <2>1, <2>2 DEF HistoryDone
<1>4. IsHistory(history') /\ Working(history') = {}
  BY <1>2, FetchedHistory
<1>5. TypeOK'
  BY <1>1, <1>3, <1>4 DEF TypeOK, IsHistory, Requests
<1>6. \A b \in awaits : b.call = "input" => b \in awaits'
  BY <1>1, AwaitFields
<1>7. AwaitsInv' /\ WorkingHasOwner'
  BY <1>1, <1>6 DEF AwaitsInv, WorkingHasOwner, IsSend
<1>8. WireInv'
  BY <1>1, <1>3, <1>6 DEF WireInv, IsSend
<1>9. SpinnerInv'
  BY <1>4 DEF SpinnerInv, Spinners, Working
<1>. QED  BY <1>5, <1>7, <1>8, <1>9

\* The request is written only where no input is unanswered: an unanswered one
\* would be that of the current generation, and the flag would be set.
LEMMA TransmittedWire ==
    ASSUME TypeOK, WireInv, WorkingHasOwner, CanCall, NEW r \in Requests, Transmit(socket, r)
    PROVE  /\ socket \in Sockets
           /\ wire' \in [Sockets -> Seq(Requests)]
           /\ \A s \in Sockets : InputLast(wire'[s])
           /\ state[socket] = "open" => ~HasInput(wire[socket])
           /\ state[socket] = "open" /\ HasInput(wire'[socket]) => r = "input"
<1>1. socket \in Sockets /\ wire \in [Sockets -> Seq(Requests)] /\ ~isWorking
  BY OwnSocket DEF TypeOK, CanCall, Requests
<1>. DEFINE w == wire[socket]
<1>2. w \in Seq(Requests)
  BY <1>1
<1>3. CASE state[socket] = "open"
  <2>1. ~HasInput(w)
    BY <1>1, <1>3 DEF WireInv, WorkingHasOwner, IsSend
  <2>2. wire' = [wire EXCEPT ![socket] = Append(w, r)]
    BY <1>3 DEF Transmit
  <2>. HIDE DEF w
  <2>3. /\ Append(w, r) \in Seq(Requests) /\ InputLast(Append(w, r))
        /\ HasInput(Append(w, r)) => r = "input"
    BY <1>2, <2>1, AppendInput
  <2>4. \A s \in Sockets : wire'[s] = IF s = socket THEN Append(w, r) ELSE wire[s]
    BY <1>1, <2>2
  <2>5. wire' \in [Sockets -> Seq(Requests)]
    BY <1>1, <2>2, <2>3
  <2>. QED  BY <1>1, <2>1, <2>3, <2>4, <2>5 DEF w, WireInv
<1>4. CASE state[socket] # "open"
  BY <1>1, <1>4 DEF Transmit, WireInv
<1>. QED  BY <1>3, <1>4

\* A send takes a new generation, adds two messages and one input.
LEMMA SendInv ==
    ASSUME ManagerInv, Send
    PROVE  ManagerInv'
<1>. USE DEF ManagerInv
<1>. DEFINE g == sendGeneration + 1
            new == Sending(socket, g)
<1>1. /\ sendGeneration' = g /\ isWorking' = TRUE
      /\ history' = (IF history = Undefined THEN <<>> ELSE history) \o <<"user", "working">>
      /\ awaits' = awaits \cup {new}
      /\ UNCHANGED <<socket, status, address, state, listening, resets>>
      /\ ~isWorking
  BY DEF Send, CanCall
<1>2. new.call = "input" /\ new.socket = socket /\ new.generation = g
  BY AwaitFields
<1>3. g \in Nat /\ (\A n \in 0 .. sendGeneration : n # g /\ n \in 0 .. g) /\ g \in 0 .. g
  BY DEF TypeOK
<1>. HIDE DEF new, g
<1>4. /\ socket \in Sockets
      /\ wire' \in [Sockets -> Seq(Requests)]
      /\ \A s \in Sockets : InputLast(wire'[s])
  BY TransmittedWire DEF Send, Requests
<1>5. /\ IsHistory(history')
      /\ Working(history) = {} => \A i, j \in Working(history') : i = j
  <2>1. IsHistory(history)
    BY DEF TypeOK, IsHistory
  <2>. QED  BY <1>1, <2>1, SentHistory
<1>6. TypeOK'
  <2>1. \A b \in awaits' : b.socket \in Sockets
    BY <1>1, <1>2, <1>4, TypeOKAwaits
  <2>. QED  BY <1>1, <1>3, <1>4, <1>5, <2>1 DEF TypeOK, IsHistory, Requests
<1>7. AwaitsInv'
  BY <1>1, <1>2, <1>3 DEF AwaitsInv, IsSend
<1>8. WorkingHasOwner'
  BY <1>1, <1>2 DEF WorkingHasOwner
<1>9. WireInv'
  BY <1>1, <1>2, <1>4 DEF WireInv, IsSend
<1>10. SpinnerInv'
  <2>1. NoConnect' => NoConnect
    BY <1>1 DEF NoConnect
  <2>. QED  BY <1>1, <1>5, <2>1, SpinnersOfHistory DEF SpinnerInv, Spinners, Working
<1>. QED  BY <1>6, <1>7, <1>8, <1>9, <1>10

\* A send settles, because of its answer or of the socket's error.
LEMMA SettleInv ==
    ASSUME ManagerInv, NEW a \in awaits, a.call = "input",
           NEW st \in {"idle", "connecting", "connected", "error"},
           Settle(a, st), Arrives(a) \/ Breaks(a)
    PROVE  ManagerInv'
<1>. USE DEF ManagerInv
<1>1. /\ awaits' = awaits \ {a}
      /\ UNCHANGED <<socket, address, sendGeneration, state, listening, sends, resets>>
  BY DEF Settle
<1>2. /\ wire' \in [Sockets -> Seq(Requests)]
      /\ \A s \in Sockets : InputLast(wire'[s])
      /\ \A s \in Sockets : HasInput(wire'[s]) => HasInput(wire[s])
      /\ a.socket \in Sockets
      /\ state[a.socket] = "open" => ~HasInput(wire'[a.socket])
  <2>1. CASE Arrives(a)
    BY <2>1, AnsweredWire
  <2>2. CASE Breaks(a)
    BY <2>2 DEF Breaks, TypeOK, WireInv, Requests
  <2>. QED  BY <2>1, <2>2
\* The owner of an input that stays on the manager's socket is another send.
<1>3. WireInv'
  <2>. SUFFICES ASSUME NEW s \in Sockets, socket = s, state[s] = "open", HasInput(wire'[s])
                PROVE  \E b \in awaits' : IsSend(b) /\ b.socket = s /\ b.generation = sendGeneration
    BY <1>1, <1>2 DEF WireInv
  <2>1. PICK b \in awaits : IsSend(b) /\ b.socket = s /\ b.generation = sendGeneration
    BY <1>2 DEF WireInv
  <2>2. b # a
    BY <1>2, <2>1
  <2>. QED  BY <1>1, <2>1, <2>2
<1>4. AwaitsInv'
  BY <1>1 DEF AwaitsInv, IsSend
<1>5. NoConnect' => NoConnect
  BY <1>1 DEF NoConnect
<1>6. \A b \in awaits' : b \in awaits /\ b # a
  BY <1>1
<1>7. CASE a.generation = sendGeneration
  <2>1. /\ isWorking' = FALSE /\ status' = st
        /\ history' = IF history = Undefined THEN history ELSE ReplaceLastWorking(history)
    BY <1>7 DEF Settle
  <2>2. /\ IsHistory(history')
        /\ (\A i, j \in Working(history) : i = j) => Working(history') = {}
    <3>1. IsHistory(history)
      BY DEF TypeOK, IsHistory
    <3>2. CASE history = Undefined
      BY <2>1, <3>1, <3>2 DEF Working
    <3>3. CASE history # Undefined
      BY <2>1, <3>1, <3>3, SettledHistory
    <3>. QED  BY <3>2, <3>3
  <2>3. TypeOK'
    BY <1>1, <1>2, <2>1, <2>2 DEF TypeOK, IsHistory, Requests
  <2>4. WorkingHasOwner'
    BY <1>1, <1>6, <1>7, <2>1 DEF WorkingHasOwner, AwaitsInv, IsSend
  <2>5. SpinnerInv'
    BY <1>5, <2>2, SpinnersOfHistory DEF SpinnerInv, Spinners, Working
  <2>. QED  BY <1>3, <1>4, <2>3, <2>4, <2>5
<1>8. CASE a.generation # sendGeneration
  <2>1. UNCHANGED <<isWorking, history, status>>
    BY <1>8 DEF Settle
  <2>2. TypeOK'
    BY <1>1, <1>2, <2>1 DEF TypeOK, Requests
  <2>3. WorkingHasOwner'
    BY <1>1, <1>8, <2>1 DEF WorkingHasOwner
  <2>4. SpinnerInv'
    BY <1>5, <2>1 DEF SpinnerInv, Spinners
  <2>. QED  BY <1>3, <1>4, <2>2, <2>3, <2>4
<1>. QED  BY <1>7, <1>8

\* The three ways a send settles.
LEMMA SendSettlesInv ==
    ASSUME ManagerInv, NEW a \in awaits, SendOk(a) \/ SendRefused(a) \/ SendBroken(a)
    PROVE  ManagerInv'
<1>1. status \in {"idle", "connecting", "connected", "error"}
  BY DEF ManagerInv, TypeOK
<1>2. CASE SendOk(a)
  BY <1>1, <1>2, SettleInv DEF SendOk
<1>3. CASE SendRefused(a)
  BY <1>1, <1>3, SettleInv DEF SendRefused
<1>4. CASE SendBroken(a)
  BY <1>4, SettleInv DEF SendBroken
<1>. QED  BY <1>2, <1>3, <1>4

\* A reset is asked for when nothing is pending.
LEMMA ResetSessionInv ==
    ASSUME ManagerInv, ResetSession
    PROVE  ManagerInv'
<1>. USE DEF ManagerInv
<1>. DEFINE new == Resetting(socket, resets + 1)
<1>1. /\ awaits' = awaits \cup {new}
      /\ UNCHANGED <<socket, status, address, history, isWorking, sendGeneration>>
      /\ UNCHANGED <<state, listening, sends>>
  BY DEF ResetSession, manager
<1>2. new.call = "reset" /\ new.socket = socket
  BY AwaitFields
<1>. HIDE DEF new
<1>3. /\ socket \in Sockets
      /\ wire' \in [Sockets -> Seq(Requests)]
      /\ \A s \in Sockets : InputLast(wire'[s])
      /\ state[socket] = "open" => ~HasInput(wire'[socket])
  <2>1. "reset" \in Requests /\ CanCall /\ Transmit(socket, "reset")
    BY DEF ResetSession, Requests
  <2>. QED  BY <2>1, TransmittedWire
<1>4. TypeOK'
  <2>1. \A b \in awaits' : b.socket \in Sockets
    BY <1>1, <1>2, <1>3, TypeOKAwaits
  <2>. QED  BY <1>1, <1>3, <2>1 DEF TypeOK, Requests
<1>5. AwaitsInv'
  BY <1>1, <1>2 DEF AwaitsInv, IsSend
<1>6. WorkingHasOwner'
  BY <1>1, <1>2 DEF WorkingHasOwner
<1>7. WireInv'
  BY <1>1, <1>3 DEF WireInv, IsSend
<1>8. SpinnerInv'
  BY <1>1 DEF SpinnerInv, Spinners, NoConnect
<1>. QED  BY <1>4, <1>5, <1>6, <1>7, <1>8

\* A reset is answered, with the empty history or an error, or breaks.
LEMMA ResetSettlesInv ==
    ASSUME ManagerInv, NEW a \in awaits, ResetOk(a) \/ ResetErr(a)
    PROVE  ManagerInv'
<1>. USE DEF ManagerInv
<1>1. /\ awaits' = awaits \ {a} /\ a.call = "reset"
      /\ status' \in {status, "error"}
      /\ history' = history \/ history' = <<>>
      /\ UNCHANGED <<socket, address, isWorking, sendGeneration, state, listening, sends, resets>>
  BY DEF ResetOk, ResetErr
<1>2. /\ wire' \in [Sockets -> Seq(Requests)]
      /\ \A s \in Sockets : InputLast(wire'[s])
      /\ \A s \in Sockets : HasInput(wire'[s]) => HasInput(wire[s])
  <2>1. CASE Arrives(a)
    BY <2>1, AnsweredWire
  <2>2. CASE Breaks(a)
    BY <2>2 DEF Breaks, TypeOK, WireInv, Requests
  <2>. QED  BY <2>1, <2>2 DEF ResetOk, ResetErr
<1>3. IsHistory(<<>>) /\ Working(<<>>) = {}
  BY FetchedHistory
<1>4. TypeOK'
  <2>1. history' = Undefined \/ history' \in Seq(MessageKinds)
    BY <1>1, EmptySeq DEF TypeOK
  <2>. QED  BY <1>1, <1>2, <2>1 DEF TypeOK, Requests
<1>5. \A b \in awaits : b.call = "input" => b \in awaits'
  BY <1>1
<1>6. AwaitsInv' /\ WorkingHasOwner'
  BY <1>1, <1>5 DEF AwaitsInv, WorkingHasOwner, IsSend
<1>7. WireInv'
  BY <1>1, <1>2, <1>5 DEF WireInv, IsSend
<1>8. SpinnerInv'
  <2>1. NoConnect' => NoConnect
    BY <1>1 DEF NoConnect
  <2>2. Spinners' = Spinners \/ Spinners' = {}
    BY <1>1, <1>3 DEF Spinners, Working
  <2>. QED  BY <1>1, <2>1, <2>2 DEF SpinnerInv
<1>. QED  BY <1>4, <1>6, <1>7, <1>8

\* A disconnect ends the generation and clears the flag and the history.
LEMMA DisconnectInv ==
    ASSUME ManagerInv, Disconnect
    PROVE  ManagerInv'
<1>. USE DEF ManagerInv
<1>1. /\ state' = Close(state, socket) /\ socket' = None /\ status' = "idle"
      /\ history' = Undefined /\ isWorking' = FALSE /\ sendGeneration' = sendGeneration + 1
      /\ UNCHANGED <<address, listening, awaits, wire, sends, resets>>
  BY DEF Disconnect
<1>2. state' \in [Sockets -> States]
  <2>1. state \in [Sockets -> States] /\ socket \in Sockets \cup {None}
    BY DEF TypeOK, States
  <2>. QED  BY <1>1, <2>1, CloseState
<1>3. /\ sendGeneration' \in Nat
      /\ \A n \in 0 .. sendGeneration : n # sendGeneration' /\ n \in 0 .. sendGeneration'
  BY <1>1 DEF TypeOK
<1>4. TypeOK'
  BY <1>1, <1>2, <1>3 DEF TypeOK, States
<1>5. AwaitsInv'
  BY <1>1, <1>3 DEF AwaitsInv
<1>6. WorkingHasOwner'
  BY <1>1, <1>3 DEF WorkingHasOwner, AwaitsInv, IsSend
<1>7. WireInv'
  BY <1>1, SocketNumbers DEF WireInv
<1>8. SpinnerInv'
  BY <1>1 DEF SpinnerInv, Spinners
<1>. QED  BY <1>4, <1>5, <1>6, <1>7, <1>8

\* What the network does to a socket opens none.
LEMMA NetworkInv ==
    ASSUME ManagerInv, NEW s \in Sockets, SocketError(s) \/ ServerCloses(s) \/ CloseEvent(s)
    PROVE  ManagerInv'
<1>. USE DEF ManagerInv
<1>1. PICK x \in {"broken", "closing", "closed"} : state' = [state EXCEPT ![s] = x]
  BY DEF SocketError, ServerCloses, CloseEvent
<1>2. /\ UNCHANGED <<address, isWorking, sendGeneration, listening, awaits, wire, sends, resets>>
      /\ \/ UNCHANGED <<socket, status, history>>
         \/ socket' = None /\ status' = "idle" /\ history' = Undefined
  BY DEF SocketError, ServerCloses, CloseEvent, manager
<1>3. /\ state' \in [Sockets -> States]
      /\ \A t \in Sockets : state'[t] = "open" => state[t] = "open"
      /\ \A t \in Sockets : state'[t] \in {"unborn", "connecting"} => state'[t] = state[t]
  BY <1>1 DEF TypeOK, States
<1>4. TypeOK'
  <2>1. socket' # None => state'[socket'] \notin {"unborn", "connecting"}
    BY <1>2, <1>3, OwnSocket
  <2>. QED  BY <1>2, <1>3, <2>1 DEF TypeOK, States
<1>5. AwaitsInv' /\ WorkingHasOwner'
  BY <1>2 DEF AwaitsInv, WorkingHasOwner
<1>6. WireInv'
  BY <1>2, <1>3, SocketNumbers DEF WireInv
<1>7. SpinnerInv'
  BY <1>2 DEF SpinnerInv, Spinners, NoConnect
<1>. QED  BY <1>4, <1>5, <1>6, <1>7

(***************************************************************************)
(* The theorem.                                                            *)
(***************************************************************************)

\* A step that changes nothing.
LEMMA StutterInv ==
    ASSUME ManagerInv, UNCHANGED vars
    PROVE  ManagerInv'
BY DEF vars, ManagerInv, TypeOK, AwaitsInv, WorkingHasOwner, WireInv, SpinnerInv, Spinners, NoConnect

\* Every step of the manager, of the server and of the network keeps the
\* invariant.
LEMMA NextManager == ManagerInv /\ [Next]_vars => ManagerInv'
<1>. SUFFICES ASSUME ManagerInv, [Next]_vars PROVE ManagerInv'
  OBVIOUS
<1>1. ASSUME NEW a \in Addresses, Connect(a) PROVE ManagerInv'
  BY <1>1, ConnectInv
<1>2. ASSUME NEW s \in Sockets, ConnectOk(s) \/ ConnectErr(s) \/ HistoryDone(s)
      PROVE  ManagerInv'
  BY <1>2, ConnectOkInv, ConnectErrInv, HistoryDoneInv
<1>3. ASSUME NEW s \in Sockets, SocketError(s) \/ ServerCloses(s) \/ CloseEvent(s)
      PROVE  ManagerInv'
  BY <1>3, NetworkInv
<1>4. CASE Send \/ ResetSession \/ Disconnect
  BY <1>4, SendInv, ResetSessionInv, DisconnectInv
<1>5. ASSUME NEW a \in awaits,
             SendOk(a) \/ SendRefused(a) \/ SendBroken(a) \/ ResetOk(a) \/ ResetErr(a)
      PROVE  ManagerInv'
  BY <1>5, SendSettlesInv, ResetSettlesInv
<1>6. CASE UNCHANGED vars
  BY <1>6, StutterInv
<1>. QED  BY <1>1, <1>2, <1>3, <1>4, <1>5, <1>6 DEF Next

\* The invariant says what the popup may rely on.
LEMMA ManagerWorks == ManagerInv => WorkingIsTrue
<1>. SUFFICES ASSUME ManagerInv PROVE NeverOverlapsTurn /\ NoOrphanSpinner
  BY DEF ManagerInv, WorkingIsTrue
<1>1. NeverOverlapsTurn
  BY DEF ManagerInv, WireInv, InputLast, NeverOverlapsTurn
<1>2. NoOrphanSpinner
  <2>. SUFFICES ASSUME NoConnect PROVE Cardinality(Spinners) <= IF isWorking THEN 1 ELSE 0
    BY DEF NoOrphanSpinner, NoConnect
  <2>1. (\A i, j \in Spinners : i = j) /\ (~isWorking => Spinners = {})
    BY DEF ManagerInv, SpinnerInv
  <2>2. CASE Spinners = {}
    <3>1. Cardinality(Spinners) = 0
      BY <2>2, FS_EmptySet
    <3>. QED  BY <3>1
  <2>3. CASE Spinners # {}
    <3>1. PICK x : Spinners = {x}
      BY <2>1, <2>3
    <3>2. Cardinality(Spinners) = 1 /\ isWorking
      BY <2>1, <2>3, <3>1, FS_Singleton
    <3>. QED  BY <3>2
  <2>. QED  BY <2>2, <2>3
<1>. QED  BY <1>1, <1>2

(***************************************************************************)
(* However the connects, sends, resets and disconnects of the popup overlap *)
(* and whatever becomes of the sockets, "working" belongs to the send of   *)
(* the current generation, no request follows an unanswered input on its   *)
(* socket, and no spinner outlives its turn: for any number of addresses,  *)
(* sockets, sends and resets.                                              *)
(***************************************************************************)
THEOREM WorkingIsOwned == Spec => []WorkingIsTrue
<1>1. Spec => []ManagerInv
  BY InitManager, NextManager, PTL DEF Spec
<1>. QED  BY <1>1, ManagerWorks, PTL

(***************************************************************************)
(* The pending selection, part "pending": for any selections, any number of*)
(* openings of the popup and of restarts of the worker.                    *)
(***************************************************************************)

\* The variables of the part, named as the component names them.

mem == v1
store == v2
calls == v3
link == v4
working == v5
toBg == v6
toPopup == v7
popup == v8
captured == v9
opens == v10
restarts == v11
last == v12
sent == v13
raced == v14
USE DEF mem, store, calls, link, working, toBg, toPopup, popup,
        captured, opens, restarts, last, sent, raced

\* Requests, storage calls and replies; requests that set a context carry one.
PcAsk == [t : {"status", "clear", "set", "send", "connect", "disconnect"},
          ctx : Contexts \cup {NoContext}, from : Nat]
PcCall == [op : {"load", "save", "remove"}, ctx : Contexts \cup {NoContext}, from : Nat]
PcNews == [t : {"status", "pendingContext", "statusChanged", "ok", "disconnected", "refused"},
           ctx : Contexts \cup {NoContext}, canChat : BOOLEAN, working : BOOLEAN]
PcPopup == [pc : {"closed", "init", "ready", "connecting", "clearing", "sending", "restoring"},
            ctx : Contexts \cup {NoContext}, sending : Contexts \cup {NoContext},
            canChat : BOOLEAN, working : BOOLEAN]

PcTypes ==
    /\ mem \in Contexts \cup {NoContext, Unset}
    /\ store \in Contexts \cup {NoContext} /\ last \in Contexts \cup {NoContext}
    /\ calls \in Seq(PcCall) /\ toBg \in Seq(PcAsk) /\ toPopup \in Seq(PcNews)
    /\ popup \in PcPopup
    /\ link \in {"idle", "connected"} /\ working \in BOOLEAN /\ raced \in BOOLEAN
    /\ opens \in Nat /\ captured \subseteq Contexts /\ sent \subseteq captured

\* What an open popup waits for is of the kind it asked for, and in one place: its
\* request, the storage call for it, or the reply.  Earlier popups' requests are not
\* answered, and what is carried out for nobody is numbered 0.
PcAsked(pc) ==
    CASE pc = "init" -> {"status"} [] pc = "connecting" -> {"connect", "disconnect"}
      [] pc = "clearing" -> {"clear"} [] pc = "sending" -> {"send"}
      [] pc = "restoring" -> {"set"} [] OTHER -> {}
PcDoing(pc) ==
    CASE pc = "init" -> {"load"} [] pc = "clearing" -> {"remove"}
      [] pc = "restoring" -> {"save"} [] OTHER -> {}
PcReplies(pc) ==
    CASE pc = "init" -> {"status"} [] pc \in {"connecting", "clearing", "restoring"} -> {"ok"}
      [] pc = "sending" -> {"ok", "disconnected", "refused"} [] OTHER -> {}

PcMine(i) == toBg[i].from = opens
PcDone(i) == calls[i].from = opens
PcReply(i) == toPopup[i].t \notin {"pendingContext", "statusChanged"}
PcWaits ==
    /\ popup.pc = "closed" => toPopup = <<>>
    /\ \A i \in 1..Len(toBg) : toBg[i].from <= opens
    /\ \A i \in 1..Len(toBg) : toBg[i].t \in {"set", "send"} \/ toBg[i].ctx = NoContext
    /\ \A i \in 1..Len(calls) : calls[i].from <= opens
    /\ popup.pc # "closed" =>
          /\ opens > 0
          /\ \A i \in 1..Len(toBg) : PcMine(i) =>
                /\ toBg[i].t \in PcAsked(popup.pc)
                /\ \A j \in 1..Len(toBg) : PcMine(j) => i = j
                /\ \A j \in 1..Len(calls) : ~PcDone(j)
                /\ \A j \in 1..Len(toPopup) : ~PcReply(j)
          /\ \A i \in 1..Len(calls) : PcDone(i) =>
                /\ calls[i].op \in PcDoing(popup.pc)
                /\ \A j \in 1..Len(calls) : PcDone(j) => i = j
                /\ \A j \in 1..Len(toPopup) : ~PcReply(j)
          /\ \A i \in 1..Len(toPopup) : PcReply(i) =>
                /\ toPopup[i].t \in PcReplies(popup.pc)
                /\ \A j \in 1..Len(toPopup) : PcReply(j) => i = j

\* The worker: loads and assignments are not in flight together, the last
\* assignment in flight is the last there was, and without one the storage holds it.
PcWorker ==
    ~raced =>
        /\ mem \in {Unset, last}
        /\ \/ store = last /\ \A i \in 1..Len(calls) : calls[i].op = "load"
           \/ /\ calls # <<>> /\ calls[Len(calls)].ctx = last /\ mem = last
              /\ \A i \in 1..Len(calls) : calls[i].op # "load"

\* When no assignment is on its way, the last word on its way to the popup about
\* the context, or else the popup itself, tells the last one.
PcTells(i) == toPopup[i].t \in {"status", "pendingContext"}
PcChip ==
    /\ ~raced /\ popup.pc # "closed"
    /\ \A i \in 1..Len(toBg) : toBg[i].t \notin {"set", "clear"}
    /\ \A i \in 1..Len(calls) : calls[i].op = "load"
    => \E i \in 0..Len(toPopup) :
          /\ i = 0 => popup.pc = "init" \/ popup.ctx = last
          /\ i # 0 => PcTells(i) /\ toPopup[i].ctx = last
          /\ \A j \in 1..Len(toPopup) : j > i => ~PcTells(j)

\* Where a context may be.
PcHeld(x) == x \in {mem, last, store} \/ \E i \in 1..Len(calls) : calls[i].ctx = x
PcShown(x) == popup.ctx = x \/ \E i \in 1..Len(toPopup) : toPopup[i].ctx = x
PcSends(i, x) == toBg[i].t = "send" /\ toBg[i].ctx = x
PcSets(i, x) == toBg[i].t = "set" /\ toBg[i].ctx = x

\* Only what was captured is anywhere.
PcKnown ==
    \A x \in Contexts \ captured :
        /\ ~PcHeld(x) /\ ~PcShown(x) /\ x # popup.sending
        /\ \A i \in 1..Len(toBg) : toBg[i].ctx # x

\* The agent has the context, or is being given it.
PcOut(x) ==
    \/ x \in sent
    \/ \E i \in 1..Len(toBg) : PcSends(i, x)
    \/ popup.pc = "sending" /\ popup.sending = x

\* Such a context is nowhere else.
PcGone(x) ==
    PcOut(x) => ~PcHeld(x) /\ ~PcShown(x) /\ \A i \in 1..Len(toBg) : ~PcSets(i, x)

\* One request sends it, before the agent has it; who sends it waits for that.
PcSendOnce(x) ==
    \A i \in 1..Len(toBg) : PcSends(i, x) =>
        /\ x \notin sent
        /\ \A j \in 1..Len(toBg) : PcSends(j, x) => i = j
        /\ popup.sending = x => popup.pc = "sending" /\ PcMine(i)

\* One request brings it back, and until it is handled only the popup that made
\* it shows it.
PcSetOnce(x) ==
    \A i \in 1..Len(toBg) : PcSets(i, x) =>
        /\ ~PcHeld(x) /\ popup.sending # x
        /\ \A j \in 1..Len(toPopup) : toPopup[j].ctx # x
        /\ \A j \in 1..Len(toBg) : PcSets(j, x) => i = j
        /\ popup.ctx = x => popup.pc = "restoring" /\ PcMine(i)

\* A popup that is told that the connection is down has not given it away.
PcSending(x) ==
    /\ popup.sending = x => popup.pc \in {"clearing", "sending"}
    /\ popup.pc = "sending" /\ popup.sending = x =>
          /\ \A i \in 1..Len(toBg) : PcMine(i) => toBg[i].ctx = x
          /\ \A i \in 1..Len(toPopup) : toPopup[i].t \in {"disconnected", "refused"} => x \notin sent

\* Once a popup is told that the context is cleared, nothing that shows it follows.
PcClearing(x) ==
    popup.pc = "clearing" /\ popup.sending = x =>
        /\ x \notin sent
        /\ \A i \in 1..Len(calls) : PcDone(i) =>
              x \notin {mem, last} /\ \A j \in 1..Len(calls) : calls[j].ctx = x => j < i
        /\ \A i \in 1..Len(toPopup) : PcReply(i) =>
              /\ ~PcHeld(x)
              /\ \E j \in 0..i - 1 :
                    /\ j = 0 => popup.ctx # x
                    /\ j # 0 => toPopup[j].t = "pendingContext" /\ toPopup[j].ctx # x
                    /\ \A k \in 1..Len(toPopup) : k > j => toPopup[k].ctx # x

PcGiven(x) == PcGone(x) /\ PcSendOnce(x) /\ PcSetOnce(x) /\ PcSending(x) /\ PcClearing(x)

PcInv ==
    /\ PcTypes /\ PcWaits /\ PcWorker /\ PcChip /\ PcKnown
    /\ ~raced => \A x \in Contexts : PcGiven(x)

\* Queue r is q without its first element, or with m at its end.
PcTook(q, r) ==
    /\ Len(q) \in Nat \ {0} /\ Len(r) = Len(q) - 1
    /\ \A i \in 1..Len(r) : i + 1 \in 1..Len(q) /\ r[i] = q[i + 1]
    /\ \A i \in 1..Len(q) : i # 1 => i - 1 \in 1..Len(r) /\ q[i] = r[i - 1]
PcAdded(q, r, m) ==
    /\ Len(q) \in Nat /\ Len(r) = Len(q) + 1
    /\ \A i \in 1..Len(q) : i \in 1..Len(r) /\ r[i] = q[i]
    /\ \A i \in 1..Len(r) : i \in 1..Len(q) \/ i = Len(q) + 1
    /\ Len(q) + 1 \in 1..Len(r) /\ r[Len(q) + 1] = m

\* A queue without its first element.
LEMMA PcTaken ==
    ASSUME NEW S, NEW q \in Seq(S), q # <<>>
    PROVE  Tail(q) \in Seq(S) /\ Head(q) = q[1] /\ q[1] \in S /\ PcTook(q, Tail(q))
<1>1. /\ Tail(q) \in Seq(S) /\ Head(q) = q[1] /\ q[1] \in S
      /\ Len(q) \in Nat \ {0} /\ Len(Tail(q)) = Len(q) - 1
      /\ \A i \in 1..Len(Tail(q)) : i + 1 \in 1..Len(q) /\ Tail(q)[i] = q[i + 1]
    OBVIOUS
<1>2. ASSUME NEW i \in 1..Len(q), i # 1
      PROVE  i - 1 \in 1..Len(Tail(q)) /\ q[i] = Tail(q)[i - 1]
    <2>1. i - 1 \in 1..Len(Tail(q)) /\ (i - 1) + 1 = i
        BY ONLY <1>1, <1>2
    <2>. QED  BY ONLY <1>1, <2>1
<1>3. \A i \in 1..Len(q) : i # 1 => i - 1 \in 1..Len(Tail(q)) /\ q[i] = Tail(q)[i - 1]
    BY ONLY <1>2, Zenon
<1>. QED  BY <1>1, <1>3 DEF PcTook

\* A queue with one more element.
LEMMA PcPut ==
    ASSUME NEW S, NEW q \in Seq(S), NEW m \in S
    PROVE  Append(q, m) \in Seq(S) /\ PcAdded(q, Append(q, m), m)
    BY DEF PcAdded

\* What the popup is told is what is appended.
LEMMA PcHears ==
    ASSUME NEW q \in Seq(PcNews), NEW a \in PcNews, NEW b \in PcNews
    PROVE  /\ q \o <<>> = q /\ q \o <<a>> = Append(q, a)
           /\ q \o (<<a>> \o <<>>) = Append(q, a)
           /\ q \o (<<a>> \o <<b>>) = Append(Append(q, a), b)
           /\ <<>> \o <<>> = <<>> /\ q \o (<<>> \o <<a>>) = Append(q, a)
    OBVIOUS

\* background.ts: a request other than an assignment is handled; the popup that
\* made it is told, if it still waits.
LEMMA PcAnswered ==
    ASSUME PcInv, toBg # <<>>, toBg[1].t \notin {"set", "clear"}, toBg' = Tail(toBg),
           UNCHANGED <<mem, store, calls, last, raced, popup, captured, opens, restarts>>,
           link' \in {"idle", "connected"}, working' \in BOOLEAN,
           NEW m \in PcNews,
           \/ toPopup' = toPopup
           \/ /\ popup.pc # "closed" /\ toBg[1].from = opens /\ toPopup' = Append(toPopup, m)
              /\ m.t \in PcReplies(popup.pc)
              /\ m.ctx = IF m.t = "status" THEN mem ELSE NoContext,
           \/ sent' = sent
           \/ /\ toBg[1].t = "send" /\ toBg[1].ctx # NoContext /\ sent' = sent \cup {toBg[1].ctx}
              /\ toPopup' # toPopup => m.t = "ok"
    PROVE  PcInv'
<1>. USE PendingAssumption
<1>1. toBg' \in Seq(PcAsk) /\ toBg[1] \in PcAsk /\ PcTook(toBg, toBg')
    BY PcTaken DEF PcInv, PcTypes
<1>2. /\ toPopup' \in Seq(PcNews) /\ m.ctx \in Contexts \cup {NoContext}
      /\ \/ toPopup' = toPopup
         \/ /\ PcAdded(toPopup, toPopup', m) /\ popup.pc # "closed" /\ toBg[1].from = opens
            /\ m.t \in PcReplies(popup.pc) /\ m.ctx = IF m.t = "status" THEN mem ELSE NoContext
            /\ sent' # sent => m.t = "ok"
    <2>1. toPopup \in Seq(PcNews)
        BY DEF PcInv, PcTypes
    <2>2. Append(toPopup, m) \in Seq(PcNews) /\ PcAdded(toPopup, Append(toPopup, m), m)
        BY <2>1, PcPut
    <2>3. m.ctx \in Contexts \cup {NoContext}
        BY DEF PcNews
    <2>. QED  BY <2>1, <2>2, <2>3
<1>t. PcTypes'
    <2>1. sent' \subseteq captured
        BY <1>1 DEF PcInv, PcTypes, PcKnown, PcAsk, PcTook
    <2>. QED  BY <1>1, <1>2, <2>1 DEF PcInv, PcTypes
<1>w. PcWaits'
    <2>. USE DEF PcInv, PcWaits, PcMine, PcDone, PcReply, PcTook, PcAdded
    <2>1. CASE toPopup' = toPopup
        BY <1>1, <2>1
    <2>2. CASE /\ popup.pc # "closed" /\ toBg[1].from = opens /\ PcAdded(toPopup, toPopup', m)
               /\ m.t \in PcReplies(popup.pc)
        <3>1. \A i \in 1..Len(toBg') : /\ toBg'[i].from <= opens /\ toBg'[i].from # opens
                                      /\ (toBg'[i].t \in {"set", "send"} \/ toBg'[i].ctx = NoContext)
            BY <1>1, <2>2
        <3>2. \A i \in 1..Len(toPopup) : ~PcReply(i)
            BY <1>1, <2>2
        <3>3. \A i \in 1..Len(calls) : ~PcDone(i)
            BY <1>1, <2>2
        <3>4. \A i \in 1..Len(toPopup') : PcReply(i)' => i = Len(toPopup) + 1 /\ toPopup'[i] = m
            BY <2>2, <3>2
        <3>5. opens > 0 /\ popup.pc # "closed" /\ \A i \in 1..Len(calls) : calls[i].from <= opens
            BY <2>2
        <3>. QED  BY ONLY <3>1, <3>3, <3>4, <3>5, <2>2, UNCHANGED <<calls, popup, opens>> DEF PcWaits, PcMine, PcDone, PcReply
    <2>. QED  BY <1>2, <2>1, <2>2
<1>m. PcWorker'
    BY DEF PcInv, PcWorker
<1>c. PcChip'
    <2>. USE DEF PcInv, PcTypes, PcWorker, PcTook, PcAdded, PcTells
    <2>. SUFFICES ASSUME ~raced, popup.pc # "closed",
                         \A i \in 1..Len(toBg') : toBg'[i].t \notin {"set", "clear"},
                         \A i \in 1..Len(calls) : calls[i].op = "load"
                  PROVE  \E i \in 0..Len(toPopup') :
                            /\ i = 0 => popup.pc = "init" \/ popup.ctx = last
                            /\ i # 0 => PcTells(i)' /\ toPopup'[i].ctx = last
                            /\ \A j \in 1..Len(toPopup') : j > i => ~PcTells(j)'
        BY DEF PcChip
    <2>0. \A i \in 1..Len(toBg) : toBg[i].t \notin {"set", "clear"}
        BY <1>1
    <2>1. PICK i \in 0..Len(toPopup) :
             /\ i = 0 => popup.pc = "init" \/ popup.ctx = last
             /\ i # 0 => PcTells(i) /\ toPopup[i].ctx = last
             /\ \A j \in 1..Len(toPopup) : j > i => ~PcTells(j)
        BY <2>0 DEF PcChip
    <2>2. CASE toPopup' = toPopup
        BY <2>1, <2>2
    <2>5. mem \in {Unset, last}
        OBVIOUS
    <2>3. CASE PcAdded(toPopup, toPopup', m) /\ m.t \in PcReplies(popup.pc) /\ m.t # "status"
        <3>1. m.t \notin {"status", "pendingContext"}
            BY <2>3 DEF PcReplies
        <3>2. i \in 0..Len(toPopup') /\ (i # 0 => PcTells(i)' /\ toPopup'[i].ctx = last)
            BY ONLY <2>1, <2>3 DEF PcAdded, PcTells
        <3>3. \A j \in 1..Len(toPopup') : j > i => ~PcTells(j)'
            BY ONLY <2>1, <2>3, <3>1 DEF PcAdded, PcTells
        <3>. QED  BY ONLY <2>1, <3>2, <3>3
    <2>4. CASE PcAdded(toPopup, toPopup', m) /\ m.t = "status" /\ m.ctx = mem
        <3>1. m.ctx = last
            BY ONLY <1>2, <2>4, <2>5, PendingAssumption
        <3>2. /\ Len(toPopup') \in 0..Len(toPopup') /\ Len(toPopup') \in 1..Len(toPopup')
              /\ toPopup'[Len(toPopup')] = m /\ Len(toPopup') # 0
              /\ \A j \in 1..Len(toPopup') : ~(j > Len(toPopup'))
            BY ONLY <2>4 DEF PcAdded
        <3>. QED  BY ONLY <2>4, <3>1, <3>2 DEF PcTells
    <2>. QED  BY <1>2, <2>2, <2>3, <2>4
<1>k. PcKnown'
    <2>. SUFFICES ASSUME NEW x \in Contexts \ captured
                  PROVE  ~PcHeld(x)' /\ ~PcShown(x)' /\ x # popup.sending
                         /\ \A i \in 1..Len(toBg') : toBg'[i].ctx # x
        BY DEF PcKnown
    <2>1. ~PcHeld(x) /\ ~PcShown(x) /\ x # popup.sending /\ \A i \in 1..Len(toBg) : toBg[i].ctx # x
        BY DEF PcInv, PcKnown
    <2>2. ~PcShown(x)'
        BY <1>2, <2>1 DEF PcHeld, PcShown, PcAdded
    <2>. QED  BY <1>1, <2>1, <2>2 DEF PcHeld, PcTook
<1>g. ASSUME NEW x \in Contexts, ~raced'
      PROVE  PcGiven(x)'
    <2>0. PcGiven(x)
        BY <1>g DEF PcInv
    <2>1. PcOut(x)' => PcOut(x)
        BY <1>1, <1>2 DEF PcOut, PcSends, PcTook
    <2>2. PcHeld(x)' = PcHeld(x)
        BY DEF PcHeld
    <2>3. PcShown(x)' => PcShown(x) \/ x = mem
        BY <1>2 DEF PcShown, PcAdded
    <2>4. PcGone(x)'
        BY <1>1, <2>0, <2>1, <2>2, <2>3 DEF PcGiven, PcGone, PcHeld, PcSets, PcTook
    <2>5. PcSendOnce(x)'
        BY <1>1, <2>0 DEF PcGiven, PcSendOnce, PcSends, PcMine, PcTook
    <2>6. PcSetOnce(x)'
        BY <1>1, <1>2, <2>0, <2>2 DEF PcGiven, PcSetOnce, PcSets, PcMine, PcTook, PcAdded, PcHeld
    <2>7. PcSending(x)'
        <3>1. sent' # sent /\ toBg[1].ctx = x /\ popup.sending = x /\ popup.pc = "sending"
                => \A i \in 1..Len(toPopup) : toPopup[i].t \notin {"disconnected", "refused"}
            BY <1>1, <2>0 DEF PcInv, PcWaits, PcGiven, PcSendOnce, PcSends, PcMine, PcReply, PcTook
        <3>2. toPopup' # toPopup /\ popup.sending = x /\ popup.pc = "sending"
                => x \notin sent /\ \A i \in 1..Len(toPopup) : toPopup[i].t \notin {"disconnected", "refused"}
            <4>. SUFFICES ASSUME toPopup' # toPopup, popup.sending = x, popup.pc = "sending"
                          PROVE  x \notin sent /\ \A i \in 1..Len(toPopup) : toPopup[i].t \notin {"disconnected", "refused"}
                OBVIOUS
            <4>1. 1 \in 1..Len(toBg) /\ PcMine(1)
                BY <1>1, <1>2 DEF PcTook, PcMine
            <4>2. toBg[1].t = "send" /\ \A i \in 1..Len(toPopup) : ~PcReply(i)
                BY <4>1 DEF PcInv, PcWaits, PcAsked
            <4>3. toBg[1].ctx = x
                BY <2>0, <4>1 DEF PcGiven, PcSending
            <4>4. x \notin sent
                BY <2>0, <4>1, <4>2, <4>3 DEF PcGiven, PcSendOnce, PcSends
            <4>. QED  BY <4>2, <4>4 DEF PcReply
        <3>3. \A i \in 1..Len(toBg') : PcMine(i)' => i + 1 \in 1..Len(toBg) /\ PcMine(i + 1) /\ toBg'[i].ctx = toBg[i + 1].ctx
            BY <1>1 DEF PcMine, PcTook
        <3>4. x \in sent' => x \in sent \/ (sent' # sent /\ toBg[1].ctx = x)
            OBVIOUS
        <3>5. popup.pc = "sending" /\ popup.sending = x /\ x \in sent' =>
                 \A i \in 1..Len(toPopup') : toPopup'[i].t \notin {"disconnected", "refused"}
            <4>. SUFFICES ASSUME popup.pc = "sending", popup.sending = x, x \in sent'
                          PROVE  \A i \in 1..Len(toPopup') : toPopup'[i].t \notin {"disconnected", "refused"}
                OBVIOUS
            <4>1. \A i \in 1..Len(toPopup) : toPopup[i].t \notin {"disconnected", "refused"}
                BY <2>0, <3>1, <3>4 DEF PcGiven, PcSending
            <4>2. toPopup' # toPopup => PcAdded(toPopup, toPopup', m) /\ m.t = "ok"
                BY <1>2, <3>2, <3>4
            <4>. QED  BY <4>1, <4>2 DEF PcAdded
        <3>. QED  BY <2>0, <3>3, <3>5 DEF PcGiven, PcSending
    <2>8. PcClearing(x)'
        <3>1. popup.pc = "clearing" => toPopup' = toPopup
            BY <1>1 DEF PcInv, PcWaits, PcMine, PcAsked, PcTook
        <3>2. popup.pc = "clearing" /\ popup.sending = x => x \notin sent'
            BY <1>1, <2>0 DEF PcGiven, PcSendOnce, PcSends, PcClearing, PcTook
        <3>. QED  BY <2>0, <2>2, <3>1, <3>2 DEF PcGiven, PcClearing, PcReply, PcDone
    <2>. QED  BY <2>4, <2>5, <2>6, <2>7, <2>8 DEF PcGiven
<1>. QED  BY <1>t, <1>w, <1>m, <1>c, <1>k, <1>g DEF PcInv

\* What an answer to the first request adds.
LEMMA PcReplied ==
    ASSUME PcTypes, toBg # <<>>, NEW m \in PcNews,
           toPopup' = toPopup \o Pending!Answer(Head(toBg).from, m)
    PROVE  /\ toBg[1] = Head(toBg)
           /\ \/ toPopup' = toPopup
              \/ popup.pc # "closed" /\ toBg[1].from = opens /\ toPopup' = Append(toPopup, m)
<1>1. toPopup \in Seq(PcNews) /\ toBg \in Seq(PcAsk) /\ toBg[1] = Head(toBg)
    BY DEF PcTypes
<1>. QED  BY <1>1, PcHears DEF Pending!Answer, Pending!Told

\* background.ts: status, send, connect and disconnect.
LEMMA PcHandled ==
    ASSUME PcInv,
           \/ Pending!HandleStatus /\ mem # Unset
           \/ Pending!HandleSend \/ Pending!HandleConnect
    PROVE  PcInv'
<1>. USE PendingAssumption
<1>1. PcTypes /\ link \in {"idle", "connected"} /\ working \in BOOLEAN /\ mem \in Contexts \cup {NoContext, Unset}
    BY DEF PcInv, PcTypes
<1>2. toBg # <<>> => /\ toBg[1] = Head(toBg) /\ 1 \in 1..Len(toBg) /\ toBg[1] \in PcAsk
                     /\ popup.pc # "closed" /\ toBg[1].from = opens => toBg[1].t \in PcAsked(popup.pc)
    BY DEF PcInv, PcTypes, PcWaits, PcMine
<1>3. CASE Pending!HandleStatus /\ mem # Unset
    <2>. DEFINE m == Pending!Status(mem)
    <2>1. m \in PcNews /\ m.t = "status" /\ m.ctx = mem
        BY <1>1, <1>3 DEF Pending!Status, PcNews
    <2>. HIDE DEF m
    <2>2. /\ toBg # <<>> /\ toBg[1].t = "status" /\ toBg' = Tail(toBg)
          /\ toPopup' = toPopup \o Pending!Answer(Head(toBg).from, m)
          /\ UNCHANGED <<mem, store, calls, link, working, last, sent, raced, popup, captured, opens, restarts>>
        BY <1>2, <1>3 DEF Pending!HandleStatus, Pending!Tell, Pending!bounds, m
    <2>3. \/ toPopup' = toPopup
          \/ popup.pc # "closed" /\ toBg[1].from = opens /\ toPopup' = Append(toPopup, m)
        BY <1>1, <2>1, <2>2, PcReplied
    <2>4. popup.pc # "closed" /\ toBg[1].from = opens => m.t \in PcReplies(popup.pc)
        BY <1>2, <2>1, <2>2 DEF PcAsked, PcReplies
    <2>5. \/ toPopup' = toPopup
          \/ /\ popup.pc # "closed" /\ toBg[1].from = opens /\ toPopup' = Append(toPopup, m)
             /\ m.t \in PcReplies(popup.pc) /\ m.ctx = IF m.t = "status" THEN mem ELSE NoContext
        BY <2>1, <2>3, <2>4
    <2>. QED  BY <1>1, <2>1, <2>2, <2>5, PcAnswered
<1>4. CASE Pending!HandleSend
    <2>1. PICK m \in PcNews :
             /\ toPopup' = toPopup \o Pending!Answer(Head(toBg).from, m)
             /\ m.t \in {"ok", "disconnected", "refused"} /\ m.ctx = NoContext
             /\ \/ sent' = sent
                \/ m.t = "ok" /\ toBg[1].ctx # NoContext /\ sent' = sent \cup {toBg[1].ctx}
        <3>1. CASE link = "connected" /\ ~working
            <4>. DEFINE m == [Pending!Ok EXCEPT !.working = TRUE]
            <4>1. m \in PcNews /\ m.t = "ok" /\ m.ctx = NoContext
                BY DEF Pending!Ok, PcNews
            <4>2. toPopup' = toPopup \o Pending!Answer(Head(toBg).from, m)
                BY <1>4, <3>1 DEF Pending!HandleSend, Pending!Tell
            <4>3. sent' = sent \cup ({toBg[1].ctx} \ {NoContext})
                BY <1>2, <1>4, <3>1 DEF Pending!HandleSend
            <4>. HIDE DEF m
            <4>. QED  BY <4>1, <4>2, <4>3
        <3>2. CASE ~(link = "connected" /\ ~working)
            <4>. DEFINE m == Pending!Refused(link # "connected")
            <4>1. m \in PcNews /\ m.t \in {"disconnected", "refused"} /\ m.ctx = NoContext
                BY DEF Pending!Refused, PcNews
            <4>2. toPopup' = toPopup \o Pending!Answer(Head(toBg).from, m) /\ sent' = sent
                BY <1>4, <3>2 DEF Pending!HandleSend, Pending!Tell
            <4>. HIDE DEF m
            <4>. QED  BY <4>1, <4>2
        <3>. QED  BY <3>1, <3>2
    <2>2. /\ toBg # <<>> /\ toBg[1].t = "send" /\ toBg' = Tail(toBg) /\ working' \in BOOLEAN
          /\ UNCHANGED <<mem, store, calls, link, last, raced, popup, captured, opens, restarts>>
        BY <1>1, <1>2, <1>4 DEF Pending!HandleSend, Pending!bounds
    <2>3. \/ toPopup' = toPopup
          \/ popup.pc # "closed" /\ toBg[1].from = opens /\ toPopup' = Append(toPopup, m)
        BY <1>1, <2>1, <2>2, PcReplied
    <2>4. popup.pc # "closed" /\ toBg[1].from = opens => m.t \in PcReplies(popup.pc)
        BY <1>2, <2>1, <2>2 DEF PcAsked, PcReplies
    <2>5. \/ toPopup' = toPopup
          \/ /\ popup.pc # "closed" /\ toBg[1].from = opens /\ toPopup' = Append(toPopup, m)
             /\ m.t \in PcReplies(popup.pc) /\ m.ctx = IF m.t = "status" THEN mem ELSE NoContext
        BY <2>1, <2>3, <2>4
    <2>. QED  BY <1>1, <2>1, <2>2, <2>5, PcAnswered
<1>5. CASE Pending!HandleConnect
    <2>. DEFINE m == [Pending!Ok EXCEPT !.canChat = link' = "connected", !.working = FALSE]
    <2>1. m \in PcNews /\ m.t = "ok" /\ m.ctx = NoContext
        BY DEF Pending!Ok, PcNews
    <2>2. /\ toBg # <<>> /\ toBg[1].t \in {"connect", "disconnect"} /\ toBg' = Tail(toBg)
          /\ link' \in {"idle", "connected"} /\ working' = FALSE
          /\ toPopup' = toPopup \o Pending!Answer(Head(toBg).from, m)
          /\ UNCHANGED <<mem, store, calls, last, sent, raced, popup, captured, opens, restarts>>
        BY <1>2, <1>5 DEF Pending!HandleConnect, Pending!Tell, Pending!bounds
    <2>. HIDE DEF m
    <2>3. \/ toPopup' = toPopup
          \/ popup.pc # "closed" /\ toBg[1].from = opens /\ toPopup' = Append(toPopup, m)
        BY <1>1, <2>1, <2>2, PcReplied
    <2>4. popup.pc # "closed" /\ toBg[1].from = opens => m.t \in PcReplies(popup.pc)
        BY <1>2, <2>1, <2>2 DEF PcAsked, PcReplies
    <2>5. \/ toPopup' = toPopup
          \/ /\ popup.pc # "closed" /\ toBg[1].from = opens /\ toPopup' = Append(toPopup, m)
             /\ m.t \in PcReplies(popup.pc) /\ m.ctx = IF m.t = "status" THEN mem ELSE NoContext
        BY <2>1, <2>3, <2>4
    <2>. QED  BY <1>1, <2>1, <2>2, <2>5, PcAnswered
<1>. QED  BY <1>3, <1>4, <1>5

\* background.ts: the first status after a start of the worker loads.
LEMMA PcLoads ==
    ASSUME PcInv, Pending!HandleStatus, mem = Unset
    PROVE  PcInv'
<1>. USE PendingAssumption
<1>. DEFINE c == [op |-> "load", ctx |-> NoContext, from |-> toBg[1].from]
<1>1. /\ toBg # <<>> /\ toBg[1].t = "status" /\ toBg' = Tail(toBg) /\ calls' = Append(calls, c)
      /\ UNCHANGED <<toPopup, mem, store, link, working, last, sent, raced, popup, captured, opens, restarts>>
    <2>1. toBg # <<>> => toBg[1] = Head(toBg)
        BY DEF PcInv, PcTypes
    <2>. QED  BY <2>1 DEF Pending!HandleStatus, Pending!bounds
<1>2. /\ toBg' \in Seq(PcAsk) /\ toBg[1] \in PcAsk /\ PcTook(toBg, toBg') /\ 1 \in 1..Len(toBg)
      /\ toBg[1].from \in Nat
    <2>1. toBg' \in Seq(PcAsk) /\ toBg[1] \in PcAsk /\ PcTook(toBg, toBg')
        BY <1>1, PcTaken DEF PcInv, PcTypes
    <2>. QED  BY <2>1 DEF PcTook, PcAsk
<1>3. calls' \in Seq(PcCall) /\ PcAdded(calls, calls', c)
    <2>1. c \in PcCall
        BY <1>2 DEF PcCall
    <2>2. calls \in Seq(PcCall)
        BY DEF PcInv, PcTypes
    <2>. HIDE DEF c
    <2>. QED  BY <1>1, <2>1, <2>2, PcPut
<1>4. c.op = "load" /\ c.ctx = NoContext /\ c.from = toBg[1].from
    OBVIOUS
<1>. HIDE DEF c
<1>t. PcTypes'
    BY <1>1, <1>2, <1>3 DEF PcInv, PcTypes
<1>w. PcWaits'
    <2>. USE DEF PcInv, PcWaits, PcMine, PcDone, PcReply
    <2>1. CASE popup.pc # "closed" /\ toBg[1].from = opens
        <3>0. popup.pc = "init" /\ opens > 0
            BY <1>1, <1>2, <2>1 DEF PcAsked
        <3>1. \A i \in 1..Len(toBg') : /\ toBg'[i].from <= opens /\ toBg'[i].from # opens
                                      /\ (toBg'[i].t \in {"set", "send"} \/ toBg'[i].ctx = NoContext)
            <4>1. \A i \in 1..Len(toBg) : i # 1 =>
                    /\ toBg[i].from <= opens /\ toBg[i].from # opens
                    /\ (toBg[i].t \in {"set", "send"} \/ toBg[i].ctx = NoContext)
                BY <1>2, <2>1
            <4>2. \A i \in 1..Len(toBg') : i + 1 \in 1..Len(toBg) /\ i + 1 # 1 /\ toBg'[i] = toBg[i + 1]
                BY ONLY <1>2 DEF PcTook
            <4>. QED  BY ONLY <4>1, <4>2
        <3>2. (\A i \in 1..Len(toPopup) : ~PcReply(i)) /\ \A i \in 1..Len(calls) : ~PcDone(i)
            BY <1>2, <2>1
        <3>3. \A i \in 1..Len(calls') : /\ calls'[i].from <= opens
                                        /\ PcDone(i)' => i = Len(calls) + 1 /\ calls'[i].op = "load"
            <4>1. (\A i \in 1..Len(calls) : calls[i].from <= opens) /\ opens <= opens
                BY DEF PcTypes
            <4>2. \A i \in 1..Len(calls') : (i \in 1..Len(calls) /\ calls'[i] = calls[i]) \/ (i = Len(calls) + 1 /\ calls'[i] = c)
                BY ONLY <1>3 DEF PcAdded
            <4>. QED  BY ONLY <1>1, <1>4, <2>1, <3>2, <4>1, <4>2 DEF PcDone
        <3>. QED  BY ONLY <1>1, <2>1, <3>0, <3>1, <3>2, <3>3 DEF PcWaits, PcMine, PcDone, PcReply, PcDoing
    <2>2. CASE popup.pc = "closed"
        BY <1>1, <1>2, <1>3, <1>4, <2>2 DEF PcTook, PcAdded
    <2>3. CASE popup.pc # "closed" /\ toBg[1].from # opens
        <3>1. \A i \in 1..Len(toBg') : i + 1 \in 1..Len(toBg) /\ toBg'[i] = toBg[i + 1]
            BY <1>2 DEF PcTook
        <3>2. \A i \in 1..Len(calls') : PcDone(i)' => i \in 1..Len(calls) /\ calls'[i] = calls[i]
            BY <1>1, <1>3, <1>4, <2>3 DEF PcAdded
        <3>3. \A i \in 1..Len(calls') : calls'[i].from <= opens
            BY <1>1, <1>2, <1>3, <1>4, <2>3 DEF PcAdded
        <3>. QED  BY <1>1, <2>3, <3>1, <3>2, <3>3
    <2>. QED  BY <2>1, <2>2, <2>3
<1>m. PcWorker'
    BY <1>1, <1>3, <1>4 DEF PcInv, PcWorker, PcAdded, PcTypes
<1>c. PcChip'
    <2>1. /\ (\A i \in 1..Len(toBg') : toBg'[i].t \notin {"set", "clear"}) => \A i \in 1..Len(toBg) : toBg[i].t \notin {"set", "clear"}
          /\ (\A i \in 1..Len(calls') : calls'[i].op = "load") => \A i \in 1..Len(calls) : calls[i].op = "load"
        BY <1>1, <1>2, <1>3 DEF PcTook, PcAdded
    <2>. QED  BY <1>1, <2>1 DEF PcInv, PcChip, PcTells
<1>k. PcKnown'
    BY <1>1, <1>2, <1>3, <1>4 DEF PcInv, PcKnown, PcHeld, PcShown, PcTook, PcAdded
<1>g. ASSUME NEW x \in Contexts, ~raced'
      PROVE  PcGiven(x)'
    <2>0. PcGiven(x) /\ PcWaits
        BY <1>1, <1>g DEF PcInv
    <2>1. PcOut(x)' => PcOut(x)
        BY <1>1, <1>2 DEF PcOut, PcSends, PcTook
    <2>2. PcHeld(x)' => PcHeld(x)
        BY <1>1, <1>3, <1>4 DEF PcHeld, PcAdded
    <2>4. PcGone(x)'
        BY <1>1, <1>2, <2>0, <2>1, <2>2 DEF PcGiven, PcGone, PcShown, PcSets, PcTook
    <2>5. PcSendOnce(x)'
        BY <1>1, <1>2, <2>0 DEF PcGiven, PcSendOnce, PcSends, PcMine, PcTook
    <2>6. PcSetOnce(x)'
        BY <1>1, <1>2, <2>0, <2>2 DEF PcGiven, PcSetOnce, PcSets, PcMine, PcTook
    <2>7. PcSending(x)'
        BY <1>1, <1>2, <2>0 DEF PcGiven, PcSending, PcMine, PcTook
    <2>8. PcClearing(x)'
        <3>. SUFFICES ASSUME popup.pc = "clearing", popup.sending = x
                      PROVE  PcClearing(x)'
            BY <1>1 DEF PcClearing
        <3>1. toBg[1].from # opens
            BY <1>1, <1>2, <2>0 DEF PcWaits, PcMine, PcAsked
        <3>2. \A i \in 1..Len(calls') : PcDone(i)' => i \in 1..Len(calls) /\ PcDone(i)
            BY <1>1, <1>3, <1>4, <3>1 DEF PcAdded, PcDone
        <3>3. \A j \in 1..Len(calls') : calls'[j].ctx = x => j \in 1..Len(calls) /\ calls[j].ctx = x
            BY <1>1, <1>3, <1>4 DEF PcAdded
        <3>. QED  BY <1>1, <2>0, <2>2, <3>2, <3>3 DEF PcGiven, PcClearing, PcReply
    <2>. QED  BY <2>4, <2>5, <2>6, <2>7, <2>8 DEF PcGiven
<1>. QED  BY <1>t, <1>w, <1>m, <1>c, <1>k, <1>g DEF PcInv

\* background.ts: the worker tells the popup that the turn has ended.
LEMMA PcTurnEnds ==
    ASSUME PcInv, Pending!TurnEnds
    PROVE  PcInv'
<1>. USE PendingAssumption
<1>1. PICK m \in PcNews :
        /\ m.t = "statusChanged" /\ m.ctx = NoContext
        /\ toPopup' = toPopup \/ (popup.pc # "closed" /\ toPopup' = Append(toPopup, m))
    <2>. DEFINE m == [Pending!Changed EXCEPT !.canChat = link' = "connected"]
    <2>1. m \in PcNews /\ m.t = "statusChanged" /\ m.ctx = NoContext
        BY DEF Pending!Changed, PcNews
    <2>2. toPopup' = toPopup \o (IF popup.pc = "closed" THEN <<>> ELSE <<m>>)
        BY DEF Pending!TurnEnds, Pending!Tell, Pending!Told
    <2>. HIDE DEF m
    <2>3. toPopup \in Seq(PcNews)
        BY DEF PcInv, PcTypes
    <2>. QED  BY <2>1, <2>2, <2>3, PcHears
<1>2. /\ link' \in {"idle", "connected"} /\ working' = FALSE
      /\ UNCHANGED <<mem, store, calls, last, sent, raced, toBg, popup, captured, opens, restarts>>
    BY DEF Pending!TurnEnds, Pending!bounds
<1>3. toPopup' \in Seq(PcNews) /\ (toPopup' = toPopup \/ (PcAdded(toPopup, toPopup', m) /\ popup.pc # "closed"))
    <2>1. toPopup \in Seq(PcNews)
        BY DEF PcInv, PcTypes
    <2>. QED  BY <1>1, <2>1, PcPut
<1>t. PcTypes'
    BY <1>2, <1>3 DEF PcInv, PcTypes
<1>0. /\ \A i \in 1..Len(toPopup) : i \in 1..Len(toPopup') /\ toPopup'[i] = toPopup[i]
      /\ \A i \in 1..Len(toPopup') : i \in 1..Len(toPopup) \/ (toPopup'[i] = m /\ i > Len(toPopup))
      /\ Len(toPopup) \in Nat /\ Len(toPopup') \in Nat /\ Len(toPopup') >= Len(toPopup)
      /\ toPopup = <<>> /\ popup.pc = "closed" => toPopup' = <<>>
    <2>1. Len(toPopup) \in Nat
        BY DEF PcInv, PcTypes
    <2>. QED  BY <1>3, <2>1 DEF PcAdded
<1>w. PcWaits'
    BY <1>0, <1>1, <1>2 DEF PcInv, PcWaits, PcMine, PcDone, PcReply
<1>m. PcWorker'
    BY <1>2 DEF PcInv, PcWorker
<1>c. PcChip'
    BY <1>0, <1>1, <1>2 DEF PcInv, PcChip, PcTells
<1>k. PcKnown'
    BY <1>0, <1>1, <1>2 DEF PcInv, PcKnown, PcHeld, PcShown
<1>g. ASSUME NEW x \in Contexts, ~raced'
      PROVE  PcGiven(x)'
    <2>0. PcGiven(x)
        BY <1>2, <1>g DEF PcInv
    <2>4. PcGone(x)'
        BY <1>0, <1>1, <1>2, <2>0 DEF PcGiven, PcGone, PcOut, PcHeld, PcShown, PcSets, PcSends
    <2>5. PcSendOnce(x)'
        BY <1>2, <2>0 DEF PcGiven, PcSendOnce, PcSends, PcMine
    <2>6. PcSetOnce(x)'
        BY <1>0, <1>1, <1>2, <2>0 DEF PcGiven, PcSetOnce, PcSets, PcMine, PcHeld
    <2>7. PcSending(x)'
        BY <1>0, <1>1, <1>2, <2>0 DEF PcGiven, PcSending, PcMine
    <2>8. PcClearing(x)'
        <3>1. \A i \in 1..Len(toPopup') : PcReply(i)' => i \in 1..Len(toPopup) /\ PcReply(i)
            BY <1>0, <1>1 DEF PcReply
        <3>2. \A k \in 1..Len(toPopup') : toPopup'[k].ctx = x => k \in 1..Len(toPopup) /\ toPopup[k].ctx = x
            BY <1>0, <1>1
        <3>3. \A i \in 1..Len(toPopup) : \A j \in 0..i - 1 : j # 0 => j \in 1..Len(toPopup)
            BY <1>0
        <3>. QED  BY <1>0, <1>2, <2>0, <3>1, <3>2, <3>3 DEF PcGiven, PcClearing, PcDone, PcHeld
    <2>. QED  BY <2>4, <2>5, <2>6, <2>7, <2>8 DEF PcGiven
<1>. QED  BY <1>t, <1>w, <1>m, <1>c, <1>k, <1>g DEF PcInv

\* background.ts: setPendingContext and clearPendingContext for a request.
LEMMA PcAssigns ==
    ASSUME PcInv, Pending!HandleAssign
    PROVE  PcInv'
<1>. USE PendingAssumption
<1>. DEFINE c == [op |-> IF toBg[1].t = "set" THEN "save" ELSE "remove", ctx |-> toBg[1].ctx,
                  from |-> toBg[1].from]
<1>1. /\ toBg # <<>> /\ toBg[1].t \in {"set", "clear"} /\ toBg' = Tail(toBg)
      /\ calls' = Append(calls, c) /\ mem' = toBg[1].ctx /\ last' = toBg[1].ctx
      /\ raced' = (raced \/ Pending!Loading)
      /\ UNCHANGED <<store, link, working, sent, toPopup, popup, captured, opens, restarts>>
    <2>1. toBg # <<>> => toBg[1] = Head(toBg)
        BY DEF PcInv, PcTypes
    <2>. QED  BY <2>1 DEF Pending!HandleAssign, Pending!Assign, Pending!bounds
<1>2. /\ toBg' \in Seq(PcAsk) /\ toBg[1] \in PcAsk /\ PcTook(toBg, toBg') /\ 1 \in 1..Len(toBg)
      /\ toBg[1].from \in Nat /\ toBg[1].ctx \in Contexts \cup {NoContext}
    <2>1. toBg' \in Seq(PcAsk) /\ toBg[1] \in PcAsk /\ PcTook(toBg, toBg')
        BY <1>1, PcTaken DEF PcInv, PcTypes
    <2>. QED  BY <2>1 DEF PcTook, PcAsk
<1>3. calls' \in Seq(PcCall) /\ PcAdded(calls, calls', c)
    <2>1. c \in PcCall
        BY <1>2 DEF PcCall
    <2>2. calls \in Seq(PcCall)
        BY DEF PcInv, PcTypes
    <2>. HIDE DEF c
    <2>. QED  BY <1>1, <2>1, <2>2, PcPut
<1>4. /\ c.ctx = toBg[1].ctx /\ c.from = toBg[1].from /\ c.op # "load"
      /\ c.op = IF toBg[1].t = "set" THEN "save" ELSE "remove"
    OBVIOUS
<1>. HIDE DEF c
<1>5. raced' \in BOOLEAN /\ (~raced' => ~raced /\ \A i \in 1..Len(calls) : calls[i].op # "load")
    <2>1. raced \in BOOLEAN /\ DOMAIN calls = 1..Len(calls)
        BY DEF PcInv, PcTypes
    <2>2. Pending!Loading \in BOOLEAN
        BY DEF Pending!Loading
    <2>3. ~Pending!Loading => \A i \in 1..Len(calls) : calls[i].op # "load"
        BY <2>1 DEF Pending!Loading
    <2>. QED  BY <1>1, <2>1, <2>2, <2>3
<1>6. toBg[1].t = "set" \/ toBg[1].ctx = NoContext
    BY <1>1, <1>2 DEF PcInv, PcWaits
<1>t. PcTypes'
    BY <1>1, <1>2, <1>3, <1>5 DEF PcInv, PcTypes
<1>w. PcWaits'
    <2>. USE DEF PcInv, PcWaits, PcMine, PcDone, PcReply
    <2>1. CASE popup.pc # "closed" /\ toBg[1].from = opens
        <3>0. opens > 0 /\ c.op \in PcDoing(popup.pc)
            BY <1>1, <1>2, <1>4, <2>1 DEF PcAsked, PcDoing
        <3>1. \A i \in 1..Len(toBg') : /\ toBg'[i].from <= opens /\ toBg'[i].from # opens
                                      /\ (toBg'[i].t \in {"set", "send"} \/ toBg'[i].ctx = NoContext)
            <4>1. \A i \in 1..Len(toBg) : i # 1 =>
                    /\ toBg[i].from <= opens /\ toBg[i].from # opens
                    /\ (toBg[i].t \in {"set", "send"} \/ toBg[i].ctx = NoContext)
                BY <1>2, <2>1
            <4>2. \A i \in 1..Len(toBg') : i + 1 \in 1..Len(toBg) /\ i + 1 # 1 /\ toBg'[i] = toBg[i + 1]
                BY ONLY <1>2 DEF PcTook
            <4>. QED  BY ONLY <4>1, <4>2
        <3>2. (\A i \in 1..Len(toPopup) : ~PcReply(i)) /\ \A i \in 1..Len(calls) : ~PcDone(i)
            BY <1>2, <2>1
        <3>3. \A i \in 1..Len(calls') : /\ calls'[i].from <= opens
                                        /\ PcDone(i)' => i = Len(calls) + 1 /\ calls'[i].op = c.op
            <4>1. (\A i \in 1..Len(calls) : calls[i].from <= opens) /\ opens <= opens
                BY DEF PcTypes
            <4>2. \A i \in 1..Len(calls') : (i \in 1..Len(calls) /\ calls'[i] = calls[i]) \/ (i = Len(calls) + 1 /\ calls'[i] = c)
                BY ONLY <1>3 DEF PcAdded
            <4>. QED  BY ONLY <1>1, <1>4, <2>1, <3>2, <4>1, <4>2 DEF PcDone
        <3>. QED  BY ONLY <1>1, <2>1, <3>0, <3>1, <3>2, <3>3 DEF PcWaits, PcMine, PcDone, PcReply
    <2>2. CASE popup.pc = "closed"
        BY <1>1, <1>2, <1>3, <1>4, <2>2 DEF PcTook, PcAdded
    <2>3. CASE popup.pc # "closed" /\ toBg[1].from # opens
        <3>1. \A i \in 1..Len(toBg') : i + 1 \in 1..Len(toBg) /\ toBg'[i] = toBg[i + 1]
            BY <1>2 DEF PcTook
        <3>2. \A i \in 1..Len(calls') : PcDone(i)' => i \in 1..Len(calls) /\ calls'[i] = calls[i]
            BY <1>1, <1>3, <1>4, <2>3 DEF PcAdded
        <3>3. \A i \in 1..Len(calls') : calls'[i].from <= opens
            BY <1>1, <1>2, <1>3, <1>4, <2>3 DEF PcAdded
        <3>4. \A i \in 1..Len(toBg') : toBg'[i].from <= opens /\ (toBg'[i].t \in {"set", "send"} \/ toBg'[i].ctx = NoContext)
            BY <3>1
        <3>5. opens > 0 /\ \A i \in 1..Len(toBg') : PcMine(i)' => PcMine(i + 1) /\ toBg'[i].t = toBg[i + 1].t
            BY <1>1, <2>3, <3>1
        <3>6. \A i \in 1..Len(toBg') : PcMine(i)' =>
                /\ toBg'[i].t \in PcAsked(popup.pc)
                /\ \A j \in 1..Len(toBg') : PcMine(j)' => i = j
                /\ \A j \in 1..Len(calls') : ~PcDone(j)'
                /\ \A j \in 1..Len(toPopup') : ~PcReply(j)'
            <4>. SUFFICES ASSUME NEW i \in 1..Len(toBg'), PcMine(i)'
                          PROVE  /\ toBg'[i].t \in PcAsked(popup.pc)
                                 /\ \A j \in 1..Len(toBg') : PcMine(j)' => i = j
                                 /\ \A j \in 1..Len(calls') : ~PcDone(j)'
                                 /\ \A j \in 1..Len(toPopup') : ~PcReply(j)'
                OBVIOUS
            <4>1. i + 1 \in 1..Len(toBg) /\ PcMine(i + 1) /\ toBg'[i].t = toBg[i + 1].t
                BY <3>1, <3>5
            <4>2. \A j \in 1..Len(toBg') : PcMine(j)' => j + 1 = i + 1
                BY <2>3, <3>1, <3>5, <4>1
            <4>3. (\A j \in 1..Len(calls) : ~PcDone(j)) /\ \A j \in 1..Len(toPopup) : ~PcReply(j)
                BY <2>3, <4>1
            <4>4. toBg[i + 1].t \in PcAsked(popup.pc)
                BY <2>3, <4>1
            <4>. QED  BY <1>1, <3>2, <4>1, <4>2, <4>3, <4>4
        <3>7. \A i \in 1..Len(calls') : PcDone(i)' =>
                /\ calls'[i].op \in PcDoing(popup.pc)
                /\ \A j \in 1..Len(calls') : PcDone(j)' => i = j
                /\ \A j \in 1..Len(toPopup') : ~PcReply(j)'
            BY <1>1, <2>3, <3>2
        <3>. QED  BY <1>1, <2>3, <3>3, <3>4, <3>5, <3>6, <3>7
    <2>. QED  BY <2>1, <2>2, <2>3
<1>m. PcWorker'
    <2>. SUFFICES ASSUME ~raced' PROVE PcWorker'
        BY DEF PcWorker
    <2>1. \A i \in 1..Len(calls') : calls'[i].op # "load"
        BY <1>3, <1>4, <1>5 DEF PcAdded
    <2>2. calls' # <<>> /\ calls'[Len(calls')].ctx = toBg[1].ctx
        BY <1>3, <1>4 DEF PcAdded
    <2>. QED  BY <1>1, <2>1, <2>2 DEF PcWorker
<1>c. PcChip'
    <2>1. Len(calls) + 1 \in 1..Len(calls') /\ calls'[Len(calls) + 1].op # "load"
        BY <1>3, <1>4 DEF PcAdded
    <2>. QED  BY <2>1 DEF PcChip
<1>k. PcKnown'
    BY <1>1, <1>2, <1>3, <1>4 DEF PcInv, PcKnown, PcHeld, PcShown, PcTook, PcAdded
<1>g. ASSUME NEW x \in Contexts, ~raced'
      PROVE  PcGiven(x)'
    <2>0. PcGiven(x) /\ PcWaits
        BY <1>5, <1>g DEF PcInv
    <2>1. PcOut(x)' => PcOut(x)
        BY <1>1, <1>2 DEF PcOut, PcSends, PcTook
    <2>2. PcHeld(x)' => PcHeld(x) \/ toBg[1].ctx = x
        BY <1>1, <1>3, <1>4 DEF PcHeld, PcAdded
    <2>3. toBg[1].ctx = x => PcSets(1, x)
        BY <1>6 DEF PcSets
    <2>4. PcGone(x)'
        BY <1>1, <1>2, <2>0, <2>1, <2>2, <2>3 DEF PcGiven, PcGone, PcShown, PcSets, PcTook
    <2>5. PcSendOnce(x)'
        BY <1>1, <1>2, <2>0 DEF PcGiven, PcSendOnce, PcSends, PcMine, PcTook
    <2>6. PcSetOnce(x)'
        <3>1. \A i \in 1..Len(toBg') : PcSets(i, x)' => i + 1 \in 1..Len(toBg) /\ PcSets(i + 1, x) /\ toBg[1].ctx # x
            BY <1>1, <1>2, <2>0, <2>3 DEF PcGiven, PcSetOnce, PcSets, PcTook
        <3>2. \A i \in 1..Len(toBg') : PcMine(i + 1) => PcMine(i)'
            BY <1>1, <1>2 DEF PcMine, PcTook
        <3>3. \A i \in 1..Len(toBg') : PcSets(i, x)' =>
                /\ ~PcHeld(x)' /\ popup.sending # x
                /\ \A j \in 1..Len(toPopup) : toPopup[j].ctx # x
                /\ popup.ctx = x => popup.pc = "restoring" /\ PcMine(i)'
            BY <2>0, <2>2, <3>1, <3>2 DEF PcGiven, PcSetOnce
        <3>4. \A i \in 1..Len(toBg') : PcSets(i, x)' => \A j \in 1..Len(toBg') : PcSets(j, x)' => i = j
            BY <2>0, <3>1 DEF PcGiven, PcSetOnce
        <3>. QED  BY <1>1, <3>3, <3>4 DEF PcSetOnce
    <2>7. PcSending(x)'
        BY <1>1, <1>2, <2>0 DEF PcGiven, PcSending, PcMine, PcTook
    <2>8. PcClearing(x)'
        <3>. SUFFICES ASSUME popup.pc = "clearing", popup.sending = x
                      PROVE  PcClearing(x)'
            BY <1>1 DEF PcClearing
        <3>1. toBg[1].ctx # x
            BY <1>2, <2>0, <2>3 DEF PcGiven, PcSetOnce
        <3>2. x \notin {mem', last'} /\ (PcHeld(x)' => PcHeld(x))
            BY <1>1, <2>2, <3>1
        <3>3. \A j \in 1..Len(calls') : calls'[j].ctx = x => j \in 1..Len(calls) /\ calls[j].ctx = x
            BY <1>3, <1>4, <3>1 DEF PcAdded
        <3>4. \A i \in 1..Len(calls') : PcDone(i)' => i = Len(calls) + 1 \/ (i \in 1..Len(calls) /\ PcDone(i))
            BY <1>1, <1>3 DEF PcAdded, PcDone
        <3>5. \A i \in 1..Len(calls') : PcDone(i)' => \A j \in 1..Len(calls') : calls'[j].ctx = x => j < i
            BY <1>3, <2>0, <3>3, <3>4 DEF PcGiven, PcClearing, PcAdded
        <3>. QED  BY <1>1, <2>0, <3>2, <3>5 DEF PcGiven, PcClearing, PcReply
    <2>. QED  BY <2>4, <2>5, <2>6, <2>7, <2>8 DEF PcGiven
<1>. QED  BY <1>5, <1>t, <1>w, <1>m, <1>c, <1>k, <1>g DEF PcInv

\* background.ts: setPendingContext for the context menu.
LEMMA PcCaptures ==
    ASSUME PcInv, NEW ctx \in Contexts, Pending!Capture(ctx)
    PROVE  PcInv'
<1>. USE PendingAssumption
<1>. DEFINE c == [op |-> "save", ctx |-> ctx, from |-> 0]
<1>1. /\ ctx \notin captured /\ captured' = captured \cup {ctx}
      /\ calls' = Append(calls, c) /\ mem' = ctx /\ last' = ctx
      /\ raced' = (raced \/ Pending!Loading)
      /\ UNCHANGED <<store, link, working, sent, toBg, toPopup, popup, opens, restarts>>
    BY DEF Pending!Capture, Pending!Assign
<1>3. calls' \in Seq(PcCall) /\ PcAdded(calls, calls', c)
    <2>1. c \in PcCall
        BY DEF PcCall
    <2>2. calls \in Seq(PcCall)
        BY DEF PcInv, PcTypes
    <2>. HIDE DEF c
    <2>. QED  BY <1>1, <2>1, <2>2, PcPut
<1>4. c.ctx = ctx /\ c.from = 0 /\ c.op = "save"
    OBVIOUS
<1>. HIDE DEF c
<1>5. raced' \in BOOLEAN /\ (~raced' => ~raced /\ \A i \in 1..Len(calls) : calls[i].op # "load")
    <2>1. raced \in BOOLEAN /\ DOMAIN calls = 1..Len(calls)
        BY DEF PcInv, PcTypes
    <2>2. Pending!Loading \in BOOLEAN
        BY DEF Pending!Loading
    <2>3. ~Pending!Loading => \A i \in 1..Len(calls) : calls[i].op # "load"
        BY <2>1 DEF Pending!Loading
    <2>. QED  BY <1>1, <2>1, <2>2, <2>3
<1>t. PcTypes'
    BY <1>1, <1>3, <1>5 DEF PcInv, PcTypes
<1>6. \A i \in 1..Len(calls') : /\ calls'[i].from <= opens
                                /\ popup.pc # "closed" /\ PcDone(i)' => i \in 1..Len(calls) /\ calls'[i] = calls[i] /\ PcDone(i)
    <2>1. opens \in Nat /\ (popup.pc # "closed" => opens # 0) /\ \A i \in 1..Len(calls) : calls[i].from <= opens
        BY DEF PcInv, PcTypes, PcWaits
    <2>2. \A i \in 1..Len(calls') : (i \in 1..Len(calls) /\ calls'[i] = calls[i]) \/ calls'[i].from = 0
        BY <1>3, <1>4 DEF PcAdded
    <2>. QED  BY <1>1, <2>1, <2>2 DEF PcDone
<1>w. PcWaits'
    BY <1>1, <1>6 DEF PcInv, PcWaits, PcMine, PcDone, PcReply
<1>m. PcWorker'
    <2>. SUFFICES ASSUME ~raced' PROVE PcWorker'
        BY DEF PcWorker
    <2>1. \A i \in 1..Len(calls') : calls'[i].op # "load"
        BY <1>3, <1>4, <1>5 DEF PcAdded
    <2>2. calls' # <<>> /\ calls'[Len(calls')].ctx = ctx
        BY <1>3, <1>4 DEF PcAdded
    <2>. QED  BY <1>1, <2>1, <2>2 DEF PcWorker
<1>c. PcChip'
    <2>1. Len(calls) + 1 \in 1..Len(calls') /\ calls'[Len(calls) + 1].op # "load"
        BY <1>3, <1>4 DEF PcAdded
    <2>. QED  BY <2>1 DEF PcChip
<1>k. PcKnown'
    BY <1>1, <1>3, <1>4 DEF PcInv, PcKnown, PcHeld, PcShown, PcAdded
<1>g. ASSUME NEW x \in Contexts, ~raced'
      PROVE  PcGiven(x)'
    <2>0. PcGiven(x) /\ PcWaits
        BY <1>5, <1>g DEF PcInv
    <2>1. CASE x = ctx
        <3>1. /\ ~PcShown(x) /\ x # popup.sending /\ x \notin sent
              /\ \A i \in 1..Len(toBg) : toBg[i].ctx # x
            BY <1>1, <2>1 DEF PcInv, PcKnown, PcTypes
        <3>. QED  BY <1>1, <3>1 DEF PcGiven, PcGone, PcOut, PcSends, PcSets, PcSendOnce, PcSetOnce, PcSending, PcClearing
    <2>2. CASE x # ctx
        <3>2. (PcHeld(x)' => PcHeld(x)) /\ (x \in {mem', last'} => x \in {mem, last})
            BY <1>1, <1>3, <1>4, <2>2 DEF PcHeld, PcAdded
        <3>4. PcGone(x)'
            BY <1>1, <2>0, <3>2 DEF PcGiven, PcGone, PcOut, PcSends, PcShown, PcSets
        <3>5. PcSendOnce(x)'
            BY <1>1, <2>0 DEF PcGiven, PcSendOnce, PcSends, PcMine
        <3>6. PcSetOnce(x)'
            BY <1>1, <2>0, <3>2 DEF PcGiven, PcSetOnce, PcSets, PcMine
        <3>7. PcSending(x)'
            BY <1>1, <2>0 DEF PcGiven, PcSending, PcMine
        <3>8. PcClearing(x)'
            <4>3. \A j \in 1..Len(calls') : calls'[j].ctx = x => j \in 1..Len(calls) /\ calls[j].ctx = x
                BY <1>3, <1>4, <2>2 DEF PcAdded
            <4>. QED  BY <1>1, <1>6, <2>0, <3>2, <4>3 DEF PcGiven, PcClearing, PcReply
        <3>. QED  BY <3>4, <3>5, <3>6, <3>7, <3>8 DEF PcGiven
    <2>. QED  BY <2>1, <2>2
<1>. QED  BY <1>5, <1>t, <1>w, <1>m, <1>c, <1>k, <1>g DEF PcInv

\* storage.ts: the first call completes, the worker takes what was loaded.
LEMMA PcLoaded ==
    ASSUME PcInv, Pending!StoreDone, calls[1].op = "load"
    PROVE  PcInv'
<1>. USE PendingAssumption
<1>1. /\ calls # <<>> /\ calls' = Tail(calls) /\ calls[1] = Head(calls)
      /\ calls' \in Seq(PcCall) /\ PcTook(calls, calls') /\ 1 \in 1..Len(calls)
    <2>1. calls # <<>> /\ calls' = Tail(calls)
        BY DEF Pending!StoreDone
    <2>2. calls' \in Seq(PcCall) /\ PcTook(calls, calls') /\ calls[1] = Head(calls)
        BY <2>1, PcTaken DEF PcInv, PcTypes
    <2>. QED  BY <2>1, <2>2 DEF PcTook
<1>2. /\ mem' = store
      /\ UNCHANGED <<store, link, working, last, sent, raced, toBg, popup, captured, opens, restarts>>
    BY <1>1 DEF Pending!StoreDone, Pending!bounds
<1>3. PICK m \in PcNews :
        /\ m.t = "status" /\ m.ctx = store
        /\ \/ toPopup' = toPopup
           \/ popup.pc # "closed" /\ calls[1].from = opens /\ toPopup' = Append(toPopup, m)
    <2>. DEFINE m == Pending!Status(store)
    <2>1. m \in PcNews /\ m.t = "status" /\ m.ctx = store
        BY DEF PcInv, PcTypes, Pending!Status, PcNews
    <2>2. toPopup' = toPopup \o Pending!Answer(calls[1].from, m)
        BY <1>1 DEF Pending!StoreDone, Pending!Tell
    <2>. HIDE DEF m
    <2>3. toPopup \in Seq(PcNews)
        BY DEF PcInv, PcTypes
    <2>. QED  BY <2>1, <2>2, <2>3, PcHears DEF Pending!Answer, Pending!Told
<1>4. /\ toPopup' \in Seq(PcNews)
      /\ \/ toPopup' = toPopup
         \/ popup.pc # "closed" /\ calls[1].from = opens /\ PcAdded(toPopup, toPopup', m)
    <2>1. toPopup \in Seq(PcNews)
        BY DEF PcInv, PcTypes
    <2>. QED  BY <1>3, <2>1, PcPut
<1>5. popup.pc # "closed" /\ calls[1].from = opens =>
         /\ popup.pc = "init" /\ opens > 0
         /\ \A i \in 1..Len(calls') : ~PcDone(i)'
         /\ \A i \in 1..Len(toBg) : ~PcMine(i)
         /\ \A i \in 1..Len(toPopup) : ~PcReply(i)
    <2>. SUFFICES ASSUME popup.pc # "closed", calls[1].from = opens
                  PROVE  /\ popup.pc = "init" /\ opens > 0
                         /\ \A i \in 1..Len(calls') : ~PcDone(i)'
                         /\ \A i \in 1..Len(toBg) : ~PcMine(i)
                         /\ \A i \in 1..Len(toPopup) : ~PcReply(i)
        OBVIOUS
    <2>1. /\ opens > 0 /\ "load" \in PcDoing(popup.pc)
          /\ \A j \in 1..Len(calls) : PcDone(j) => 1 = j
          /\ \A i \in 1..Len(toPopup) : ~PcReply(i)
        BY <1>1 DEF PcInv, PcWaits, PcDone
    <2>2. \A i \in 1..Len(toBg) : ~PcMine(i)
        BY <1>1 DEF PcInv, PcWaits, PcDone
    <2>3. \A i \in 1..Len(calls') : ~PcDone(i)'
        BY <1>1, <1>2, <2>1 DEF PcDone, PcTook
    <2>4. popup.pc = "init"
        BY <2>1 DEF PcDoing
    <2>. QED  BY <2>1, <2>2, <2>3, <2>4
<1>t. PcTypes'
    BY <1>1, <1>2, <1>4 DEF PcInv, PcTypes
<1>6. \A i \in 1..Len(calls') : i + 1 \in 1..Len(calls) /\ calls'[i] = calls[i + 1] /\ (PcDone(i)' = PcDone(i + 1))
    BY <1>1, <1>2 DEF PcTook, PcDone
<1>w. PcWaits'
    <2>1. CASE toPopup' = toPopup
        <3>1. /\ \A i \in 1..Len(toBg) : toBg[i].from <= opens
              /\ \A i \in 1..Len(toBg) : toBg[i].t \in {"set", "send"} \/ toBg[i].ctx = NoContext
              /\ \A i \in 1..Len(calls') : calls'[i].from <= opens
              /\ popup.pc = "closed" => toPopup = <<>>
            BY <1>6 DEF PcInv, PcWaits
        <3>2. popup.pc # "closed" => \A i \in 1..Len(toBg) : PcMine(i) => \A j \in 1..Len(calls') : ~PcDone(j)'
            BY <1>6 DEF PcInv, PcWaits
        <3>3. popup.pc # "closed" => \A i \in 1..Len(calls') : PcDone(i)' =>
                /\ calls'[i].op \in PcDoing(popup.pc)
                /\ \A j \in 1..Len(calls') : PcDone(j)' => i + 1 = j + 1
                /\ \A j \in 1..Len(toPopup) : ~PcReply(j)
            BY <1>6 DEF PcInv, PcWaits
        <3>4. popup.pc # "closed" =>
                /\ opens > 0
                /\ \A i \in 1..Len(toBg) : PcMine(i) =>
                      /\ toBg[i].t \in PcAsked(popup.pc)
                      /\ \A j \in 1..Len(toBg) : PcMine(j) => i = j
                      /\ \A j \in 1..Len(toPopup) : ~PcReply(j)
                /\ \A i \in 1..Len(toPopup) : PcReply(i) =>
                      /\ toPopup[i].t \in PcReplies(popup.pc)
                      /\ \A j \in 1..Len(toPopup) : PcReply(j) => i = j
            BY DEF PcInv, PcWaits
        <3>5. /\ \A i : PcMine(i)' = PcMine(i) /\ PcReply(i)' = PcReply(i)
              /\ UNCHANGED <<toBg, toPopup, popup, opens>>
            BY <1>2, <2>1 DEF PcMine, PcReply
        <3>6. popup.pc # "closed" => \A i \in 1..Len(calls') : PcDone(i)' => \A j \in 1..Len(calls') : PcDone(j)' => i = j
            BY <3>3
        <3>. QED  BY ONLY <3>1, <3>2, <3>3, <3>4, <3>5, <3>6 DEF PcWaits
    <2>2. CASE popup.pc # "closed" /\ calls[1].from = opens /\ PcAdded(toPopup, toPopup', m)
        <3>1. \A i \in 1..Len(toPopup') : PcReply(i)' => i = Len(toPopup) + 1 /\ toPopup'[i] = m
            BY <1>5, <2>2 DEF PcAdded, PcReply
        <3>2. /\ \A i \in 1..Len(toBg) : toBg[i].from <= opens
              /\ \A i \in 1..Len(toBg) : toBg[i].t \in {"set", "send"} \/ toBg[i].ctx = NoContext
              /\ \A i \in 1..Len(calls') : calls'[i].from <= opens
            BY <1>6 DEF PcInv, PcWaits
        <3>3. m.t \in PcReplies(popup.pc)
            BY <1>3, <1>5, <2>2 DEF PcReplies
        <3>. QED  BY ONLY <1>2, <1>5, <2>2, <3>1, <3>2, <3>3 DEF PcWaits, PcMine, PcDone
    <2>. QED  BY <1>4, <2>1, <2>2
<1>7. ~raced => /\ store = last /\ mem' = last /\ \A i \in 1..Len(calls) : calls[i].op = "load"
    BY <1>1, <1>2 DEF PcInv, PcWorker
<1>m. PcWorker'
    BY <1>2, <1>6, <1>7 DEF PcWorker
<1>c. PcChip'
    <2>. SUFFICES ASSUME ~raced, popup.pc # "closed",
                         \A i \in 1..Len(toBg) : toBg[i].t \notin {"set", "clear"}
                  PROVE  \E i \in 0..Len(toPopup') :
                            /\ i = 0 => popup.pc = "init" \/ popup.ctx = last
                            /\ i # 0 => PcTells(i)' /\ toPopup'[i].ctx = last
                            /\ \A j \in 1..Len(toPopup') : j > i => ~PcTells(j)'
        BY <1>2 DEF PcChip
    <2>1. CASE toPopup' = toPopup
        BY <1>7, <2>1 DEF PcInv, PcChip, PcTells
    <2>2. CASE PcAdded(toPopup, toPopup', m)
        <3>1. PICK n \in 0..Len(toPopup') : n # 0 /\ toPopup'[n] = m /\ \A j \in 1..Len(toPopup') : ~(j > n)
            BY <2>2 DEF PcAdded
        <3>2. PcTells(n)' /\ toPopup'[n].ctx = last
            BY <1>3, <1>7, <3>1 DEF PcTells
        <3>. QED  BY <3>1, <3>2
    <2>. QED  BY <1>4, <2>1, <2>2
<1>8. \A x : /\ (x \in Contexts /\ PcHeld(x)') => PcHeld(x)
             /\ (x \in Contexts /\ PcShown(x)') => PcShown(x) \/ PcHeld(x)
    <2>. SUFFICES ASSUME NEW x \in Contexts
                  PROVE  (PcHeld(x)' => PcHeld(x)) /\ (PcShown(x)' => PcShown(x) \/ PcHeld(x))
        OBVIOUS
    <2>1. PcHeld(x)' => PcHeld(x)
        BY <1>2, <1>6 DEF PcHeld
    <2>2. PcShown(x)' => PcShown(x) \/ PcHeld(x)
        BY <1>2, <1>3, <1>4 DEF PcHeld, PcShown, PcAdded
    <2>. QED  BY <2>1, <2>2
<1>k. PcKnown'
    BY <1>2, <1>8 DEF PcInv, PcKnown
<1>g. ASSUME NEW x \in Contexts, ~raced'
      PROVE  PcGiven(x)'
    <2>0. PcGiven(x) /\ ~raced
        BY <1>2, <1>g DEF PcInv
    <2>4. PcGone(x)'
        BY <1>2, <1>8, <2>0 DEF PcGiven, PcGone, PcOut, PcSends, PcSets
    <2>5. PcSendOnce(x)'
        BY <1>2, <2>0 DEF PcGiven, PcSendOnce, PcSends, PcMine
    <2>6. PcSetOnce(x)'
        <3>1. ~PcHeld(x) => \A j \in 1..Len(toPopup') : toPopup'[j].ctx # x \/ (j \in 1..Len(toPopup) /\ toPopup'[j] = toPopup[j])
            BY <1>3, <1>4 DEF PcHeld, PcAdded
        <3>. QED  BY <1>2, <1>8, <2>0, <3>1 DEF PcGiven, PcSetOnce, PcSets, PcMine
    <2>7. PcSending(x)'
        <3>1. \A i \in 1..Len(toPopup') : toPopup'[i].t \in {"disconnected", "refused"} => i \in 1..Len(toPopup) /\ toPopup'[i] = toPopup[i]
            BY <1>3, <1>4 DEF PcAdded
        <3>. QED  BY <1>2, <2>0, <3>1 DEF PcGiven, PcSending, PcMine
    <2>8. PcClearing(x)'
        <3>. SUFFICES ASSUME popup.pc = "clearing", popup.sending = x
                      PROVE  PcClearing(x)'
            BY <1>2 DEF PcClearing
        <3>1. toPopup' = toPopup
            BY <1>4, <1>5
        <3>2. \A i \in 1..Len(calls') : PcDone(i)' => x \notin {mem', last'} /\ \A j \in 1..Len(calls') : calls'[j].ctx = x => j < i
            <4>. SUFFICES ASSUME NEW i \in 1..Len(calls'), PcDone(i)'
                          PROVE  x \notin {mem', last'} /\ \A j \in 1..Len(calls') : calls'[j].ctx = x => j < i
                OBVIOUS
            <4>1. x \notin {mem, last} /\ \A j \in 1..Len(calls) : calls[j].ctx = x => j < i + 1
                BY <1>6, <2>0 DEF PcGiven, PcClearing
            <4>2. \A j \in 1..Len(calls') : calls'[j].ctx = x => j + 1 < i + 1
                BY <1>6, <4>1
            <4>. QED  BY <1>2, <1>7, <2>0, <4>1, <4>2
        <3>. QED  BY <1>2, <1>8, <2>0, <3>1, <3>2 DEF PcGiven, PcClearing, PcReply
    <2>. QED  BY <2>4, <2>5, <2>6, <2>7, <2>8 DEF PcGiven
<1>. QED  BY <1>2, <1>t, <1>w, <1>m, <1>c, <1>k, <1>g DEF PcInv

\* storage.ts: the first call completes, the popup is told what was stored.
LEMMA PcStored ==
    ASSUME PcInv, Pending!StoreDone, calls[1].op # "load"
    PROVE  PcInv'
<1>. USE PendingAssumption
<1>1. /\ calls # <<>> /\ calls' = Tail(calls) /\ calls[1] = Head(calls) /\ calls[1] \in PcCall
      /\ calls' \in Seq(PcCall) /\ PcTook(calls, calls') /\ 1 \in 1..Len(calls)
    <2>1. calls # <<>> /\ calls' = Tail(calls)
        BY DEF Pending!StoreDone
    <2>2. calls' \in Seq(PcCall) /\ PcTook(calls, calls') /\ calls[1] = Head(calls) /\ calls[1] \in PcCall
        BY <2>1, PcTaken DEF PcInv, PcTypes
    <2>. QED  BY <2>1, <2>2 DEF PcTook
<1>2. /\ store' = calls[1].ctx /\ store' \in Contexts \cup {NoContext}
      /\ UNCHANGED <<mem, link, working, last, sent, raced, toBg, popup, captured, opens, restarts>>
    BY <1>1 DEF Pending!StoreDone, Pending!bounds, PcCall
<1>3. PICK m \in PcNews, k \in PcNews :
        /\ m.t = "pendingContext" /\ m.ctx = calls[1].ctx /\ k.t = "ok" /\ k.ctx = NoContext
        /\ \/ popup.pc = "closed" /\ toPopup' = toPopup
           \/ popup.pc # "closed" /\ calls[1].from # opens /\ toPopup' = Append(toPopup, m)
           \/ popup.pc # "closed" /\ calls[1].from = opens /\ toPopup' = Append(Append(toPopup, m), k)
    <2>. DEFINE m == Pending!Notify(calls[1].ctx)
    <2>. DEFINE k == Pending!Ok
    <2>1. m \in PcNews /\ m.t = "pendingContext" /\ m.ctx = calls[1].ctx
        BY <1>1, <1>2 DEF Pending!Notify, PcNews
    <2>2. k \in PcNews /\ k.t = "ok" /\ k.ctx = NoContext
        BY DEF PcInv, PcTypes, Pending!Ok, PcNews
    <2>3. toPopup' = toPopup \o (Pending!Told(<<m>>) \o Pending!Answer(calls[1].from, k))
        BY <1>1 DEF Pending!StoreDone, Pending!Tell
    <2>. HIDE DEF m, k
    <2>4. toPopup \in Seq(PcNews)
        BY DEF PcInv, PcTypes
    <2>. QED  BY <2>1, <2>2, <2>3, <2>4, PcHears DEF Pending!Answer, Pending!Told
<1>0. PICK n \in Nat : n = Len(toPopup)
    BY DEF PcInv, PcTypes
<1>4. /\ toPopup' \in Seq(PcNews) /\ n \in Nat /\ n = Len(toPopup)
      /\ \A i \in 1..n : i \in 1..Len(toPopup') /\ toPopup'[i] = toPopup[i]
      /\ \A i \in 1..Len(toPopup') :
            i \in 1..n \/ (i = n + 1 /\ toPopup'[i] = m /\ popup.pc # "closed")
                       \/ (i = n + 2 /\ toPopup'[i] = k /\ popup.pc # "closed" /\ calls[1].from = opens)
      /\ popup.pc # "closed" => n + 1 \in 1..Len(toPopup') /\ toPopup'[n + 1] = m
      /\ popup.pc = "closed" => toPopup' = toPopup
    <2>1. toPopup \in Seq(PcNews) /\ n \in Nat
        BY <1>0 DEF PcInv, PcTypes
    <2>2. /\ Append(toPopup, m) \in Seq(PcNews) /\ PcAdded(toPopup, Append(toPopup, m), m)
          /\ Append(Append(toPopup, m), k) \in Seq(PcNews)
          /\ PcAdded(Append(toPopup, m), Append(Append(toPopup, m), k), k)
        BY <2>1, PcPut
    <2>3. CASE popup.pc = "closed"
        BY <1>0, <1>3, <2>1, <2>3
    <2>4. CASE popup.pc # "closed" /\ calls[1].from # opens
        BY <1>0, <1>3, <2>1, <2>2, <2>4 DEF PcAdded
    <2>5. CASE popup.pc # "closed" /\ calls[1].from = opens
        BY <1>0, <1>3, <2>1, <2>2, <2>5 DEF PcAdded
    <2>. QED  BY <2>3, <2>4, <2>5
<1>5. popup.pc # "closed" /\ calls[1].from = opens =>
         /\ popup.pc \in {"clearing", "restoring"} /\ opens > 0
         /\ \A i \in 1..Len(calls') : ~PcDone(i)'
         /\ \A i \in 1..Len(toBg) : ~PcMine(i)
         /\ \A i \in 1..Len(toPopup) : ~PcReply(i)
    <2>. SUFFICES ASSUME popup.pc # "closed", calls[1].from = opens
                  PROVE  /\ popup.pc \in {"clearing", "restoring"} /\ opens > 0
                         /\ \A i \in 1..Len(calls') : ~PcDone(i)'
                         /\ \A i \in 1..Len(toBg) : ~PcMine(i)
                         /\ \A i \in 1..Len(toPopup) : ~PcReply(i)
        OBVIOUS
    <2>1. /\ opens > 0 /\ calls[1].op \in PcDoing(popup.pc)
          /\ \A j \in 1..Len(calls) : PcDone(j) => 1 = j
          /\ \A i \in 1..Len(toPopup) : ~PcReply(i)
        BY <1>1 DEF PcInv, PcWaits, PcDone
    <2>2. \A i \in 1..Len(toBg) : ~PcMine(i)
        BY <1>1 DEF PcInv, PcWaits, PcDone
    <2>3. \A i \in 1..Len(calls') : ~PcDone(i)'
        BY <1>1, <1>2, <2>1 DEF PcDone, PcTook
    <2>4. popup.pc \in {"clearing", "restoring"}
        BY <2>1 DEF PcDoing
    <2>. QED  BY <2>1, <2>2, <2>3, <2>4
<1>t. PcTypes'
    BY <1>1, <1>2, <1>4 DEF PcInv, PcTypes
<1>6. \A i \in 1..Len(calls') : i + 1 \in 1..Len(calls) /\ calls'[i] = calls[i + 1] /\ (PcDone(i)' = PcDone(i + 1))
    BY <1>1, <1>2 DEF PcTook, PcDone
<1>w. PcWaits'
    <2>2. /\ \A i \in 1..Len(toBg) : toBg[i].from <= opens
          /\ \A i \in 1..Len(toBg) : toBg[i].t \in {"set", "send"} \/ toBg[i].ctx = NoContext
          /\ \A i \in 1..Len(calls') : calls'[i].from <= opens
        BY <1>6 DEF PcInv, PcWaits
    <2>1. CASE popup.pc # "closed" /\ calls[1].from # opens
        <3>1. \A i \in 1..Len(toPopup') : PcReply(i)' => i \in 1..Len(toPopup) /\ toPopup'[i] = toPopup[i] /\ PcReply(i)
            BY <1>3, <1>4, <2>1 DEF PcReply
        <3>2. \A i \in 1..Len(toBg) : PcMine(i) => \A j \in 1..Len(calls') : ~PcDone(j)'
            BY <1>6, <2>1 DEF PcInv, PcWaits
        <3>3. \A i \in 1..Len(calls') : PcDone(i)' =>
                /\ calls'[i].op \in PcDoing(popup.pc)
                /\ \A j \in 1..Len(calls') : PcDone(j)' => i + 1 = j + 1
                /\ \A j \in 1..Len(toPopup) : ~PcReply(j)
            BY <1>6, <2>1 DEF PcInv, PcWaits
        <3>4. /\ opens > 0
              /\ \A i \in 1..Len(toBg) : PcMine(i) =>
                    /\ toBg[i].t \in PcAsked(popup.pc)
                    /\ \A j \in 1..Len(toBg) : PcMine(j) => i = j
                    /\ \A j \in 1..Len(toPopup) : ~PcReply(j)
              /\ \A i \in 1..Len(toPopup) : PcReply(i) =>
                    /\ toPopup[i].t \in PcReplies(popup.pc)
                    /\ \A j \in 1..Len(toPopup) : PcReply(j) => i = j
            BY <2>1 DEF PcInv, PcWaits
        <3>5. (\A i : PcMine(i)' = PcMine(i)) /\ UNCHANGED <<toBg, popup, opens>>
            BY <1>2 DEF PcMine
        <3>6. \A i \in 1..Len(calls') : PcDone(i)' => \A j \in 1..Len(calls') : PcDone(j)' => i = j
            BY <3>3
        <3>. QED  BY ONLY <2>1, <2>2, <3>1, <3>2, <3>3, <3>4, <3>5, <3>6 DEF PcWaits
    <2>3. CASE popup.pc # "closed" /\ calls[1].from = opens
        <3>1. \A i \in 1..Len(toPopup') : PcReply(i)' => i = n + 2 /\ toPopup'[i] = k
            BY <1>3, <1>4, <1>5, <2>3 DEF PcReply
        <3>3. k.t \in PcReplies(popup.pc)
            BY <1>3, <1>5, <2>3 DEF PcReplies
        <3>. QED  BY ONLY <1>2, <1>5, <2>2, <2>3, <3>1, <3>3 DEF PcWaits, PcMine, PcDone
    <2>4. CASE popup.pc = "closed"
        BY <1>2, <1>4, <2>2, <2>4 DEF PcInv, PcWaits
    <2>. QED  BY <2>1, <2>3, <2>4
<1>7. ~raced => /\ calls[Len(calls)].ctx = last /\ mem = last /\ mem' = last
                /\ \A i \in 1..Len(calls) : calls[i].op # "load"
    BY <1>1, <1>2 DEF PcInv, PcWorker
<1>8. ~raced /\ calls' = <<>> => store' = last
    BY <1>1, <1>2, <1>7 DEF PcTook
<1>m. PcWorker'
    <2>. SUFFICES ASSUME ~raced' PROVE PcWorker'
        BY DEF PcWorker
    <2>1. \A i \in 1..Len(calls') : calls'[i].op # "load"
        BY <1>2, <1>6, <1>7
    <2>2. CASE calls' = <<>>
        BY <1>2, <1>7, <1>8, <2>2 DEF PcWorker
    <2>3. CASE calls' # <<>>
        <3>1. Len(calls') \in 1..Len(calls') /\ Len(calls') + 1 = Len(calls)
            BY <1>1, <2>3 DEF PcTook
        <3>2. calls'[Len(calls')].ctx = last
            BY <1>2, <1>6, <1>7, <3>1
        <3>. QED  BY <1>2, <1>7, <2>1, <2>3, <3>2 DEF PcWorker
    <2>. QED  BY <2>2, <2>3
<1>c. PcChip'
    <2>. SUFFICES ASSUME ~raced, popup.pc # "closed", \A i \in 1..Len(calls') : calls'[i].op = "load"
                  PROVE  \E i \in 0..Len(toPopup') :
                            /\ i = 0 => popup.pc = "init" \/ popup.ctx = last
                            /\ i # 0 => PcTells(i)' /\ toPopup'[i].ctx = last
                            /\ \A j \in 1..Len(toPopup') : j > i => ~PcTells(j)'
        BY <1>2 DEF PcChip
    <2>1. \A i \in 1..Len(calls') : FALSE
        BY <1>6, <1>7
    <2>2. calls' = <<>>
        <3>1. Len(calls') = 0 /\ calls' \in Seq(PcCall)
            BY ONLY <1>1, <2>1 DEF PcTook
        <3>. QED  BY ONLY <3>1
    <2>3. m.ctx = last
        BY <1>2, <1>3, <1>8, <2>2
    <2>4. n + 1 \in 0..Len(toPopup') /\ n + 1 # 0 /\ PcTells(n + 1)' /\ toPopup'[n + 1].ctx = last
        BY <1>3, <1>4, <2>3 DEF PcTells
    <2>5. \A j \in 1..Len(toPopup') : j > n + 1 => ~PcTells(j)'
        BY <1>3, <1>4 DEF PcTells
    <2>. QED  BY <2>4, <2>5
<1>9. ASSUME NEW x \in Contexts
      PROVE  /\ PcHeld(x)' => PcHeld(x)
             /\ \A i \in 1..Len(toPopup') : toPopup'[i].ctx = x => PcHeld(x) \/ (i \in 1..n /\ toPopup[i].ctx = x)
             /\ PcShown(x)' => PcShown(x) \/ PcHeld(x)
    <2>0. calls[1].ctx = x => PcHeld(x)
        BY <1>1 DEF PcHeld
    <2>1. PcHeld(x)' => PcHeld(x)
        BY <1>2, <1>6, <2>0 DEF PcHeld
    <2>2. \A i \in 1..Len(toPopup') : toPopup'[i].ctx = x => PcHeld(x) \/ (i \in 1..n /\ toPopup[i].ctx = x)
        BY <1>3, <1>4, <2>0
    <2>. QED  BY <1>2, <1>4, <2>1, <2>2 DEF PcShown
<1>k. PcKnown'
    BY <1>2, <1>9 DEF PcInv, PcKnown
<1>g. ASSUME NEW x \in Contexts, ~raced'
      PROVE  PcGiven(x)'
    <2>0. PcGiven(x) /\ ~raced
        BY <1>2, <1>g DEF PcInv
    <2>4. PcGone(x)'
        BY <1>2, <1>9, <2>0 DEF PcGiven, PcGone, PcOut, PcSends, PcSets
    <2>5. PcSendOnce(x)'
        BY <1>2, <2>0 DEF PcGiven, PcSendOnce, PcSends, PcMine
    <2>6. PcSetOnce(x)'
        BY <1>2, <1>4, <1>9, <2>0 DEF PcGiven, PcSetOnce, PcSets, PcMine
    <2>7. PcSending(x)'
        <3>1. \A i \in 1..Len(toPopup') : toPopup'[i].t \in {"disconnected", "refused"} => i \in 1..Len(toPopup) /\ toPopup'[i] = toPopup[i]
            BY <1>3, <1>4
        <3>. QED  BY <1>2, <2>0, <3>1 DEF PcGiven, PcSending, PcMine
    <2>8. PcClearing(x)'
        <3>. SUFFICES ASSUME popup.pc = "clearing", popup.sending = x
                      PROVE  PcClearing(x)'
            BY <1>2 DEF PcClearing
        <3>2. \A i \in 1..Len(calls') : PcDone(i)' => x \notin {mem', last'} /\ \A j \in 1..Len(calls') : calls'[j].ctx = x => j < i
            <4>. SUFFICES ASSUME NEW i \in 1..Len(calls'), PcDone(i)'
                          PROVE  x \notin {mem', last'} /\ \A j \in 1..Len(calls') : calls'[j].ctx = x => j < i
                OBVIOUS
            <4>1. x \notin {mem, last} /\ \A j \in 1..Len(calls) : calls[j].ctx = x => j < i + 1
                BY <1>6, <2>0 DEF PcGiven, PcClearing
            <4>2. \A j \in 1..Len(calls') : calls'[j].ctx = x => j + 1 < i + 1
                BY <1>6, <4>1
            <4>. QED  BY <1>2, <4>1, <4>2
        <3>3. \A i \in 1..Len(toPopup') : PcReply(i)' =>
                 /\ ~PcHeld(x)'
                 /\ \E j \in 0..i - 1 :
                       /\ j = 0 => popup'.ctx # x
                       /\ j # 0 => toPopup'[j].t = "pendingContext" /\ toPopup'[j].ctx # x
                       /\ \A l \in 1..Len(toPopup') : l > j => toPopup'[l].ctx # x
            <4>. SUFFICES ASSUME NEW i \in 1..Len(toPopup'), PcReply(i)'
                          PROVE  /\ ~PcHeld(x)'
                                 /\ \E j \in 0..i - 1 :
                                       /\ j = 0 => popup'.ctx # x
                                       /\ j # 0 => toPopup'[j].t = "pendingContext" /\ toPopup'[j].ctx # x
                                       /\ \A l \in 1..Len(toPopup') : l > j => toPopup'[l].ctx # x
                OBVIOUS
            <4>1. (i \in 1..n /\ PcReply(i)) \/ (i = n + 2 /\ calls[1].from = opens)
                BY <1>3, <1>4 DEF PcReply
            <4>2. CASE i \in 1..n /\ PcReply(i)
                <5>1. ~PcHeld(x)
                    BY <1>4, <2>0, <4>2 DEF PcGiven, PcClearing
                <5>2. PICK j \in 0..i - 1 :
                         /\ j = 0 => popup.ctx # x
                         /\ j # 0 => toPopup[j].t = "pendingContext" /\ toPopup[j].ctx # x
                         /\ \A l \in 1..Len(toPopup) : l > j => toPopup[l].ctx # x
                    BY <1>4, <2>0, <4>2 DEF PcGiven, PcClearing
                <5>3. j # 0 => j \in 1..n
                    BY <1>4, <4>2
                <5>4. \A l \in 1..Len(toPopup') : l > j => toPopup'[l].ctx # x
                    BY <1>4, <1>9, <5>1, <5>2
                <5>5. j # 0 => toPopup'[j].t = "pendingContext" /\ toPopup'[j].ctx # x
                    BY <1>4, <5>2, <5>3
                <5>. QED  BY <1>2, <1>9, <5>1, <5>2, <5>4, <5>5
            <4>3. CASE i = n + 2 /\ calls[1].from = opens
                <5>1. x \notin {mem, last} /\ \A j \in 1..Len(calls) : calls[j].ctx # x
                    <6>1. PcDone(1)
                        BY <4>3 DEF PcDone
                    <6>2. x \notin {mem, last} /\ \A j \in 1..Len(calls) : calls[j].ctx = x => j < 1
                        BY <1>1, <2>0, <6>1 DEF PcGiven, PcClearing
                    <6>. QED  BY <6>2
                <5>2. ~PcHeld(x)' /\ m.ctx # x /\ k.ctx # x
                    BY <1>1, <1>2, <1>3, <1>6, <5>1 DEF PcHeld
                <5>3. \A l \in 1..Len(toPopup') : l > n + 1 => toPopup'[l].ctx # x
                    BY <1>4, <5>2
                <5>4. n + 1 \in 0..i - 1 /\ n + 1 # 0
                    BY <1>4, <4>3
                <5>5. toPopup'[n + 1].t = "pendingContext" /\ toPopup'[n + 1].ctx # x
                    BY <1>3, <1>4, <5>2
                <5>. QED  BY <5>2, <5>3, <5>4, <5>5
            <4>. QED  BY <4>1, <4>2, <4>3
        <3>4. x \notin sent
            BY <2>0 DEF PcGiven, PcClearing
        <3>. QED  BY <1>2, <3>2, <3>3, <3>4 DEF PcClearing
    <2>. QED  BY <2>4, <2>5, <2>6, <2>7, <2>8 DEF PcGiven
<1>. QED  BY <1>2, <1>t, <1>w, <1>m, <1>c, <1>k, <1>g DEF PcInv

\* background.ts: the browser stops the worker, and the connection with it.
LEMMA PcRestarts ==
    ASSUME PcInv, Pending!Restart
    PROVE  PcInv'
<1>. USE PendingAssumption
<1>1. /\ calls = <<>> /\ mem' = Unset /\ link' = "idle" /\ working' = FALSE
      /\ UNCHANGED <<store, calls, last, sent, raced, toBg, toPopup, popup, captured, opens>>
    BY DEF Pending!Restart
<1>t. PcTypes'
    BY <1>1 DEF PcInv, PcTypes
<1>w. PcWaits'
    BY <1>1 DEF PcInv, PcWaits, PcMine, PcDone, PcReply
<1>m. PcWorker'
    BY <1>1 DEF PcInv, PcWorker
<1>c. PcChip'
    BY <1>1 DEF PcInv, PcChip, PcTells
<1>2. ASSUME NEW x \in Contexts PROVE PcHeld(x)' => PcHeld(x)
    BY <1>1 DEF PcHeld
<1>k. PcKnown'
    BY <1>1, <1>2 DEF PcInv, PcKnown, PcShown
<1>g. ASSUME NEW x \in Contexts, ~raced'
      PROVE  PcGiven(x)'
    <2>0. PcGiven(x)
        BY <1>1, <1>g DEF PcInv
    <2>4. PcGone(x)'
        BY <1>1, <1>2, <2>0 DEF PcGiven, PcGone, PcOut, PcShown, PcSends, PcSets
    <2>5. PcSendOnce(x)'
        BY <1>1, <2>0 DEF PcGiven, PcSendOnce, PcSends, PcMine
    <2>6. PcSetOnce(x)'
        BY <1>1, <1>2, <2>0 DEF PcGiven, PcSetOnce, PcSets, PcMine
    <2>7. PcSending(x)'
        BY <1>1, <2>0 DEF PcGiven, PcSending, PcMine
    <2>8. PcClearing(x)'
        <3>1. \A i \in 1..Len(calls) : FALSE
            BY <1>1
        <3>. QED  BY <1>1, <1>2, <2>0, <3>1 DEF PcGiven, PcClearing, PcReply
    <2>. QED  BY <2>4, <2>5, <2>6, <2>7, <2>8 DEF PcGiven
<1>. QED  BY <1>1, <1>t, <1>w, <1>m, <1>c, <1>k, <1>g DEF PcInv

\* popup.tsx: the popup is opened and asks for the status, or it is closed.
LEMMA PcOpens ==
    ASSUME PcInv, Pending!Open \/ Pending!ClosePopup
    PROVE  PcInv'
<1>. USE PendingAssumption
<1>. DEFINE q == [t |-> "status", ctx |-> NoContext, from |-> opens + 1]
<1>1. /\ popup'.ctx = NoContext /\ popup'.sending = NoContext /\ popup' \in PcPopup /\ toPopup' = <<>>
      /\ \/ popup'.pc = "init" /\ opens' = opens + 1 /\ toBg' = Append(toBg, q)
         \/ popup'.pc = "closed" /\ opens' = opens /\ toBg' = toBg
      /\ UNCHANGED <<mem, store, calls, link, working, last, sent, raced, captured, restarts>>
    <2>1. CASE Pending!Open
        <3>1. toPopup = <<>>
            BY <2>1 DEF Pending!Open, PcInv, PcWaits
        <3>2. popup' = [pc |-> "init", ctx |-> NoContext, sending |-> NoContext, canChat |-> FALSE, working |-> FALSE]
            BY <2>1 DEF Pending!Open, Pending!Closed
        <3>3. popup' \in PcPopup
            BY <3>2 DEF PcPopup
        <3>. QED  BY <2>1, <3>1, <3>2, <3>3 DEF Pending!Open, Pending!Post, Pending!Msg, Pending!bgVars
    <2>2. CASE Pending!ClosePopup
        BY <2>2 DEF Pending!ClosePopup, Pending!Closed, Pending!bgVars, Pending!bounds, PcPopup
    <2>. QED  BY <2>1, <2>2
<1>2. q \in PcAsk /\ q.t = "status" /\ q.ctx = NoContext /\ q.from = opens + 1
    BY DEF PcInv, PcTypes, PcAsk
<1>. HIDE DEF q
<1>3. toBg' \in Seq(PcAsk) /\ (toBg' = toBg \/ (PcAdded(toBg, toBg', q) /\ opens' = opens + 1))
    <2>1. toBg \in Seq(PcAsk)
        BY DEF PcInv, PcTypes
    <2>. QED  BY <1>1, <1>2, <2>1, PcPut
<1>4. /\ \A i \in 1..Len(toBg') : (i \in 1..Len(toBg) /\ toBg'[i] = toBg[i]) \/ (i = Len(toBg) + 1 /\ toBg'[i] = q /\ opens' = opens + 1)
      /\ \A i \in 1..Len(toBg) : i \in 1..Len(toBg') /\ toBg'[i] = toBg[i]
      /\ Len(toPopup') = 0 /\ opens \in Nat
    BY <1>1, <1>3 DEF PcAdded, PcInv, PcTypes
<1>t. PcTypes'
    BY <1>1, <1>3 DEF PcInv, PcTypes
<1>w. PcWaits'
    <2>0. /\ \A i \in 1..Len(toBg) : toBg[i] \in PcAsk /\ toBg[i].from \in Nat
          /\ \A i \in 1..Len(calls) : calls[i] \in PcCall /\ calls[i].from \in Nat
        <3>1. calls \in Seq(PcCall) /\ toBg \in Seq(PcAsk)
            BY DEF PcInv, PcTypes
        <3>2. (\A i \in 1..Len(toBg) : toBg[i] \in PcAsk) /\ \A i \in 1..Len(calls) : calls[i] \in PcCall
            BY ONLY <3>1
        <3>. QED  BY ONLY <3>2 DEF PcAsk, PcCall
    <2>1. /\ \A i \in 1..Len(toBg) : toBg[i].from <= opens /\ toBg[i].from \in Nat
          /\ \A i \in 1..Len(toBg) : toBg[i].t \in {"set", "send"} \/ toBg[i].ctx = NoContext
          /\ \A i \in 1..Len(calls) : calls[i].from <= opens /\ calls[i].from \in Nat
        BY <2>0 DEF PcInv, PcWaits
    <2>2. CASE popup'.pc = "closed"
        BY <1>1, <1>4, <2>1, <2>2 DEF PcWaits
    <2>3. CASE popup'.pc = "init" /\ opens' = opens + 1
        <3>1. /\ \A i \in 1..Len(toBg') : toBg'[i].from <= opens'
              /\ \A i \in 1..Len(toBg') : toBg'[i].t \in {"set", "send"} \/ toBg'[i].ctx = NoContext
              /\ \A i \in 1..Len(calls) : calls[i].from <= opens' /\ calls[i].from # opens'
            BY <1>2, <1>4, <2>1, <2>3
        <3>2. \A i \in 1..Len(toBg') : PcMine(i)' => i = Len(toBg) + 1 /\ toBg'[i].t = "status"
            BY <1>2, <1>4, <2>1, <2>3 DEF PcMine
        <3>. QED  BY <1>1, <1>4, <2>3, <3>1, <3>2 DEF PcWaits, PcDone, PcAsked
    <2>. QED  BY <1>1, <2>2, <2>3
<1>m. PcWorker'
    BY <1>1 DEF PcInv, PcWorker
<1>c. PcChip'
    <2>1. popup'.pc # "closed" => popup'.pc = "init"
        BY <1>1
    <2>2. 0 \in 0..Len(toPopup') /\ \A j \in 1..Len(toPopup') : FALSE
        BY <1>4
    <2>. QED  BY <2>1, <2>2 DEF PcChip
<1>5. ASSUME NEW x \in Contexts PROVE (PcHeld(x)' = PcHeld(x)) /\ ~PcShown(x)'
    BY <1>1, <1>4 DEF PcHeld, PcShown
<1>k. PcKnown'
    BY <1>1, <1>2, <1>4, <1>5 DEF PcInv, PcKnown
<1>g. ASSUME NEW x \in Contexts, ~raced'
      PROVE  PcGiven(x)'
    <2>0. PcGiven(x)
        BY <1>1, <1>g DEF PcInv
    <2>1. \A i \in 1..Len(toBg') : (PcSends(i, x)' => i \in 1..Len(toBg) /\ PcSends(i, x)) /\ (PcSets(i, x)' => i \in 1..Len(toBg) /\ PcSets(i, x))
        BY <1>2, <1>4 DEF PcSends, PcSets
    <2>2. PcOut(x)' => PcOut(x)
        BY <1>1, <2>1 DEF PcOut
    <2>4. PcGone(x)'
        BY <1>5, <2>0, <2>1, <2>2 DEF PcGiven, PcGone
    <2>5. PcSendOnce(x)'
        BY <1>1, <2>0, <2>1 DEF PcGiven, PcSendOnce
    <2>6. PcSetOnce(x)'
        BY <1>1, <1>4, <1>5, <2>0, <2>1 DEF PcGiven, PcSetOnce
    <2>. QED  BY <1>1, <2>4, <2>5, <2>6 DEF PcGiven, PcSending, PcClearing
<1>. QED  BY <1>1, <1>t, <1>w, <1>m, <1>c, <1>k, <1>g DEF PcInv

\* popup.tsx: a popup that waits for nothing asks, with nothing at stake but what
\* it shows.
LEMMA PcClicks ==
    ASSUME PcInv, popup.pc = "ready", NEW q \in PcAsk, toBg' = Append(toBg, q),
           q.ctx = NoContext, popup' \in PcPopup,
           \/ q.from = 0 /\ q.t = "clear" /\ popup'.pc = "ready"
           \/ q.from = opens /\ popup'.pc \notin {"closed", "init", "ready"} /\ q.t \in PcAsked(popup'.pc),
           popup'.ctx \in {popup.ctx, NoContext},
           popup'.ctx = popup.ctx \/ q.t = "clear",
           \/ popup'.sending = popup.sending
           \/ popup'.pc = "clearing" /\ popup'.sending = popup.ctx /\ popup'.ctx = NoContext,
           UNCHANGED <<mem, store, calls, link, working, last, sent, raced, toPopup, captured, opens, restarts>>
    PROVE  PcInv'
<1>. USE PendingAssumption
<1>1. toBg' \in Seq(PcAsk) /\ PcAdded(toBg, toBg', q)
    BY PcPut DEF PcInv, PcTypes
<1>2. /\ opens > 0 /\ opens \in Nat
      /\ \A i \in 1..Len(toBg) : ~PcMine(i)
      /\ \A i \in 1..Len(calls) : ~PcDone(i)
      /\ \A i \in 1..Len(toPopup) : ~PcReply(i)
    BY DEF PcInv, PcTypes, PcWaits, PcAsked, PcDoing, PcReplies
<1>t. PcTypes'
    BY <1>1 DEF PcInv, PcTypes
<1>w. PcWaits'
    <2>1. /\ \A i \in 1..Len(toBg) : toBg[i].from <= opens
          /\ \A i \in 1..Len(toBg) : toBg[i].t \in {"set", "send"} \/ toBg[i].ctx = NoContext
          /\ \A i \in 1..Len(calls) : calls[i].from <= opens
        BY DEF PcInv, PcWaits
    <2>2. /\ \A i \in 1..Len(toBg') : toBg'[i].from <= opens
          /\ \A i \in 1..Len(toBg') : toBg'[i].t \in {"set", "send"} \/ toBg'[i].ctx = NoContext
        BY <1>1, <1>2, <2>1 DEF PcAdded
    <2>3. \A i \in 1..Len(toBg') : PcMine(i)' => i = Len(toBg) + 1 /\ toBg'[i].t \in PcAsked(popup'.pc)
        BY <1>1, <1>2 DEF PcAdded, PcMine
    <2>. QED  BY <1>2, <2>1, <2>2, <2>3 DEF PcWaits, PcDone, PcReply
<1>m. PcWorker'
    BY DEF PcInv, PcWorker
<1>c. PcChip'
    <2>1. CASE q.t = "clear"
        <3>1. Len(toBg) + 1 \in 1..Len(toBg') /\ toBg'[Len(toBg) + 1].t = "clear"
            BY <1>1, <2>1 DEF PcAdded
        <3>. QED  BY <3>1 DEF PcChip
    <2>2. CASE popup'.ctx = popup.ctx /\ popup'.pc # "closed"
        <3>1. (\A i \in 1..Len(toBg') : toBg'[i].t \notin {"set", "clear"}) => \A i \in 1..Len(toBg) : toBg[i].t \notin {"set", "clear"}
            BY <1>1 DEF PcAdded
        <3>. QED  BY <2>2, <3>1 DEF PcInv, PcChip, PcTells
    <2>. QED  BY <2>1, <2>2
<1>5. ASSUME NEW x \in Contexts PROVE (PcHeld(x)' = PcHeld(x)) /\ (PcShown(x)' => PcShown(x))
    BY DEF PcHeld, PcShown
<1>k. PcKnown'
    BY <1>1, <1>5 DEF PcInv, PcKnown, PcShown, PcAdded
<1>g. ASSUME NEW x \in Contexts, ~raced'
      PROVE  PcGiven(x)'
    <2>0. PcGiven(x)
        BY <1>g DEF PcInv
    <2>1. \A i \in 1..Len(toBg') : (PcSends(i, x)' => i \in 1..Len(toBg) /\ PcSends(i, x)) /\ (PcSets(i, x)' => i \in 1..Len(toBg) /\ PcSets(i, x))
        BY <1>1 DEF PcSends, PcSets, PcAdded
    <2>3. /\ popup.sending # x
          /\ popup'.sending = x => popup'.pc = "clearing" /\ popup.ctx = x /\ popup'.ctx = NoContext
        BY <2>0 DEF PcGiven, PcSending
    <2>2. PcOut(x)' => PcOut(x)
        BY <2>1, <2>3 DEF PcOut
    <2>8. PcOut(x) => popup.ctx # x
        BY <2>0 DEF PcGiven, PcGone, PcShown
    <2>9. \A i \in 1..Len(toBg) : PcSets(i, x) => popup.ctx # x
        BY <2>0 DEF PcGiven, PcSetOnce
    <2>4. PcGone(x)'
        BY <1>5, <2>0, <2>1, <2>2 DEF PcGiven, PcGone
    <2>5. PcSendOnce(x)'
        <3>1. \A i \in 1..Len(toBg) : PcSends(i, x) => popup'.sending # x
            BY <2>3, <2>8 DEF PcOut
        <3>. QED  BY <2>0, <2>1, <3>1 DEF PcGiven, PcSendOnce
    <2>6. PcSetOnce(x)'
        BY <1>5, <2>0, <2>1, <2>3, <2>9 DEF PcGiven, PcSetOnce
    <2>7. PcSending(x)'
        BY <2>3 DEF PcSending
    <2>10. PcClearing(x)'
        <3>1. popup'.sending = x => x \notin sent
            BY <2>3, <2>8 DEF PcOut
        <3>. QED  BY <1>2, <3>1 DEF PcClearing, PcDone, PcReply
    <2>. QED  BY <2>4, <2>5, <2>6, <2>7, <2>10 DEF PcGiven
<1>. QED  BY <1>t, <1>w, <1>m, <1>c, <1>k, <1>g DEF PcInv

\* popup.tsx: the listener of the popup.
LEMMA PcListens ==
    ASSUME PcInv, Pending!Listen
    PROVE  PcInv'
<1>. USE PendingAssumption
<1>1. /\ toPopup # <<>> /\ popup.pc # "closed" /\ toPopup' = Tail(toPopup)
      /\ toPopup' \in Seq(PcNews) /\ PcTook(toPopup, toPopup') /\ toPopup[1] = Head(toPopup)
      /\ toPopup[1] \in PcNews /\ toPopup[1].t \in {"pendingContext", "statusChanged"}
      /\ 1 \in 1..Len(toPopup)
    <2>1. toPopup # <<>> /\ popup.pc # "closed" /\ toPopup' = Tail(toPopup) /\ Head(toPopup).t \in {"pendingContext", "statusChanged"}
        BY DEF Pending!Listen
    <2>2. toPopup' \in Seq(PcNews) /\ PcTook(toPopup, toPopup') /\ toPopup[1] = Head(toPopup) /\ toPopup[1] \in PcNews
        BY <2>1, PcTaken DEF PcInv, PcTypes
    <2>. QED  BY <2>1, <2>2 DEF PcTook
<1>2. /\ popup' \in PcPopup /\ popup'.pc = popup.pc /\ popup'.sending = popup.sending
      /\ popup'.ctx = IF toPopup[1].t = "pendingContext" THEN toPopup[1].ctx ELSE popup.ctx
      /\ UNCHANGED <<mem, store, calls, link, working, last, sent, raced, toBg, captured, opens, restarts>>
    <2>1. popup \in PcPopup
        BY DEF PcInv, PcTypes
    <2>2. CASE toPopup[1].t = "pendingContext"
        <3>1. popup' = [popup EXCEPT !.ctx = toPopup[1].ctx]
            BY <1>1, <2>2 DEF Pending!Listen
        <3>. QED  BY <1>1, <2>1, <2>2, <3>1 DEF Pending!Listen, Pending!bgVars, Pending!bounds, PcPopup, PcNews
    <2>3. CASE toPopup[1].t # "pendingContext"
        <3>1. popup' = [popup EXCEPT !.canChat = toPopup[1].canChat, !.working = FALSE]
            BY <1>1, <2>3 DEF Pending!Listen
        <3>2. toPopup[1].canChat \in BOOLEAN
            BY <1>1 DEF PcNews
        <3>3. popup' \in PcPopup /\ popup'.pc = popup.pc /\ popup'.sending = popup.sending /\ popup'.ctx = popup.ctx
            BY <2>1, <3>1, <3>2 DEF PcPopup
        <3>. QED  BY <2>3, <3>3 DEF Pending!Listen, Pending!bgVars, Pending!bounds
    <2>. QED  BY <2>2, <2>3
<1>3. \A i \in 1..Len(toPopup') : i + 1 \in 1..Len(toPopup) /\ toPopup'[i] = toPopup[i + 1]
    BY <1>1 DEF PcTook
<1>t. PcTypes'
    BY <1>1, <1>2 DEF PcInv, PcTypes
<1>w. PcWaits'
    <2>1. \A i \in 1..Len(toPopup') : PcReply(i)' = PcReply(i + 1)
        BY <1>3 DEF PcReply
    <2>2. /\ \A i \in 1..Len(toBg) : toBg[i].from <= opens
          /\ \A i \in 1..Len(toBg) : toBg[i].t \in {"set", "send"} \/ toBg[i].ctx = NoContext
          /\ \A i \in 1..Len(calls) : calls[i].from <= opens
          /\ opens > 0
          /\ \A i \in 1..Len(toBg) : PcMine(i) =>
                /\ toBg[i].t \in PcAsked(popup.pc)
                /\ \A j \in 1..Len(toBg) : PcMine(j) => i = j
                /\ \A j \in 1..Len(calls) : ~PcDone(j)
                /\ \A j \in 1..Len(toPopup) : ~PcReply(j)
          /\ \A i \in 1..Len(calls) : PcDone(i) =>
                /\ calls[i].op \in PcDoing(popup.pc)
                /\ \A j \in 1..Len(calls) : PcDone(j) => i = j
                /\ \A j \in 1..Len(toPopup) : ~PcReply(j)
        BY <1>1 DEF PcInv, PcWaits
    <2>3. \A i \in 1..Len(toPopup') : PcReply(i)' => toPopup'[i].t \in PcReplies(popup.pc)
                                                     /\ \A j \in 1..Len(toPopup') : PcReply(j)' => i = j
        <3>. SUFFICES ASSUME NEW i \in 1..Len(toPopup'), PcReply(i)'
                      PROVE  toPopup'[i].t \in PcReplies(popup.pc) /\ \A j \in 1..Len(toPopup') : PcReply(j)' => i = j
            OBVIOUS
        <3>1. toPopup[i + 1].t \in PcReplies(popup.pc) /\ \A j \in 1..Len(toPopup) : PcReply(j) => i + 1 = j
            BY <1>1, <1>3, <2>1 DEF PcInv, PcWaits
        <3>2. \A j \in 1..Len(toPopup') : PcReply(j)' => i + 1 = j + 1
            BY <1>3, <2>1, <3>1
        <3>. QED  BY <1>3, <3>1, <3>2
    <2>4. \A i : PcMine(i)' = PcMine(i) /\ PcDone(i)' = PcDone(i)
        BY <1>2 DEF PcMine, PcDone
    <2>5. \A j \in 1..Len(toPopup') : PcReply(j)' => j + 1 \in 1..Len(toPopup) /\ PcReply(j + 1)
        BY <1>3, <2>1
    <2>6. (\A j \in 1..Len(toPopup) : ~PcReply(j)) => \A j \in 1..Len(toPopup') : ~PcReply(j)'
        BY ONLY <2>5
    <2>. QED  BY ONLY <1>1, <1>2, <2>2, <2>3, <2>4, <2>6 DEF PcWaits
<1>m. PcWorker'
    BY <1>2 DEF PcInv, PcWorker
<1>c. PcChip'
    <2>. SUFFICES ASSUME ~raced, popup.pc # "closed",
                         \A i \in 1..Len(toBg) : toBg[i].t \notin {"set", "clear"},
                         \A i \in 1..Len(calls) : calls[i].op = "load"
                  PROVE  \E i \in 0..Len(toPopup') :
                            /\ i = 0 => popup'.pc = "init" \/ popup'.ctx = last
                            /\ i # 0 => PcTells(i)' /\ toPopup'[i].ctx = last
                            /\ \A j \in 1..Len(toPopup') : j > i => ~PcTells(j)'
        BY <1>2 DEF PcChip
    <2>1. PICK i \in 0..Len(toPopup) :
             /\ i = 0 => popup.pc = "init" \/ popup.ctx = last
             /\ i # 0 => PcTells(i) /\ toPopup[i].ctx = last
             /\ \A j \in 1..Len(toPopup) : j > i => ~PcTells(j)
        BY DEF PcInv, PcChip
    <2>2. \A j \in 1..Len(toPopup') : PcTells(j)' => j + 1 \in 1..Len(toPopup) /\ PcTells(j + 1)
        BY <1>3 DEF PcTells
    <2>3. CASE i = 0
        <3>1. toPopup[1].t # "pendingContext"
            BY <1>1, <2>1, <2>3 DEF PcTells
        <3>2. popup'.pc = "init" \/ popup'.ctx = last
            BY <1>2, <2>1, <2>3, <3>1
        <3>3. \A j \in 1..Len(toPopup') : ~PcTells(j)'
            BY <2>1, <2>2, <2>3
        <3>4. 0 \in 0..Len(toPopup')
            BY <1>1 DEF PcTook
        <3>. QED  BY <3>2, <3>3, <3>4
    <2>4. CASE i = 1
        <3>1. toPopup[1].t = "pendingContext" /\ toPopup[1].ctx = last
            BY <1>1, <2>1, <2>4 DEF PcTells
        <3>3. \A j \in 1..Len(toPopup') : ~PcTells(j)'
            BY <2>1, <2>2, <2>4
        <3>4. 0 \in 0..Len(toPopup')
            BY <1>1 DEF PcTook
        <3>. QED  BY <1>2, <3>1, <3>3, <3>4
    <2>5. CASE i > 1
        <3>1. i - 1 \in 0..Len(toPopup') /\ i - 1 # 0 /\ i - 1 \in 1..Len(toPopup')
            BY <1>1, <2>1, <2>5 DEF PcTook
        <3>2. PcTells(i) /\ toPopup'[i - 1] = toPopup[i] /\ toPopup[i].ctx = last
            BY <1>1, <2>1, <2>5 DEF PcTook
        <3>3. \A j \in 1..Len(toPopup') : j > i - 1 => ~PcTells(j)'
            BY <2>1, <2>2
        <3>. QED  BY <3>1, <3>2, <3>3 DEF PcTells
    <2>. QED  BY <2>1, <2>3, <2>4, <2>5
<1>5. ASSUME NEW x \in Contexts
      PROVE  /\ PcHeld(x)' = PcHeld(x) /\ (PcShown(x)' => PcShown(x))
             /\ popup'.ctx = x => popup.ctx = x \/ toPopup[1].ctx = x
    <2>1. PcHeld(x)' = PcHeld(x)
        BY <1>2 DEF PcHeld
    <2>. QED  BY <1>1, <1>2, <1>3, <2>1 DEF PcShown
<1>k. PcKnown'
    BY <1>2, <1>5 DEF PcInv, PcKnown
<1>g. ASSUME NEW x \in Contexts, ~raced'
      PROVE  PcGiven(x)'
    <2>0. PcGiven(x)
        BY <1>2, <1>g DEF PcInv
    <2>4. PcGone(x)'
        BY <1>2, <1>5, <2>0 DEF PcGiven, PcGone, PcOut, PcSends, PcSets
    <2>5. PcSendOnce(x)'
        BY <1>2, <2>0 DEF PcGiven, PcSendOnce, PcSends, PcMine
    <2>6. PcSetOnce(x)'
        BY <1>1, <1>2, <1>3, <1>5, <2>0 DEF PcGiven, PcSetOnce, PcSets, PcMine
    <2>7. PcSending(x)'
        BY <1>2, <1>3, <2>0 DEF PcGiven, PcSending, PcMine
    <2>8. PcClearing(x)'
        <3>. SUFFICES ASSUME popup.pc = "clearing", popup.sending = x
                      PROVE  PcClearing(x)'
            BY <1>2 DEF PcClearing
        <3>1. /\ x \notin sent
              /\ \A i \in 1..Len(calls) : PcDone(i) => x \notin {mem, last} /\ \A j \in 1..Len(calls) : calls[j].ctx = x => j < i
            BY <2>0 DEF PcGiven, PcClearing
        <3>3. \A i \in 1..Len(toPopup') : PcReply(i)' =>
                 /\ ~PcHeld(x)
                 /\ \E j \in 0..i - 1 :
                       /\ j = 0 => popup'.ctx # x
                       /\ j # 0 => toPopup'[j].t = "pendingContext" /\ toPopup'[j].ctx # x
                       /\ \A l \in 1..Len(toPopup') : l > j => toPopup'[l].ctx # x
            <4>. SUFFICES ASSUME NEW i \in 1..Len(toPopup'), PcReply(i)'
                          PROVE  /\ ~PcHeld(x)
                                 /\ \E j \in 0..i - 1 :
                                       /\ j = 0 => popup'.ctx # x
                                       /\ j # 0 => toPopup'[j].t = "pendingContext" /\ toPopup'[j].ctx # x
                                       /\ \A l \in 1..Len(toPopup') : l > j => toPopup'[l].ctx # x
                OBVIOUS
            <4>1. i + 1 \in 1..Len(toPopup) /\ PcReply(i + 1)
                BY <1>3 DEF PcReply
            <4>2. ~PcHeld(x)
                BY <2>0, <4>1 DEF PcGiven, PcClearing
            <4>3. PICK j \in 0..(i + 1) - 1 :
                     /\ j = 0 => popup.ctx # x
                     /\ j # 0 => toPopup[j].t = "pendingContext" /\ toPopup[j].ctx # x
                     /\ \A l \in 1..Len(toPopup) : l > j => toPopup[l].ctx # x
                BY <2>0, <4>1 DEF PcGiven, PcClearing
            <4>4. \A l \in 1..Len(toPopup') : l > j - 1 => toPopup'[l].ctx # x
                BY ONLY <1>3, <4>3
            <4>5. CASE j \in {0, 1}
                <5>1. toPopup[1].t = "pendingContext" => toPopup[1].ctx # x
                    BY <1>1, <4>3, <4>5
                <5>2. popup'.ctx # x
                    BY <1>1, <1>2, <4>3, <4>5, <5>1
                <5>3. \A l \in 1..Len(toPopup') : l > 0 => toPopup'[l].ctx # x
                    BY ONLY <4>4, <4>5
                <5>4. 0 \in 0..i - 1
                    BY <4>1
                <5>. QED  BY ONLY <4>2, <5>2, <5>3, <5>4
            <4>6. CASE j \notin {0, 1}
                <5>1. j - 1 \in 0..i - 1 /\ j - 1 # 0 /\ j \in 1..Len(toPopup)
                    BY <1>3, <4>3, <4>6
                <5>2. toPopup'[j - 1].t = "pendingContext" /\ toPopup'[j - 1].ctx # x
                    BY <1>1, <4>3, <4>6, <5>1 DEF PcTook
                <5>. QED  BY <4>2, <4>4, <5>1, <5>2
            <4>. QED  BY <4>5, <4>6
        <3>. QED  BY <1>2, <1>5, <3>1, <3>3 DEF PcClearing, PcDone
    <2>. QED  BY <2>4, <2>5, <2>6, <2>7, <2>8 DEF PcGiven
<1>. QED  BY <1>2, <1>t, <1>w, <1>m, <1>c, <1>k, <1>g DEF PcInv

\* popup.tsx: a reply is the only thing in flight that the popup waited for.
LEMMA PcReplyComes ==
    ASSUME PcInv, popup.pc # "closed", Pending!Reply, toPopup' = Tail(toPopup)
    PROVE  /\ toPopup[1] = Head(toPopup) /\ toPopup[1] \in PcNews /\ 1 \in 1..Len(toPopup)
           /\ toPopup' \in Seq(PcNews) /\ PcTook(toPopup, toPopup')
           /\ PcReply(1) /\ toPopup[1].t \in PcReplies(popup.pc)
           /\ opens > 0 /\ opens \in Nat
           /\ \A i \in 1..Len(toBg) : ~PcMine(i)
           /\ \A i \in 1..Len(calls) : ~PcDone(i)
           /\ \A i \in 1..Len(toPopup) : i # 1 => ~PcReply(i)
           /\ \A i \in 1..Len(toPopup') :
                 i + 1 \in 1..Len(toPopup) /\ toPopup'[i] = toPopup[i + 1] /\ ~PcReply(i)'
<1>1. toPopup' \in Seq(PcNews) /\ PcTook(toPopup, toPopup') /\ toPopup[1] = Head(toPopup) /\ toPopup[1] \in PcNews
    BY PcTaken DEF PcInv, PcTypes, Pending!Reply
<1>2. 1 \in 1..Len(toPopup) /\ PcReply(1)
    BY <1>1 DEF PcTook, PcReply, Pending!Reply
<1>3. /\ toPopup[1].t \in PcReplies(popup.pc) /\ opens > 0
      /\ \A i \in 1..Len(toPopup) : i # 1 => ~PcReply(i)
    BY <1>2 DEF PcInv, PcWaits
<1>4. (\A i \in 1..Len(toBg) : ~PcMine(i)) /\ \A i \in 1..Len(calls) : ~PcDone(i)
    BY <1>2 DEF PcInv, PcWaits
<1>5. \A i \in 1..Len(toPopup') : i + 1 \in 1..Len(toPopup) /\ toPopup'[i] = toPopup[i + 1] /\ i + 1 # 1
    BY <1>1 DEF PcTook
<1>6. \A i \in 1..Len(toPopup') : ~PcReply(i)'
    BY <1>3, <1>5 DEF PcReply
<1>. QED  BY <1>1, <1>2, <1>3, <1>4, <1>5, <1>6 DEF PcInv, PcTypes

\* popup.tsx: the popup has its reply, and goes on: it may ask again.
LEMMA PcGoesOn ==
    ASSUME PcInv, popup.pc # "closed", Pending!Reply, toPopup' = Tail(toPopup), NEW q \in PcAsk,
           \/ toBg' = toBg
           \/ toBg' = Append(toBg, q) /\ q.from = opens /\ q.t \in PcAsked(popup'.pc),
           q.t \in {"set", "send"} \/ q.ctx = NoContext,
           q.ctx \in {NoContext, popup.sending},
           popup' \in PcPopup, popup'.pc \notin {"closed", "init"},
           popup'.ctx \in {popup.ctx, popup.sending, toPopup[1].ctx},
           popup'.sending \in {popup.sending, NoContext},
           \/ toPopup[1].t # "status" /\ popup'.ctx = popup.ctx /\ popup.pc # "init"
           \/ toPopup[1].t = "status" /\ popup'.ctx = toPopup[1].ctx
           \/ toBg' = Append(toBg, q) /\ q.t = "set",
           UNCHANGED <<mem, store, calls, link, working, last, sent, raced, captured, opens, restarts>>
    PROVE  /\ PcTypes' /\ PcWaits' /\ PcWorker' /\ PcChip' /\ PcKnown'
           /\ \A i \in 1..Len(toBg') :
                 \/ i \in 1..Len(toBg) /\ toBg'[i] = toBg[i]
                 \/ toBg' = Append(toBg, q) /\ i = Len(toBg) + 1 /\ toBg'[i] = q
           /\ Len(toBg) \in Nat
<1>. USE PendingAssumption
<1>1. /\ toPopup[1] = Head(toPopup) /\ toPopup[1] \in PcNews /\ 1 \in 1..Len(toPopup)
      /\ toPopup' \in Seq(PcNews) /\ PcTook(toPopup, toPopup')
      /\ PcReply(1)
      /\ opens > 0 /\ opens \in Nat
      /\ \A i \in 1..Len(toBg) : ~PcMine(i)
      /\ \A i \in 1..Len(calls) : ~PcDone(i)
      /\ \A i \in 1..Len(toPopup') :
            i + 1 \in 1..Len(toPopup) /\ toPopup'[i] = toPopup[i + 1] /\ ~PcReply(i)'
    BY PcReplyComes
<1>2. toBg' \in Seq(PcAsk) /\ (toBg' = toBg \/ PcAdded(toBg, toBg', q))
    <2>1. toBg \in Seq(PcAsk)
        BY DEF PcInv, PcTypes
    <2>2. Append(toBg, q) \in Seq(PcAsk) /\ PcAdded(toBg, Append(toBg, q), q)
        BY <2>1, PcPut
    <2>3. CASE toBg' = toBg
        BY <2>1, <2>3
    <2>4. CASE toBg' = Append(toBg, q)
        BY <2>2, <2>4
    <2>. QED  BY <2>3, <2>4
<1>3. Len(toBg) \in Nat /\ \A i \in 1..Len(toBg') :
        \/ i \in 1..Len(toBg) /\ toBg'[i] = toBg[i]
        \/ toBg' = Append(toBg, q) /\ i = Len(toBg) + 1 /\ toBg'[i] = q
    <2>1. Len(toBg) \in Nat
        BY DEF PcInv, PcTypes
    <2>2. CASE toBg' = toBg
        BY <2>1, <2>2
    <2>3. CASE toBg' = Append(toBg, q) /\ PcAdded(toBg, toBg', q)
        BY <2>1, <2>3 DEF PcAdded
    <2>. QED  BY <1>2, <2>1, <2>2, <2>3
<1>t. PcTypes'
    BY <1>1, <1>2 DEF PcInv, PcTypes
<1>w. PcWaits'
    <2>1. /\ \A i \in 1..Len(toBg) : toBg[i].from <= opens
          /\ \A i \in 1..Len(toBg) : toBg[i].t \in {"set", "send"} \/ toBg[i].ctx = NoContext
          /\ \A i \in 1..Len(calls) : calls[i].from <= opens
        BY DEF PcInv, PcWaits
    <2>2. CASE toBg' = toBg
        BY <1>1, <2>1, <2>2 DEF PcWaits, PcMine, PcDone
    <2>3. CASE toBg' = Append(toBg, q) /\ q.from = opens /\ q.t \in PcAsked(popup'.pc)
        <3>1. /\ \A i \in 1..Len(toBg') : toBg'[i].from <= opens
              /\ \A i \in 1..Len(toBg') : toBg'[i].t \in {"set", "send"} \/ toBg'[i].ctx = NoContext
            BY <1>1, <1>3, <2>1, <2>3
        <3>2. \A i \in 1..Len(toBg') : PcMine(i)' => i = Len(toBg) + 1 /\ toBg'[i].t \in PcAsked(popup'.pc)
            BY <1>1, <1>3, <2>3 DEF PcMine
        <3>. QED  BY <1>1, <2>1, <3>1, <3>2 DEF PcWaits, PcDone
    <2>. QED  BY <2>2, <2>3
<1>m. PcWorker'
    BY DEF PcInv, PcWorker
<1>c. PcChip'
    <2>1. CASE toBg' = Append(toBg, q) /\ q.t = "set"
        <3>1. Len(toBg) + 1 \in 1..Len(toBg') /\ toBg'[Len(toBg) + 1].t = "set"
            <4>1. toBg \in Seq(PcAsk)
                BY DEF PcInv, PcTypes
            <4>2. PcAdded(toBg, Append(toBg, q), q)
                BY <4>1, PcPut
            <4>. QED  BY <2>1, <4>2 DEF PcAdded
        <3>. QED  BY <3>1 DEF PcChip
    <2>2. CASE \/ toPopup[1].t # "status" /\ popup'.ctx = popup.ctx /\ popup.pc # "init"
               \/ toPopup[1].t = "status" /\ popup'.ctx = toPopup[1].ctx
        <3>. SUFFICES ASSUME ~raced,
                         \A i \in 1..Len(toBg') : toBg'[i].t \notin {"set", "clear"},
                         \A i \in 1..Len(calls) : calls[i].op = "load"
                      PROVE  \E i \in 0..Len(toPopup') :
                                /\ i = 0 => popup'.pc = "init" \/ popup'.ctx = last
                                /\ i # 0 => PcTells(i)' /\ toPopup'[i].ctx = last
                                /\ \A j \in 1..Len(toPopup') : j > i => ~PcTells(j)'
            BY DEF PcChip
        <3>0. \A i \in 1..Len(toBg) : toBg[i].t \notin {"set", "clear"}
            BY <1>2 DEF PcAdded
        <3>1. PICK i \in 0..Len(toPopup) :
                 /\ i = 0 => popup.pc = "init" \/ popup.ctx = last
                 /\ i # 0 => PcTells(i) /\ toPopup[i].ctx = last
                 /\ \A j \in 1..Len(toPopup) : j > i => ~PcTells(j)
            BY <3>0 DEF PcInv, PcChip
        <3>2. \A j \in 1..Len(toPopup') : PcTells(j)' => j + 1 \in 1..Len(toPopup) /\ PcTells(j + 1)
            BY <1>1 DEF PcTells
        <3>3. CASE i \in {0, 1}
            <4>1. toPopup[1].t = "status" => i = 1
                BY <1>1, <3>1, <3>3 DEF PcTells
            <4>2. i = 1 => toPopup[1].t = "status" /\ toPopup[1].ctx = last
                BY <1>1, <3>1 DEF PcTells, PcReply
            <4>3. popup'.ctx = last
                BY <2>2, <3>1, <3>3, <4>1, <4>2
            <4>4. \A j \in 1..Len(toPopup') : ~PcTells(j)'
                BY <3>1, <3>2, <3>3
            <4>5. 0 \in 0..Len(toPopup')
                BY <1>1 DEF PcTook
            <4>. QED  BY <4>3, <4>4, <4>5
        <3>5. CASE i > 1
            <4>1. i - 1 \in 0..Len(toPopup') /\ i - 1 # 0 /\ i - 1 \in 1..Len(toPopup')
                BY <1>1, <3>1, <3>5 DEF PcTook
            <4>2. PcTells(i) /\ toPopup'[i - 1] = toPopup[i] /\ toPopup[i].ctx = last
                BY <1>1, <3>1, <3>5 DEF PcTook
            <4>3. \A j \in 1..Len(toPopup') : j > i - 1 => ~PcTells(j)'
                BY ONLY <3>1, <3>2
            <4>4. PcTells(i - 1)' /\ toPopup'[i - 1].ctx = last
                BY <4>2 DEF PcTells
            <4>5. PICK k \in 0..Len(toPopup') :
                    /\ k # 0 /\ PcTells(k)' /\ toPopup'[k].ctx = last
                    /\ \A j \in 1..Len(toPopup') : j > k => ~PcTells(j)'
                BY ONLY <4>1, <4>3, <4>4, Zenon
            <4>. QED  BY ONLY <4>5
        <3>6. i \in {0, 1} \/ i > 1
            BY ONLY <3>1
        <3>. QED  BY ONLY <3>3, <3>5, <3>6
    <2>. QED  BY <2>1, <2>2
<1>k. PcKnown'
    <2>. SUFFICES ASSUME NEW x \in Contexts \ captured
                  PROVE  ~PcHeld(x)' /\ ~PcShown(x)' /\ x # popup'.sending
                         /\ \A i \in 1..Len(toBg') : toBg'[i].ctx # x
        BY DEF PcKnown
    <2>1. ~PcHeld(x) /\ ~PcShown(x) /\ x # popup.sending /\ \A i \in 1..Len(toBg) : toBg[i].ctx # x
        BY DEF PcInv, PcKnown
    <2>2. ~PcHeld(x)'
        BY <2>1 DEF PcHeld
    <2>3. popup'.ctx # x /\ popup'.sending # x
        BY <1>1, <2>1 DEF PcShown
    <2>4. \A i \in 1..Len(toPopup') : toPopup'[i].ctx # x
        BY <1>1, <2>1 DEF PcShown
    <2>5. \A i \in 1..Len(toBg') : toBg'[i].ctx # x
        BY <1>3, <2>1
    <2>. QED  BY <2>2, <2>3, <2>4, <2>5 DEF PcShown
<1>. QED  BY <1>3, <1>t, <1>w, <1>m, <1>c, <1>k

\* popup.tsx: replies after which no context is on its way to the agent or back.
LEMMA PcMovesOn ==
    ASSUME PcInv, popup.pc # "closed", Pending!Reply, toPopup' = Tail(toPopup), NEW q \in PcAsk,
           \/ toBg' = toBg
           \/ toBg' = Append(toBg, q) /\ q.from = opens /\ q.t \in PcAsked(popup'.pc),
           q.ctx = NoContext,
           popup' \in PcPopup, popup'.pc \notin {"closed", "init"},
           \/ toPopup[1].t # "status" /\ popup'.ctx = popup.ctx /\ popup.pc # "init"
           \/ toPopup[1].t = "status" /\ popup'.ctx = toPopup[1].ctx,
           \/ popup'.sending = popup.sending /\ popup.pc \notin {"clearing", "sending"}
           \/ popup'.sending = NoContext,
           UNCHANGED <<mem, store, calls, link, working, last, sent, raced, captured, opens, restarts>>
    PROVE  PcInv'
<1>. USE PendingAssumption
<1>1. /\ 1 \in 1..Len(toPopup)
      /\ \A i \in 1..Len(toBg) : ~PcMine(i)
      /\ \A i \in 1..Len(toPopup') : i + 1 \in 1..Len(toPopup) /\ toPopup'[i] = toPopup[i + 1]
    BY PcReplyComes
<1>2. /\ PcTypes' /\ PcWaits' /\ PcWorker' /\ PcChip' /\ PcKnown'
      /\ \A i \in 1..Len(toBg') :
            \/ i \in 1..Len(toBg) /\ toBg'[i] = toBg[i]
            \/ toBg' = Append(toBg, q) /\ i = Len(toBg) + 1 /\ toBg'[i] = q
      /\ Len(toBg) \in Nat
    BY PcGoesOn
<1>g. ASSUME NEW x \in Contexts, ~raced'
      PROVE  PcGiven(x)'
    <2>0. PcGiven(x)
        BY <1>g DEF PcInv
    <2>1. \A i \in 1..Len(toBg') : (PcSends(i, x)' => i \in 1..Len(toBg) /\ PcSends(i, x)) /\ (PcSets(i, x)' => i \in 1..Len(toBg) /\ PcSets(i, x))
        BY <1>2 DEF PcSends, PcSets
    <2>2. popup'.sending # x
        BY <2>0 DEF PcGiven, PcSending
    <2>3. PcOut(x)' => PcOut(x)
        BY <2>1, <2>2 DEF PcOut
    <2>9. PcHeld(x)' = PcHeld(x) /\ (PcShown(x)' => PcShown(x))
        BY <1>1 DEF PcHeld, PcShown
    <2>4. PcGone(x)'
        BY <2>0, <2>1, <2>3, <2>9 DEF PcGiven, PcGone
    <2>5. PcSendOnce(x)'
        BY <2>0, <2>1, <2>2 DEF PcGiven, PcSendOnce
    <2>6. PcSetOnce(x)'
        <3>1. \A i \in 1..Len(toBg) : PcSets(i, x) => popup.ctx # x /\ popup.sending # x /\ \A j \in 1..Len(toPopup) : toPopup[j].ctx # x
            BY <1>1, <2>0 DEF PcGiven, PcSetOnce
        <3>2. \A i \in 1..Len(toBg) : PcSets(i, x) => popup'.ctx # x /\ \A j \in 1..Len(toPopup') : toPopup'[j].ctx # x
            BY <1>1, <3>1
        <3>. QED  BY <2>0, <2>1, <2>2, <2>9, <3>2 DEF PcGiven, PcSetOnce
    <2>. QED  BY <2>2, <2>4, <2>5, <2>6 DEF PcGiven, PcSending, PcClearing
<1>. QED  BY <1>2, <1>g DEF PcInv

\* popup.tsx: the status, a connection or its end, and a context given back.
LEMMA PcRepliesPlain ==
    ASSUME PcInv, Pending!StatusReply \/ Pending!ConnectReply \/ Pending!RestoreReply
    PROVE  PcInv'
<1>. USE PendingAssumption
<1>1. /\ popup.pc \in {"init", "connecting", "restoring"} /\ Pending!Reply /\ toPopup' = Tail(toPopup)
      /\ UNCHANGED <<mem, store, calls, link, working, last, sent, raced, captured, opens, restarts>>
    BY DEF Pending!StatusReply, Pending!ConnectReply, Pending!RestoreReply, Pending!bgVars, Pending!bounds
<1>2. /\ toPopup[1] = Head(toPopup) /\ toPopup[1] \in PcNews
      /\ toPopup[1].t \in PcReplies(popup.pc) /\ opens \in Nat
    BY <1>1, PcReplyComes
<1>3. popup \in PcPopup /\ toPopup[1].ctx \in Contexts \cup {NoContext}
      /\ toPopup[1].canChat \in BOOLEAN /\ toPopup[1].working \in BOOLEAN
    BY <1>2 DEF PcInv, PcTypes, PcNews
<1>. DEFINE q == [t |-> "connect", ctx |-> NoContext, from |-> opens]
<1>4. q \in PcAsk /\ q.t = "connect" /\ q.ctx = NoContext /\ q.from = opens
    BY <1>2 DEF PcAsk
<1>5. /\ \A p \in PcPopup : \A b \in BOOLEAN :
            [p EXCEPT !.canChat = b] \in PcPopup /\ [p EXCEPT !.working = b] \in PcPopup
      /\ \A p \in PcPopup : \A s \in {"ready", "connecting"} : [p EXCEPT !.pc = s] \in PcPopup
      /\ \A p \in PcPopup : \A c \in Contexts \cup {NoContext} : [p EXCEPT !.ctx = c] \in PcPopup
    BY DEF PcPopup
<1>. DEFINE a == [[popup EXCEPT !.canChat = toPopup[1].canChat] EXCEPT !.working = toPopup[1].working]
<1>6. /\ a \in PcPopup /\ a.pc = popup.pc /\ a.ctx = popup.ctx /\ a.sending = popup.sending
      /\ Pending!Apply(popup) = a
    <2>1. a \in PcPopup
        BY <1>3, <1>5
    <2>2. a.pc = popup.pc /\ a.ctx = popup.ctx /\ a.sending = popup.sending
        BY <1>3 DEF PcPopup
    <2>3. Pending!Apply(popup) = a
        BY <1>2, <1>3 DEF Pending!Apply, PcPopup
    <2>. QED  BY <2>1, <2>2, <2>3
<1>. HIDE DEF a, q
<1>7. CASE Pending!StatusReply
    <2>. DEFINE known == [a EXCEPT !.ctx = toPopup[1].ctx]
    <2>1. popup.pc = "init" /\ toPopup[1].t = "status"
        BY <1>2, <1>7 DEF Pending!StatusReply, PcReplies
    <2>2. known \in PcPopup /\ known.ctx = toPopup[1].ctx /\ known.sending = popup.sending
        BY <1>3, <1>5, <1>6 DEF PcPopup
    <2>3. \/ popup' = [known EXCEPT !.pc = "ready"] /\ toBg' = toBg
          \/ popup' = [known EXCEPT !.pc = "connecting"] /\ toBg' = Append(toBg, q)
        BY <1>2, <1>6, <1>7, <2>1 DEF Pending!StatusReply, Pending!Post, Pending!Msg, q
    <2>. HIDE DEF known
    <2>4. /\ popup' \in PcPopup /\ popup'.ctx = toPopup[1].ctx /\ popup'.sending = popup.sending
          /\ popup'.pc \in {"ready", "connecting"} /\ (toBg' # toBg => popup'.pc = "connecting")
          /\ toBg' = toBg \/ toBg' = Append(toBg, q)
        BY <1>5, <2>2, <2>3 DEF PcPopup
    <2>5. toBg' = toBg \/ (toBg' = Append(toBg, q) /\ q.from = opens /\ q.t \in PcAsked(popup'.pc))
        BY <1>4, <2>4 DEF PcAsked
    <2>. QED  BY <1>1, <1>4, <2>1, <2>4, <2>5, PcMovesOn
<1>8. CASE Pending!ConnectReply
    <2>1. popup.pc = "connecting" /\ toPopup[1].t # "status" /\ toBg' = toBg
        BY <1>2, <1>8 DEF Pending!ConnectReply, PcReplies
    <2>2. popup' = [a EXCEPT !.pc = "ready"]
        BY <1>6, <1>8 DEF Pending!ConnectReply
    <2>3. /\ popup' \in PcPopup /\ popup'.ctx = popup.ctx /\ popup'.sending = popup.sending /\ popup'.pc = "ready"
        BY <1>5, <1>6, <2>2 DEF PcPopup
    <2>. QED  BY <1>1, <1>4, <2>1, <2>3, PcMovesOn
<1>9. CASE Pending!RestoreReply
    <2>1. popup.pc = "restoring" /\ toPopup[1].t # "status" /\ toBg' = toBg
        BY <1>2, <1>9 DEF Pending!RestoreReply, PcReplies
    <2>2. popup' = [popup EXCEPT !.pc = "ready"]
        BY <1>9 DEF Pending!RestoreReply
    <2>3. /\ popup' \in PcPopup /\ popup'.ctx = popup.ctx /\ popup'.sending = popup.sending /\ popup'.pc = "ready"
        BY <1>3, <1>5, <2>2 DEF PcPopup
    <2>. QED  BY <1>1, <1>4, <2>1, <2>3, PcMovesOn
<1>. QED  BY <1>7, <1>8, <1>9

\* popup.tsx: the context is cleared, and now it is sent.
LEMMA PcClears ==
    ASSUME PcInv, Pending!ClearReply
    PROVE  PcInv'
<1>. USE PendingAssumption
<1>. DEFINE q == [t |-> "send", ctx |-> popup.sending, from |-> opens]
<1>1. /\ popup.pc = "clearing" /\ Pending!Reply /\ toPopup' = Tail(toPopup)
      /\ popup' = [popup EXCEPT !.pc = "sending"] /\ toBg' = Append(toBg, q)
      /\ UNCHANGED <<mem, store, calls, link, working, last, sent, raced, captured, opens, restarts>>
    BY DEF Pending!ClearReply, Pending!bgVars, Pending!bounds, Pending!Post, Pending!Msg
<1>2. /\ 1 \in 1..Len(toPopup) /\ PcReply(1) /\ toPopup[1].t \in PcReplies(popup.pc) /\ opens \in Nat
      /\ \A i \in 1..Len(toBg) : ~PcMine(i)
      /\ \A i \in 1..Len(toPopup') : i + 1 \in 1..Len(toPopup) /\ toPopup'[i] = toPopup[i + 1] /\ ~PcReply(i)'
    BY <1>1, PcReplyComes
<1>3. popup \in PcPopup /\ popup.sending \in Contexts \cup {NoContext}
    BY DEF PcInv, PcTypes, PcPopup
<1>4. q \in PcAsk /\ q.t = "send" /\ q.ctx = popup.sending /\ q.from = opens
    BY <1>2, <1>3 DEF PcAsk
<1>. HIDE DEF q
<1>5. popup' \in PcPopup /\ popup'.pc = "sending" /\ popup'.ctx = popup.ctx /\ popup'.sending = popup.sending
    BY <1>1, <1>3 DEF PcPopup
<1>6. q.t \in PcAsked(popup'.pc) /\ toPopup[1].t # "status"
    BY <1>1, <1>2, <1>4, <1>5 DEF PcAsked, PcReplies
<1>7. /\ PcTypes' /\ PcWaits' /\ PcWorker' /\ PcChip' /\ PcKnown'
      /\ \A i \in 1..Len(toBg') :
            \/ i \in 1..Len(toBg) /\ toBg'[i] = toBg[i]
            \/ toBg' = Append(toBg, q) /\ i = Len(toBg) + 1 /\ toBg'[i] = q
      /\ Len(toBg) \in Nat
    BY <1>1, <1>4, <1>5, <1>6, PcGoesOn
<1>g. ASSUME NEW x \in Contexts, ~raced'
      PROVE  PcGiven(x)'
    <2>0. PcGiven(x)
        BY <1>1, <1>g DEF PcInv
    <2>1. \A i \in 1..Len(toBg') :
            /\ PcSends(i, x)' => (i \in 1..Len(toBg) /\ PcSends(i, x)) \/ (i = Len(toBg) + 1 /\ popup.sending = x /\ PcMine(i)')
            /\ PcSets(i, x)' => i \in 1..Len(toBg) /\ PcSets(i, x)
        BY <1>1, <1>4, <1>7 DEF PcSends, PcSets, PcMine
    <2>3. PcOut(x)' => PcOut(x) \/ popup.sending = x
        BY <1>1, <1>5, <2>1 DEF PcOut
    <2>9. PcHeld(x)' = PcHeld(x) /\ (PcShown(x)' => PcShown(x))
        BY <1>1, <1>2, <1>5 DEF PcHeld, PcShown
    <2>10. popup.sending = x =>
            /\ x \notin sent /\ ~PcHeld(x) /\ popup.ctx # x
            /\ \A l \in 1..Len(toPopup) : toPopup[l].ctx # x
            /\ \A i \in 1..Len(toBg) : ~PcSends(i, x) /\ ~PcSets(i, x)
        <3>. SUFFICES ASSUME popup.sending = x
                      PROVE  /\ x \notin sent /\ ~PcHeld(x) /\ popup.ctx # x
                             /\ \A l \in 1..Len(toPopup) : toPopup[l].ctx # x
                             /\ \A i \in 1..Len(toBg) : ~PcSends(i, x) /\ ~PcSets(i, x)
            OBVIOUS
        <3>1. x \notin sent /\ ~PcHeld(x)
            BY <1>1, <1>2, <2>0 DEF PcGiven, PcClearing
        <3>2. PICK j \in 0..1 - 1 :
                 /\ j = 0 => popup.ctx # x
                 /\ \A l \in 1..Len(toPopup) : l > j => toPopup[l].ctx # x
            BY <1>1, <1>2, <2>0 DEF PcGiven, PcClearing
        <3>3. popup.ctx # x /\ \A l \in 1..Len(toPopup) : toPopup[l].ctx # x
            BY <3>2
        <3>4. \A i \in 1..Len(toBg) : ~PcSends(i, x) /\ ~PcSets(i, x)
            BY <1>1, <2>0 DEF PcGiven, PcSendOnce, PcSetOnce
        <3>. QED  BY <3>1, <3>3, <3>4
    <2>11. popup.sending = x => ~PcShown(x)
        BY <2>10 DEF PcShown
    <2>4. PcGone(x)'
        <3>1. CASE popup.sending = x
            BY <2>1, <2>9, <2>10, <2>11, <3>1 DEF PcGone
        <3>2. CASE popup.sending # x
            BY <2>0, <2>1, <2>3, <2>9, <3>2 DEF PcGiven, PcGone
        <3>. QED  BY <3>1, <3>2
    <2>5. PcSendOnce(x)'
        <3>1. CASE popup.sending = x
            <4>1. \A i \in 1..Len(toBg') : PcSends(i, x)' => i = Len(toBg) + 1 /\ PcMine(i)'
                BY <2>1, <2>10, <3>1
            <4>. QED  BY <1>1, <1>5, <2>10, <3>1, <4>1 DEF PcSendOnce
        <3>2. CASE popup.sending # x
            <4>1. \A i \in 1..Len(toBg') : PcSends(i, x)' => i \in 1..Len(toBg) /\ PcSends(i, x)
                BY <2>1, <3>2
            <4>. QED  BY <1>1, <1>5, <2>0, <3>2, <4>1 DEF PcGiven, PcSendOnce
        <3>. QED  BY <3>1, <3>2
    <2>6. PcSetOnce(x)'
        <3>1. \A i \in 1..Len(toBg) : PcSets(i, x) => popup.ctx # x /\ popup.sending # x /\ \A j \in 1..Len(toPopup) : toPopup[j].ctx # x
            BY <1>2, <2>0 DEF PcGiven, PcSetOnce
        <3>2. \A i \in 1..Len(toBg) : PcSets(i, x) => popup'.ctx # x /\ popup'.sending # x /\ \A j \in 1..Len(toPopup') : toPopup'[j].ctx # x
            BY <1>2, <1>5, <3>1
        <3>. QED  BY <2>0, <2>1, <2>9, <3>2 DEF PcGiven, PcSetOnce
    <2>7. PcSending(x)'
        <3>1. \A i \in 1..Len(toBg') : PcMine(i)' => toBg'[i].ctx = popup.sending
            BY <1>1, <1>2, <1>4, <1>7 DEF PcMine
        <3>2. \A i \in 1..Len(toPopup') : toPopup'[i].t \notin {"disconnected", "refused"}
            BY <1>2 DEF PcReply
        <3>. QED  BY <1>5, <3>1, <3>2 DEF PcSending
    <2>8. PcClearing(x)'
        BY <1>5 DEF PcClearing
    <2>. QED  BY <2>4, <2>5, <2>6, <2>7, <2>8 DEF PcGiven
<1>. QED  BY <1>1, <1>7, <1>g DEF PcInv

\* popup.tsx: the message is answered; only a lost connection gives the context back.
LEMMA PcSendReplies ==
    ASSUME PcInv, Pending!SendReply
    PROVE  PcInv'
<1>. USE PendingAssumption
<1>1. /\ popup.pc = "sending" /\ Pending!Reply /\ toPopup' = Tail(toPopup)
      /\ UNCHANGED <<mem, store, calls, link, working, last, sent, raced, captured, opens, restarts>>
    BY DEF Pending!SendReply, Pending!bgVars, Pending!bounds
<1>2. /\ 1 \in 1..Len(toPopup) /\ PcReply(1) /\ toPopup[1].t \in PcReplies(popup.pc) /\ opens \in Nat
      /\ toPopup[1] = Head(toPopup) /\ toPopup[1] \in PcNews
      /\ \A i \in 1..Len(toBg) : ~PcMine(i)
      /\ \A i \in 1..Len(toPopup') : i + 1 \in 1..Len(toPopup) /\ toPopup'[i] = toPopup[i + 1] /\ ~PcReply(i)'
    BY <1>1, PcReplyComes
<1>3. /\ popup \in PcPopup /\ popup.sending \in Contexts \cup {NoContext}
      /\ popup.canChat \in BOOLEAN /\ toPopup[1].canChat \in BOOLEAN /\ toPopup[1].working \in BOOLEAN
      /\ toPopup[1].t # "status"
    BY <1>1, <1>2 DEF PcInv, PcTypes, PcPopup, PcNews, PcReplies
<1>4. /\ \A p \in PcPopup : \A b \in BOOLEAN :
            [p EXCEPT !.canChat = b] \in PcPopup /\ [p EXCEPT !.working = b] \in PcPopup
      /\ \A p \in PcPopup : \A s \in {"ready", "restoring"} : [p EXCEPT !.pc = s] \in PcPopup
      /\ \A p \in PcPopup : \A c \in Contexts \cup {NoContext} :
            [p EXCEPT !.ctx = c] \in PcPopup /\ [p EXCEPT !.sending = c] \in PcPopup
    BY DEF PcPopup
<1>. DEFINE a == [[popup EXCEPT !.canChat = toPopup[1].canChat] EXCEPT !.working = toPopup[1].working]
<1>5. /\ a \in PcPopup /\ a.pc = popup.pc /\ a.ctx = popup.ctx /\ a.sending = popup.sending
      /\ a.canChat \in BOOLEAN /\ Pending!Apply(popup) = a
    <2>1. a \in PcPopup
        BY <1>3, <1>4
    <2>2. a.pc = popup.pc /\ a.ctx = popup.ctx /\ a.sending = popup.sending /\ a.canChat \in BOOLEAN
        BY <1>3 DEF PcPopup
    <2>3. Pending!Apply(popup) = a
        BY <1>2, <1>3 DEF Pending!Apply, PcPopup
    <2>. QED  BY <2>1, <2>2, <2>3
<1>. HIDE DEF a
<1>6. CASE toPopup[1].t = "disconnected" /\ popup.sending # NoContext
    <2>. DEFINE q == [t |-> "set", ctx |-> popup.sending, from |-> opens]
    <2>1. q \in PcAsk /\ q.t = "set" /\ q.ctx = popup.sending /\ q.from = opens
        BY <1>2, <1>3 DEF PcAsk
    <2>2. toBg' = Append(toBg, q)
        BY <1>2, <1>6 DEF Pending!SendReply, Pending!Post, Pending!Msg
    <2>3. popup' = [[[a EXCEPT !.pc = "restoring"] EXCEPT !.ctx = popup.sending] EXCEPT !.sending = NoContext]
        BY <1>2, <1>5, <1>6 DEF Pending!SendReply, PcPopup
    <2>. HIDE DEF q
    <2>4. popup' \in PcPopup
        BY <1>3, <1>4, <1>5, <2>3
    <2>5. popup'.pc = "restoring" /\ popup'.ctx = popup.sending /\ popup'.sending = NoContext
        BY <1>5, <2>3 DEF PcPopup
    <2>6. q.t \in PcAsked(popup'.pc)
        BY <2>1, <2>5 DEF PcAsked
    <2>7. /\ PcTypes' /\ PcWaits' /\ PcWorker' /\ PcChip' /\ PcKnown'
          /\ \A i \in 1..Len(toBg') :
                \/ i \in 1..Len(toBg) /\ toBg'[i] = toBg[i]
                \/ toBg' = Append(toBg, q) /\ i = Len(toBg) + 1 /\ toBg'[i] = q
          /\ Len(toBg) \in Nat
        BY <1>1, <2>1, <2>2, <2>4, <2>5, <2>6, PcGoesOn
    <2>g. ASSUME NEW x \in Contexts, ~raced'
          PROVE  PcGiven(x)'
        <3>0. PcGiven(x)
            BY <1>1, <2>g DEF PcInv
        <3>1. \A i \in 1..Len(toBg') :
                /\ PcSends(i, x)' => i \in 1..Len(toBg) /\ PcSends(i, x)
                /\ PcSets(i, x)' => (i \in 1..Len(toBg) /\ PcSets(i, x)) \/ (i = Len(toBg) + 1 /\ popup.sending = x /\ PcMine(i)')
            BY <1>1, <2>1, <2>7 DEF PcSends, PcSets, PcMine
        <3>2. popup'.sending # x
            BY <2>5
        <3>9. PcHeld(x)' = PcHeld(x) /\ (PcShown(x)' => PcShown(x) \/ popup.sending = x)
            BY <1>1, <1>2, <2>5 DEF PcHeld, PcShown
        <3>3. PcOut(x)' => PcOut(x)
            BY <1>1, <2>5, <3>1 DEF PcOut
        <3>10. popup.sending = x =>
                /\ ~PcOut(x)' /\ ~PcHeld(x)
                /\ \A l \in 1..Len(toPopup) : toPopup[l].ctx # x
                /\ \A i \in 1..Len(toBg) : ~PcSets(i, x)
            <4>. SUFFICES ASSUME popup.sending = x
                          PROVE  /\ ~PcOut(x)' /\ ~PcHeld(x)
                                 /\ \A l \in 1..Len(toPopup) : toPopup[l].ctx # x
                                 /\ \A i \in 1..Len(toBg) : ~PcSets(i, x)
                OBVIOUS
            <4>1. PcOut(x)
                BY <1>1 DEF PcOut
            <4>2. ~PcHeld(x) /\ ~PcShown(x) /\ \A i \in 1..Len(toBg) : ~PcSets(i, x)
                BY <3>0, <4>1 DEF PcGiven, PcGone
            <4>3. x \notin sent
                BY <1>1, <1>2, <1>6, <3>0 DEF PcGiven, PcSending
            <4>4. \A i \in 1..Len(toBg) : ~PcSends(i, x)
                BY <1>2, <3>0 DEF PcGiven, PcSendOnce
            <4>5. ~PcOut(x)'
                BY <1>1, <2>5, <3>1, <4>3, <4>4 DEF PcOut
            <4>. QED  BY <4>2, <4>5 DEF PcShown
        <3>4. PcGone(x)'
            <4>1. CASE popup.sending = x
                BY <3>10, <4>1 DEF PcGone
            <4>2. CASE popup.sending # x
                BY <3>0, <3>1, <3>3, <3>9, <4>2 DEF PcGiven, PcGone
            <4>. QED  BY <4>1, <4>2
        <3>5. PcSendOnce(x)'
            BY <1>1, <3>0, <3>1, <3>2 DEF PcGiven, PcSendOnce
        <3>6. PcSetOnce(x)'
            <4>1. CASE popup.sending = x
                <5>1. \A i \in 1..Len(toBg') : PcSets(i, x)' => i = Len(toBg) + 1 /\ PcMine(i)'
                    BY <3>1, <3>10, <4>1
                <5>2. \A j \in 1..Len(toPopup') : toPopup'[j].ctx # x
                    BY <1>2, <3>10, <4>1
                <5>. QED  BY <2>5, <3>2, <3>9, <3>10, <4>1, <5>1, <5>2 DEF PcSetOnce
            <4>2. CASE popup.sending # x
                <5>1. \A i \in 1..Len(toBg') : PcSets(i, x)' => i \in 1..Len(toBg) /\ PcSets(i, x)
                    BY <3>1, <4>2
                <5>2. popup'.ctx # x
                    BY <2>5, <4>2
                <5>. QED  BY <1>2, <3>0, <3>2, <3>9, <5>1, <5>2 DEF PcGiven, PcSetOnce
            <4>. QED  BY <4>1, <4>2
        <3>. QED  BY <3>2, <3>4, <3>5, <3>6 DEF PcGiven, PcSending, PcClearing
    <2>. QED  BY <1>1, <2>7, <2>g DEF PcInv
<1>7. CASE ~(toPopup[1].t = "disconnected" /\ popup.sending # NoContext)
    <2>. DEFINE b == IF toPopup[1].t = "refused" THEN popup.canChat ELSE a.canChat
    <2>. DEFINE q == [t |-> "send", ctx |-> NoContext, from |-> opens]
    <2>1. b \in BOOLEAN /\ q \in PcAsk /\ q.ctx = NoContext
        BY <1>2, <1>3, <1>5 DEF PcAsk
    <2>2. popup' = [[[a EXCEPT !.pc = "ready"] EXCEPT !.sending = NoContext] EXCEPT !.canChat = b] /\ toBg' = toBg
        BY <1>2, <1>5, <1>7 DEF Pending!SendReply, PcPopup
    <2>. HIDE DEF b, q
    <2>3. popup' \in PcPopup
        BY <1>3, <1>4, <1>5, <2>1, <2>2
    <2>4. popup'.pc = "ready" /\ popup'.ctx = popup.ctx /\ popup'.sending = NoContext
        BY <1>5, <2>2 DEF PcPopup
    <2>. QED  BY <1>1, <1>3, <2>1, <2>2, <2>3, <2>4, PcMovesOn
<1>. QED  BY <1>6, <1>7

\* popup.tsx: the buttons.
LEMMA PcClicked ==
    ASSUME PcInv, Pending!SendClicked \/ Pending!ConnectClicked \/ Pending!RemoveClicked
    PROVE  PcInv'
<1>. USE PendingAssumption
<1>1. /\ popup.pc = "ready" /\ popup \in PcPopup /\ opens \in Nat
      /\ popup.ctx \in Contexts \cup {NoContext}
      /\ UNCHANGED <<mem, store, calls, link, working, last, sent, raced, toPopup, captured, opens, restarts>>
    BY DEF PcInv, PcTypes, PcPopup, Pending!SendClicked, Pending!ConnectClicked, Pending!RemoveClicked,
           Pending!bgVars, Pending!bounds
<1>2. /\ \A p \in PcPopup : \A b \in BOOLEAN :
            [p EXCEPT !.canChat = b] \in PcPopup /\ [p EXCEPT !.working = b] \in PcPopup
      /\ \A p \in PcPopup : \A s \in {"connecting", "clearing", "sending"} : [p EXCEPT !.pc = s] \in PcPopup
      /\ \A p \in PcPopup : \A c \in Contexts \cup {NoContext} :
            [p EXCEPT !.ctx = c] \in PcPopup /\ [p EXCEPT !.sending = c] \in PcPopup
    BY DEF PcPopup
<1>3. \A t \in {"clear", "send", "connect", "disconnect"} : \A f \in {0, opens} :
        [t |-> t, ctx |-> NoContext, from |-> f] \in PcAsk
    BY <1>1 DEF PcAsk
<1>4. CASE Pending!SendClicked /\ popup.ctx # NoContext
    <2>1. /\ popup' = [[[[popup EXCEPT !.pc = "clearing"] EXCEPT !.ctx = NoContext] EXCEPT !.sending = popup.ctx] EXCEPT !.working = TRUE]
          /\ toBg' = Append(toBg, [t |-> "clear", ctx |-> NoContext, from |-> opens])
        BY <1>1, <1>4 DEF Pending!SendClicked, Pending!Post, Pending!Msg, PcPopup
    <2>2. popup' \in PcPopup
        BY <1>1, <1>2, <2>1
    <2>3. popup'.pc = "clearing" /\ popup'.ctx = NoContext /\ popup'.sending = popup.ctx
        BY <1>1, <2>1 DEF PcPopup
    <2>4. "clear" \in PcAsked(popup'.pc)
        BY <2>3 DEF PcAsked
    <2>. QED  BY <1>1, <1>3, <2>1, <2>2, <2>3, <2>4, PcClicks
<1>5. CASE Pending!SendClicked /\ ~(popup.ctx # NoContext)
    <2>1. /\ popup' = [[popup EXCEPT !.pc = "sending"] EXCEPT !.working = TRUE]
          /\ toBg' = Append(toBg, [t |-> "send", ctx |-> NoContext, from |-> opens])
        BY <1>1, <1>5 DEF Pending!SendClicked, Pending!Post, Pending!Msg, PcPopup
    <2>2. popup' \in PcPopup
        BY <1>1, <1>2, <2>1
    <2>3. popup'.pc = "sending" /\ popup'.ctx = popup.ctx /\ popup'.sending = popup.sending
        BY <1>1, <2>1 DEF PcPopup
    <2>4. "send" \in PcAsked(popup'.pc)
        BY <2>3 DEF PcAsked
    <2>. QED  BY <1>1, <1>3, <2>1, <2>2, <2>3, <2>4, PcClicks
<1>6. CASE Pending!ConnectClicked
    <2>1. PICK t \in {"connect", "disconnect"} : toBg' = Append(toBg, [t |-> t, ctx |-> NoContext, from |-> opens])
        BY <1>6 DEF Pending!ConnectClicked, Pending!Post, Pending!Msg
    <2>2. popup' = [[popup EXCEPT !.pc = "connecting"] EXCEPT !.canChat = FALSE]
        BY <1>1, <1>6 DEF Pending!ConnectClicked, PcPopup
    <2>3. popup' \in PcPopup
        BY <1>1, <1>2, <2>2
    <2>4. popup'.pc = "connecting" /\ popup'.ctx = popup.ctx /\ popup'.sending = popup.sending
        BY <1>1, <2>2 DEF PcPopup
    <2>5. t \in PcAsked(popup'.pc)
        BY <2>4 DEF PcAsked
    <2>6. [t |-> t, ctx |-> NoContext, from |-> opens] \in PcAsk
        BY <1>3
    <2>. QED  BY <1>1, <2>1, <2>3, <2>4, <2>5, <2>6, PcClicks
<1>7. CASE Pending!RemoveClicked
    <2>1. /\ popup' = [popup EXCEPT !.ctx = NoContext]
          /\ toBg' = Append(toBg, [t |-> "clear", ctx |-> NoContext, from |-> 0])
        BY <1>1, <1>7 DEF Pending!RemoveClicked, Pending!Post, Pending!Msg
    <2>2. popup' \in PcPopup
        BY <1>1, <1>2, <2>1
    <2>3. popup'.pc = "ready" /\ popup'.ctx = NoContext /\ popup'.sending = popup.sending
        BY <1>1, <2>1 DEF PcPopup
    <2>. QED  BY <1>1, <1>3, <2>1, <2>2, <2>3, PcClicks
<1>. QED  BY <1>4, <1>5, <1>6, <1>7

\* background.ts: a worker that has just started, whatever the storage holds.
LEMMA PcStarts ==
    ASSUME Pending!Init
    PROVE  PcInv
<1>. USE PendingAssumption
<1>1. /\ mem = Unset /\ store \in {NoContext} \cup Contexts /\ calls = <<>> /\ toBg = <<>> /\ toPopup = <<>>
      /\ link = "idle" /\ working = FALSE /\ captured = {store} \ {NoContext} /\ opens = 0
      /\ last = store /\ sent = {} /\ raced = FALSE
      /\ popup = [pc |-> "closed", ctx |-> NoContext, sending |-> NoContext, canChat |-> FALSE, working |-> FALSE]
    BY DEF Pending!Init, Pending!Closed
<1>2. /\ calls \in Seq(PcCall) /\ toBg \in Seq(PcAsk) /\ toPopup \in Seq(PcNews)
      /\ Len(calls) = 0 /\ Len(toBg) = 0 /\ Len(toPopup) = 0
      /\ \A i \in 1..0 : FALSE
    BY <1>1
<1>3. popup \in PcPopup /\ popup.pc = "closed" /\ popup.ctx = NoContext /\ popup.sending = NoContext
    BY <1>1 DEF PcPopup
<1>4. PcTypes
    BY <1>1, <1>2, <1>3 DEF PcTypes
<1>5. PcWaits /\ PcWorker /\ PcChip
    BY <1>1, <1>2, <1>3 DEF PcWaits, PcWorker, PcChip
<1>6. PcKnown
    BY <1>1, <1>2, <1>3 DEF PcKnown, PcHeld, PcShown
<1>7. ASSUME NEW x \in Contexts PROVE PcGiven(x)
    BY <1>1, <1>2, <1>3 DEF PcGiven, PcGone, PcOut, PcSendOnce, PcSetOnce, PcSending, PcClearing
<1>. QED  BY <1>4, <1>5, <1>6, <1>7 DEF PcInv

\* The invariant is kept by every step.
LEMMA PcSteps ==
    ASSUME PcInv, [Pending!Next]_Pending!vars
    PROVE  PcInv'
<1>1. CASE Pending!Next
    BY <1>1, PcCaptures, PcHandled, PcLoads, PcAssigns, PcTurnEnds, PcLoaded, PcStored, PcRestarts,
       PcOpens, PcClicked, PcListens, PcRepliesPlain, PcClears, PcSendReplies DEF Pending!Next
<1>2. CASE UNCHANGED Pending!vars
    <2>1. UNCHANGED <<mem, store, calls, link, working, toBg, toPopup, popup, captured, opens, restarts, last, sent, raced>>
        BY <1>2 DEF Pending!vars, Pending!bgVars, Pending!bounds
    <2>2. PcTypes' /\ PcWaits' /\ PcWorker'
        BY <2>1 DEF PcInv, PcTypes, PcWaits, PcMine, PcDone, PcReply, PcWorker
    <2>3. PcChip' /\ PcKnown'
        BY <2>1 DEF PcInv, PcChip, PcTells, PcKnown, PcHeld, PcShown
    <2>4. ASSUME NEW x \in Contexts, ~raced' PROVE PcGiven(x)'
        <3>1. PcGiven(x)
            BY <2>1, <2>4 DEF PcInv
        <3>2. PcGone(x)' /\ PcSendOnce(x)' /\ PcSetOnce(x)'
            BY <2>1, <3>1 DEF PcGiven, PcGone, PcOut, PcSends, PcHeld, PcShown, PcSets, PcSendOnce, PcSetOnce, PcMine
        <3>3. PcSending(x)' /\ PcClearing(x)'
            BY <2>1, <3>1 DEF PcGiven, PcSending, PcClearing, PcHeld, PcMine, PcDone, PcReply
        <3>. QED  BY <3>2, <3>3 DEF PcGiven
    <2>. QED  BY <2>2, <2>3, <2>4 DEF PcInv
<1>. QED  BY <1>1, <1>2

\* What the invariant says of the properties.
LEMMA PcPromises ==
    ASSUME PcInv
    PROVE  Pending!TypeOK /\ Pending!PendingIsLastUnlessRaced /\ Pending!ChipShowsPending /\ Pending!SentOnce
<1>. USE PendingAssumption
<1>1. Pending!TypeOK
    <2>1. popup.ctx \in Contexts \cup {NoContext} /\ popup.sending \in Contexts \cup {NoContext}
        BY DEF PcInv, PcTypes, PcPopup
    <2>. QED  BY <2>1 DEF PcInv, PcTypes, Pending!TypeOK
<1>2. Pending!PendingIsLastUnlessRaced
    BY DEF PcInv, PcTypes, PcWorker, Pending!PendingIsLastUnlessRaced
<1>3. Pending!ChipShowsPending
    <2>. SUFFICES ASSUME calls = <<>>, toBg = <<>>, toPopup = <<>>, popup.pc = "ready", ~raced
                  PROVE  popup.ctx = last
        BY DEF Pending!ChipShowsPending, Pending!Quiet
    <2>1. Len(calls) = 0 /\ Len(toBg) = 0 /\ Len(toPopup) = 0 /\ \A i \in 1..0 : FALSE
        OBVIOUS
    <2>2. \E i \in 0..0 : i = 0 => popup.pc = "init" \/ popup.ctx = last
        BY <2>1 DEF PcInv, PcChip
    <2>. QED  BY <2>2
<1>4. Pending!SentOnce
    <2>1. ASSUME ~raced, NEW ctx \in sent
          PROVE  ctx # mem /\ ctx # last /\ ctx # popup.ctx
        <3>1. ctx \in Contexts
            BY <2>1 DEF PcInv, PcTypes
        <3>. QED  BY <2>1, <3>1 DEF PcInv, PcGiven, PcGone, PcOut, PcHeld, PcShown
    <2>. QED  BY <2>1 DEF Pending!SentOnce
<1>. QED  BY <1>1, <1>2, <1>3, <1>4

(***************************************************************************)
(* The parts together: what a step of the suite does to the part.          *)
(***************************************************************************)

\* A step of the suite leaves the part chosen, and is a step of it.
LEMMA SuiteParts ==
    ASSUME [SuiteNext]_all
    PROVE  part' = part /\ (part = "pending" => [Pending!Next]_(Pending!vars))
<1>1. CASE UNCHANGED all
    BY <1>1 DEF all, pool, Pending!vars, Pending!bgVars, Pending!bounds
<1>2. CASE SuiteNext
    BY <1>2 DEF SuiteNext, ExtensionConnectionStep, PendingStep, PendingOnly, LlmStep, LlmOnly
<1>. QED  BY <1>1, <1>2

\* background.ts and popup.tsx: for any selections, openings and restarts, the worker
\* holds or will load the selection last set or cleared, unless that happened while a
\* load was in flight; once everything has arrived the popup shows it; and a selection
\* the agent was given does not come back by itself.
THEOREM SelectionIsKept == SuiteSpec => []SelectionKept
<1>. DEFINE I == part = "pending" => PcInv
<1>1. SuiteInit => I
    BY PcStarts DEF SuiteInit
<1>2. I /\ [SuiteNext]_all => I'
    BY SuiteParts, PcSteps
<1>3. I => SelectionKept
    BY PcPromises DEF SelectionKept
<1>. QED  BY <1>1, <1>2, <1>3, PTL DEF SuiteSpec

=============================================================================

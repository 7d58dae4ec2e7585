--------------------------- MODULE CdpClientProofs ---------------------------
(***************************************************************************)
(* Theorems about CdpClient, for any callers, any number of calls and with *)
(* or without a DevTools frontend.                                         *)
(***************************************************************************)
EXTENDS CdpClient, TLAPS

(***************************************************************************)
(* The inductive invariant.                                                *)
(***************************************************************************)

Messages == [id : Int, owner : Callers \cup {"attach", "devtools"}, n : Nat]
States == {"idle", "inserted", "waiting", "expired", "answered", "closed", "timeout", "failed"}
Calls == [st : States, id : Nat, n : Nat, got : Messages \cup {None}]
Frontends == [st : {"off", "attaching", "on", "done"}, id : Nat]
Sent == asked \cup {wire[k] : k \in DOMAIN wire}

\* What the numbers, the table and the messages are.
ClientTypes ==
    /\ nextId \in Nat \ {0}
    /\ \A i \in DOMAIN pending : pending[i] \in Callers
    /\ call \in [Callers -> Calls]
    /\ asked \subseteq Messages /\ wire \in Seq(Messages)
    /\ devtools \in Frontends

\* No number is given twice.
NumbersInv ==
    /\ \A c \in Callers : call[c].id < nextId
    /\ \A c, d \in Callers : call[c].id = call[d].id /\ call[c].id # 0 => c = d

\* A message with the number of a call is the request of that call, or the
\* answer to it.
Fits(m) ==
    /\ m.id < nextId
    /\ \A c \in Callers : m.id > 0 /\ m.id = call[c].id => m = Message(m.id, c, call[c].n)
MessagesInv == devtools.id = 0 => \A m \in Sent : Fits(m)

ClientInv == ClientTypes /\ NumbersInv /\ MessagesInv /\ OwnUnlessInspected

(***************************************************************************)
(* The steps.                                                              *)
(***************************************************************************)

\* Nothing was asked.
LEMMA InitClient == Init => ClientInv
<1>. SUFFICES ASSUME Init PROVE ClientInv
  OBVIOUS
<1>1. ClientTypes
  <2>1. Idle \in Calls /\ devtools \in Frontends
    BY DEF Init, Idle, Calls, Frontends, States
  <2>. QED  BY <2>1 DEF Init, ClientTypes
<1>2. NumbersInv /\ OwnUnlessInspected
  BY DEF Init, NumbersInv, OwnUnlessInspected, OwnAnswer, Idle
<1>3. Sent = {}
  BY DEF Init, Sent
<1>. QED  BY <1>1, <1>2, <1>3 DEF ClientInv, MessagesInv

\* A new number fits no message and no other call.
LEMMA TakeIdKeeps ==
    ASSUME ClientInv, NEW c \in Callers, TakeId(c)
    PROVE  ClientInv'
<1>. DEFINE new == [st |-> "inserted", id |-> nextId, n |-> call[c].n + 1, got |-> None]
<1>1. /\ call' = [call EXCEPT ![c] = new] /\ nextId' = nextId + 1
      /\ UNCHANGED <<asked, wire, devtools>>
  BY DEF TakeId
<1>2. /\ nextId \in Nat \ {0} /\ call \in [Callers -> Calls]
  BY DEF ClientInv, ClientTypes
<1>3. new \in Calls
  BY <1>2 DEF Calls, States
<1>4. /\ call' \in [Callers -> Calls]
      /\ call'[c].id = nextId /\ call'[c].got = None
      /\ \A d \in Callers : d # c => call'[d] = call[d]
  BY <1>1, <1>2, <1>3
<1>. HIDE DEF new
<1>5. \A i \in DOMAIN pending' : pending'[i] \in Callers
  BY DEF TakeId, ClientInv, ClientTypes
<1>6. ClientTypes'
  BY <1>1, <1>2, <1>4, <1>5 DEF ClientInv, ClientTypes
<1>7. \A d \in Callers : call[d].id \in Nat /\ call[d].id < nextId
  BY <1>2 DEF Calls, ClientInv, NumbersInv
<1>8. NumbersInv'
  BY <1>1, <1>2, <1>4, <1>7 DEF ClientInv, NumbersInv
<1>9. MessagesInv'
  <2>. SUFFICES ASSUME devtools.id = 0, NEW m \in Sent PROVE Fits(m)'
    BY <1>1 DEF MessagesInv, Sent
  <2>1. Fits(m) /\ m.id \in Int
    <3>1. m \in Messages
      BY DEF ClientInv, ClientTypes, Sent
    <3>. QED  BY <3>1 DEF ClientInv, MessagesInv, Messages
  <2>2. m.id < nextId /\ m.id # nextId /\ m.id < nextId'
    BY <1>1, <1>2, <2>1 DEF Fits
  <2>. QED  BY <1>4, <2>1, <2>2 DEF Fits
<1>10. OwnUnlessInspected'
  BY <1>1, <1>4 DEF ClientInv, OwnUnlessInspected, OwnAnswer
<1>. QED  BY <1>6, <1>8, <1>9, <1>10 DEF ClientInv

\* A step that keeps the numbers and the answers, whose messages are old or
\* those of a call.
LEMMA SameCalls ==
    ASSUME ClientInv, nextId' = nextId,
           \A i \in DOMAIN pending' : pending'[i] \in Callers,
           call' \in [Callers -> Calls],
           \A c \in Callers : /\ call'[c].id = call[c].id /\ call'[c].n = call[c].n
                              /\ call'[c].got = call[c].got,
           asked' \subseteq Messages, wire' \in Seq(Messages),
           devtools' \in Frontends, devtools'.id = 0 => devtools.id = 0,
           devtools'.id = 0 => \A m \in Sent' : m \in Sent \/ Fits(m)
    PROVE  ClientInv'
<1>1. ClientTypes'
  BY DEF ClientInv, ClientTypes
<1>2. NumbersInv'
  BY DEF ClientInv, NumbersInv
<1>3. MessagesInv'
  <2>. SUFFICES ASSUME devtools'.id = 0, NEW m \in Sent' PROVE Fits(m)'
    BY DEF MessagesInv
  <2>1. Fits(m)
    BY DEF ClientInv, MessagesInv
  <2>. QED  BY <2>1 DEF Fits
<1>4. OwnUnlessInspected'
  BY DEF ClientInv, OwnUnlessInspected, OwnAnswer
<1>. QED  BY <1>1, <1>2, <1>3, <1>4 DEF ClientInv

\* The other steps of a caller.
LEMMA CallerKeeps ==
    ASSUME ClientInv, NEW c \in Callers, Write(c) \/ Return(c) \/ Expire(c) \/ Forget(c)
    PROVE  ClientInv'
<1>1. nextId' = nextId /\ wire' = wire /\ devtools' = devtools
  BY DEF Write, Return, Expire, Forget
<1>2. call \in [Callers -> Calls]
  BY DEF ClientInv, ClientTypes
<1>3. PICK st \in States : call' = [call EXCEPT ![c].st = st]
  <2>1. CASE Write(c)
    BY <2>1 DEF Write, States
  <2>2. CASE Return(c)
    BY <2>2 DEF Return, States
  <2>3. CASE Expire(c) \/ Forget(c)
    BY <2>3 DEF Expire, Forget, States
  <2>. QED  BY <2>1, <2>2, <2>3
<1>4. call' \in [Callers -> Calls]
  BY <1>2, <1>3 DEF Calls
<1>5. \A d \in Callers : /\ call'[d].id = call[d].id /\ call'[d].n = call[d].n
                         /\ call'[d].got = call[d].got
  BY <1>2, <1>3 DEF Calls
<1>6. \A i \in DOMAIN pending' : pending'[i] \in Callers
  BY DEF ClientInv, ClientTypes, Write, Return, Expire, Forget, Without
<1>7. Message(call[c].id, c, call[c].n) \in Messages
  BY <1>2 DEF Message, Messages, Calls
<1>8. asked' \subseteq asked \cup {Message(call[c].id, c, call[c].n)}
  BY DEF Write, Return, Expire, Forget
<1>9. Fits(Message(call[c].id, c, call[c].n))
  <2>1. Message(call[c].id, c, call[c].n).id = call[c].id
    BY DEF Message
  <2>. QED  BY <1>2, <2>1 DEF Calls, ClientInv, NumbersInv, Fits
<1>10. \A m \in Sent' : m \in Sent \/ Fits(m)
  BY <1>1, <1>8, <1>9 DEF Sent
<1>. QED  BY <1>1, <1>4, <1>5, <1>6, <1>7, <1>8, <1>10, SameCalls DEF ClientInv, ClientTypes

\* The browser answers with what it was asked.
LEMMA AnswerKeeps ==
    ASSUME ClientInv, Answer
    PROVE  ClientInv'
<1>1. PICK m \in asked : asked' = asked \ {m} /\ wire' = Append(wire, m)
  BY DEF Answer
<1>2. UNCHANGED <<nextId, pending, call, devtools>>
  BY DEF Answer
<1>3. m \in Messages /\ wire \in Seq(Messages)
  BY DEF ClientInv, ClientTypes
<1>4. wire' \in Seq(Messages) /\ \A k \in DOMAIN wire' : wire'[k] = m \/ \E j \in DOMAIN wire : wire'[k] = wire[j]
  BY <1>1, <1>3
<1>5. Sent' \subseteq Sent
  BY <1>1, <1>4 DEF Sent
<1>. QED  BY <1>1, <1>2, <1>4, <1>5, SameCalls DEF ClientInv, ClientTypes

\* The reader hands a message to the call it fits.
LEMMA ReadKeeps ==
    ASSUME ClientInv, Read
    PROVE  ClientInv'
<1>. DEFINE m == Head(wire)
<1>1. /\ nextId' = nextId /\ asked' = asked /\ wire # <<>> /\ wire' = Tail(wire)
  BY DEF Read
<1>2. /\ nextId \in Nat \ {0} /\ wire \in Seq(Messages) /\ devtools \in Frontends
      /\ call \in [Callers -> Calls]
      /\ \A i \in DOMAIN pending : pending[i] \in Callers
  BY DEF ClientInv, ClientTypes
<1>3. /\ m \in Messages /\ m \in Sent /\ wire' \in Seq(Messages)
      /\ \A k \in DOMAIN wire' : \E j \in DOMAIN wire : wire'[k] = wire[j]
  BY <1>1, <1>2 DEF Sent
<1>4. Sent' \subseteq Sent
  BY <1>1, <1>3 DEF Sent
<1>5. devtools' \in Frontends /\ devtools'.id = devtools.id
  BY <1>2 DEF Read, Frontends
<1>6. CASE UNCHANGED call
  <2>1. \A i \in DOMAIN pending' : pending'[i] \in Callers
    BY <1>2 DEF Read, Without
  <2>. QED  BY <1>1, <1>2, <1>3, <1>4, <1>5, <1>6, <2>1, SameCalls DEF ClientInv, ClientTypes
<1>7. CASE /\ m.id > 0 /\ m.id \in DOMAIN pending /\ pending' = Without(m.id)
           /\ call[pending[m.id]].id = m.id
           /\ call' = [call EXCEPT ![pending[m.id]].got = m]
  <2>1. PICK c \in Callers : c = pending[m.id]
    BY <1>2, <1>7
  <2>2. call' = [call EXCEPT ![c].got = m] /\ call[c].id = m.id
    BY <1>7, <2>1
  <2>3. /\ call' \in [Callers -> Calls]
        /\ call'[c].got = m
        /\ \A d \in Callers : call'[d].id = call[d].id /\ call'[d].n = call[d].n
        /\ \A d \in Callers : d # c => call'[d].got = call[d].got
    BY <1>2, <1>3, <2>2 DEF Calls
  <2>4. \A i \in DOMAIN pending' : pending'[i] \in Callers
    BY <1>2, <1>7 DEF Without
  <2>5. ClientTypes'
    BY <1>1, <1>3, <1>5, <2>3, <2>4 DEF ClientInv, ClientTypes
  <2>6. NumbersInv'
    BY <1>1, <2>3 DEF ClientInv, NumbersInv
  <2>7. MessagesInv'
    <3>. SUFFICES ASSUME devtools'.id = 0, NEW x \in Sent' PROVE Fits(x)'
      BY DEF MessagesInv
    <3>1. Fits(x)
      BY <1>4, <1>5 DEF ClientInv, MessagesInv
    <3>. QED  BY <1>1, <2>3, <3>1 DEF Fits
  <2>8. OwnUnlessInspected'
    <3>. SUFFICES ASSUME devtools.id = 0, NEW d \in Callers, call'[d].got # None
                  PROVE  call'[d].got = Message(call'[d].id, d, call'[d].n)
      BY <1>5 DEF OwnUnlessInspected, OwnAnswer
    <3>1. CASE d = c
      <4>1. Fits(m)
        BY <1>3 DEF ClientInv, MessagesInv
      <4>2. m = Message(m.id, c, call[c].n)
        BY <1>7, <2>2, <4>1 DEF Fits
      <4>. QED  BY <2>2, <2>3, <3>1, <4>2
    <3>2. CASE d # c
      BY <2>3, <3>2 DEF ClientInv, OwnUnlessInspected, OwnAnswer
    <3>. QED  BY <3>1, <3>2
  <2>. QED  BY <2>5, <2>6, <2>7, <2>8 DEF ClientInv
<1>. QED  BY <1>6, <1>7 DEF Read

\* The browser reads or does not, or the connection ends: nothing is handed to
\* a call.
LEMMA EndKeeps ==
    ASSUME ClientInv, Die \/ Fill \/ Drain \/ Break \/ Exit \/ Ping
    PROVE  ClientInv'
<1>1. UNCHANGED <<nextId, call, wire, devtools>> /\ asked' \subseteq asked
  BY DEF Die, Fill, Drain, Break, Exit, Ping
<1>2. \A i \in DOMAIN pending' : pending'[i] \in Callers
  BY DEF ClientInv, ClientTypes, Die, Fill, Drain, Break, Exit, Ping
<1>3. Sent' \subseteq Sent
  BY <1>1 DEF Sent
<1>. QED  BY <1>1, <1>2, <1>3, SameCalls DEF ClientInv, ClientTypes

\* The inspect server uses negative numbers; a request of the frontend ends
\* what the theorem claims.
LEMMA InspectKeeps ==
    ASSUME ClientInv, Attach \/ FrontendAsks \/ Detach
    PROVE  ClientInv'
<1>1. UNCHANGED <<nextId, pending, call, wire>>
  BY DEF Attach, FrontendAsks, Detach
<1>2. nextId \in Nat \ {0} /\ devtools \in Frontends
  BY DEF ClientInv, ClientTypes
<1>3. devtools' \in Frontends /\ (devtools'.id = 0 => devtools.id = 0)
  BY <1>2 DEF Attach, FrontendAsks, Detach, Frontends
<1>4. /\ Message(AttachId, "attach", 0) \in Messages /\ Message(AttachId - 1, "attach", 1) \in Messages
      /\ Message(devtools.id + 1, "devtools", 0) \in Messages
  BY <1>2 DEF Message, Messages, AttachId, Frontends
<1>5. Fits(Message(AttachId, "attach", 0)) /\ Fits(Message(AttachId - 1, "attach", 1))
  <2>1. /\ Message(AttachId, "attach", 0).id = AttachId
        /\ Message(AttachId - 1, "attach", 1).id = AttachId - 1
    BY DEF Message
  <2>. QED  BY <1>2, <2>1 DEF Fits, AttachId
<1>6. asked' \subseteq Messages
  BY <1>4 DEF ClientInv, ClientTypes, Attach, FrontendAsks, Detach
<1>7. devtools'.id = 0 => asked' \subseteq asked \cup {Message(AttachId, "attach", 0), Message(AttachId - 1, "attach", 1)}
  BY <1>2 DEF Frontends, Attach, FrontendAsks, Detach
<1>8. devtools'.id = 0 => \A m \in Sent' : m \in Sent \/ Fits(m)
  BY <1>1, <1>5, <1>7 DEF Sent
<1>. QED  BY <1>1, <1>3, <1>6, <1>8, SameCalls DEF ClientInv, ClientTypes

\* Every step keeps the invariant.
LEMMA NextKeeps ==
    ASSUME ClientInv, [Next]_vars
    PROVE  ClientInv'
<1>1. CASE UNCHANGED vars
  BY <1>1 DEF vars, ClientInv, ClientTypes, NumbersInv, MessagesInv, Sent, Fits,
              OwnUnlessInspected, OwnAnswer
<1>2. CASE \E c \in Callers : Caller(c)
  BY <1>2, TakeIdKeeps, CallerKeeps DEF Caller
<1>3. CASE Answer
  BY <1>3, AnswerKeeps
<1>4. CASE Read
  BY <1>4, ReadKeeps
<1>5. CASE Die \/ Fill \/ Drain \/ Break \/ Exit \/ Ping
  BY <1>5, EndKeeps
<1>6. CASE Attach \/ FrontendAsks \/ Detach
  BY <1>6, InspectKeeps
<1>. QED  BY <1>1, <1>2, <1>3, <1>4, <1>5, <1>6 DEF Next

\* cdp/client.rs: an entry of the table has a number that was given, and a call
\* that timed out has none, whatever the others do.
LEMMA TypesKeep ==
    ASSUME ClientInv, ClientInv', TypeOK, [Next]_vars
    PROVE  TypeOK'
<1>. USE DEF TypeOK
<1>1. /\ nextId \in Nat \ {0} /\ nextId' \in Nat \ {0} /\ call \in [Callers -> Calls] /\ call' \in [Callers -> Calls]
      /\ devtools \in Frontends /\ devtools' \in Frontends
      /\ \A i \in DOMAIN pending' : pending'[i] \in Callers
  BY DEF ClientInv, ClientTypes
<1>2. \A c \in Callers : call'[c].st \in States
  BY <1>1 DEF Calls
<1>3. devtools'.st \in {"off", "attaching", "on", "done"}
  BY <1>1 DEF Frontends
<1>4. CASE UNCHANGED vars
  BY <1>4 DEF vars
<1>5. ASSUME NEW c \in Callers, TakeId(c)
      PROVE  TypeOK'
  <2>1. /\ nextId' = nextId + 1 /\ DOMAIN pending' = DOMAIN pending \cup {nextId}
        /\ UNCHANGED <<conn, reader, keepalive, room>>
    BY <1>5 DEF TakeId
  <2>2. \A d \in Callers : call'[d].st = "timeout" => d # c /\ call'[d] = call[d] /\ call[d].id < nextId
    <3>1. /\ call'[c].st = "inserted" /\ \A d \in Callers : d # c => call'[d] = call[d]
      BY <1>1, <1>5 DEF TakeId
    <3>. QED  BY <3>1 DEF ClientInv, NumbersInv
  <2>. QED  BY <1>1, <1>2, <1>3, <2>1, <2>2 DEF States
<1>6. ASSUME NEW c \in Callers, Write(c) \/ Return(c) \/ Expire(c) \/ Forget(c)
      PROVE  TypeOK'
  <2>1. /\ UNCHANGED <<nextId, conn, reader, keepalive, room>> /\ DOMAIN pending' \subseteq DOMAIN pending
    BY <1>6 DEF Write, Return, Expire, Forget, Without
  <2>2. \A d \in Callers : /\ call'[d].id = call[d].id
                           /\ call'[d].st = "timeout" => call[d].st = "timeout" \/ call[d].id \notin DOMAIN pending'
    BY <1>1, <1>6 DEF Write, Return, Expire, Forget, Without, Calls
  <2>. QED  BY <1>1, <1>2, <1>3, <2>1, <2>2 DEF States
<1>7. CASE Read
  <2>. DEFINE m == Head(wire)
  <2>1. /\ UNCHANGED <<nextId, conn, reader, keepalive, room>>
        /\ \/ UNCHANGED <<pending, call>>
           \/ /\ m.id \in DOMAIN pending /\ pending' = Without(m.id)
              /\ call' = call \/ call' = [call EXCEPT ![pending[m.id]].got = m]
    BY <1>7 DEF Read
  <2>. HIDE DEF m
  <2>2. /\ DOMAIN pending' \subseteq DOMAIN pending
        /\ \A d \in Callers : call'[d].st = call[d].st /\ call'[d].id = call[d].id
    <3>1. ASSUME NEW x, call' = [call EXCEPT ![x].got = m], NEW d \in Callers
          PROVE  call'[d].st = call[d].st /\ call'[d].id = call[d].id
      <4>1. call[d] \in Calls /\ (call'[d] = call[d] \/ call'[d] = [call[d] EXCEPT !.got = m])
        BY <1>1, <3>1
      <4>. QED  BY <4>1 DEF Calls
    <3>. QED  BY <2>1, <3>1 DEF Without
  <2>. QED  BY <1>1, <1>2, <1>3, <2>1, <2>2 DEF States
<1>8. CASE Answer \/ Die \/ Fill \/ Drain \/ Break \/ Exit \/ Ping \/ Attach \/ FrontendAsks \/ Detach
  <2>1. /\ UNCHANGED <<nextId, call>> /\ DOMAIN pending' \subseteq DOMAIN pending
        /\ conn' \in {"open", "dead"} /\ reader' \in {"running", "broken", "exited"} /\ keepalive' \in {"running", "ended"}
    BY <1>8 DEF Answer, Die, Fill, Drain, Break, Exit, Ping, Attach, FrontendAsks, Detach
  <2>2. room' \in BOOLEAN
    <3>1. CASE Die \/ Fill \/ Drain
      BY <3>1 DEF Die, Fill, Drain
    <3>2. CASE Answer \/ Break \/ Exit \/ Ping \/ Attach \/ FrontendAsks \/ Detach
      BY <3>2 DEF Answer, Break, Exit, Ping, Attach, FrontendAsks, Detach
    <3>. QED  BY <1>8, <3>1, <3>2
  <2>. QED  BY <1>1, <1>2, <1>3, <2>1, <2>2 DEF States
<1>. QED  BY <1>4, <1>5, <1>6, <1>7, <1>8 DEF Next, Caller

\* Without an inspect server nobody else asks on the connection.
Uninspected == MaxDevTools = 0 => devtools.st = "off" /\ devtools.id = 0

\* inspect_server.rs: a frontend asks only after it has attached.
LEMMA UninspectedKeeps ==
    ASSUME ClientInv, Uninspected, [Next]_vars
    PROVE  Uninspected'
<1>. SUFFICES ASSUME MaxDevTools = 0, devtools.st = "off", devtools.id = 0
              PROVE  devtools'.st = "off" /\ devtools'.id = 0
  BY DEF Uninspected
<1>1. devtools \in Frontends
  BY DEF ClientInv, ClientTypes
<1>2. CASE Read
  BY <1>1, <1>2 DEF Read, Frontends
<1>3. CASE Attach \/ FrontendAsks \/ Detach
  BY <1>3 DEF Attach, FrontendAsks, Detach
<1>4. CASE ~ Read /\ ~ (Attach \/ FrontendAsks \/ Detach)
  <2>1. UNCHANGED devtools
    BY <1>4 DEF Next, vars, Caller, TakeId, Write, Return, Expire, Forget, Answer, Die, Fill,
                Drain, Break, Exit, Ping
  <2>. QED  BY <2>1
<1>. QED  BY <1>2, <1>3, <1>4

ConnectionInv == ClientInv /\ TypeOK /\ Uninspected

\* The three together hold at first and are kept by every step.
LEMMA ConnectionKeeps ==
    /\ Init => ConnectionInv
    /\ ConnectionInv /\ [Next]_vars => ConnectionInv'
<1>1. Init => TypeOK /\ Uninspected
  BY DEF Init, TypeOK, Uninspected, Idle
<1>. QED  BY <1>1, InitClient, NextKeeps, TypesKeep, UninspectedKeeps DEF ConnectionInv

(***************************************************************************)
(* cdp/client.rs: what send_command returns is the browser's answer to that *)
(* very call, for any number of callers, with answers in any order, late    *)
(* answers to calls that timed out and entries that failed writes leave in  *)
(* the table, until a DevTools frontend sends requests on the connection.   *)
(***************************************************************************)
THEOREM CallersGetTheirAnswers ==
    Spec => [](TypeOK /\ OwnUnlessInspected /\ (MaxDevTools = 0 => OwnAnswer))
<1>1. ConnectionInv => TypeOK /\ OwnUnlessInspected /\ (MaxDevTools = 0 => OwnAnswer)
  BY DEF ConnectionInv, ClientInv, Uninspected, OwnUnlessInspected
<1>. QED  BY <1>1, ConnectionKeeps, PTL DEF Spec

=============================================================================

------------------------------ MODULE RpcServer ------------------------------
(***************************************************************************)
(* The JSON-RPC WebSocket server (reshape-cli/src/rpc_server.rs): one       *)
(* handler task per connection (handle_socket, handle_text_frame), a       *)
(* bounded queue of agent requests, and the one worker that runs them       *)
(* (run_agent_worker).                                                     *)
(*                                                                         *)
(* A client may send any frame at any time, so the frames still in its      *)
(* socket are not kept: the handler reads whatever it may read.  The n-th   *)
(* frame read from a client, its handshake aside, carries the request id n. *)
(*                                                                         *)
(* handler[c] is where the task of connection c waits:                     *)
(*   "read"    receiver.next() in handle_socket                            *)
(*   "submit"  agent_tx.send() of a request, for room in the queue          *)
(*   "await"   response_rx of a history or reset request                   *)
(*   "stream"  the select! loop of an input request                        *)
(*   "closed"  the task has ended                                          *)
(***************************************************************************)
EXTENDS Naturals, Sequences, FiniteSets, SequencesExt

CONSTANTS
    Clients,        \* connections
    QueueCapacity,  \* AGENT_QUEUE_CAPACITY
    MaxFrames,      \* bound: frames read from one client, the handshake aside
    MaxEvents,      \* bound: progress events of one turn
    Chatter         \* bound: clients also send frames the worker never sees

ASSUME BoundsAssumption ==
    /\ QueueCapacity \in Nat \ {0}
    /\ MaxFrames \in Nat
    /\ MaxEvents \in Nat
    /\ Chatter \in BOOLEAN

VARIABLES
    handler,    \* where each connection's task waits
    gone,       \* the client has closed or lost its connection
    ended,      \* the handler has read the end of the stream
    shaken,     \* is_handshake_complete
    frames,     \* frames read from each client, the handshake aside
    asked,      \* the well-formed requests among them
    overlapped, \* those that arrived during an input request
    current,    \* the agent request a handler is waiting for
    channel,    \* progress events sent to the handler, not yet forwarded
    reply,      \* the oneshot response channel of the current request
    inbox,      \* frames each client has been sent while it was there
    queue,      \* agent requests waiting for the worker
    worker,     \* what the worker is doing
    job,        \* the agent request it has taken
    emitted,    \* progress events of the running turn so far
    recorded,   \* turns in the stored session
    resets      \* how often the session has been reset

connVars == <<gone, ended, shaken, frames, asked, overlapped>>
workerVars == <<queue, worker, job, emitted, recorded, resets>>
vars == <<handler, gone, ended, shaken, frames, asked, overlapped, current,
          channel, reply, inbox, queue, worker, job, emitted, recorded, resets>>

-----------------------------------------------------------------------------

JobKinds == {"history", "reset", "input"}
Request(id, kind) == [id |-> id, kind |-> kind]
Job(c, id, kind) == [client |-> c, id |-> id, kind |-> kind]
NoJob == [kind |-> "none"]

NoRequest == Request(0, "none")
NoReply == [status |-> "none"]

\* Server frames.
Ack == [type |-> "ack"]
NullError == [type |-> "error"]   \* an error response with id null
Progress(id, n) == [type |-> "progress", id |-> id, n |-> n]
Response(id, body) == [type |-> "response", id |-> id, body |-> body]

Pong == [status |-> "pong"]
Failure == [status |-> "failure"]
History == [status |-> "history", turns |-> recorded, resets |-> resets]
Output == [status |-> "output", events |-> emitted, resets |-> resets]

\* The worker's response_tx for j is open: the handler still holds the
\* receiving end.
Wanted(j) ==
    /\ handler[j.client] \in {"await", "stream"}
    /\ current[j.client].id = j.id

Init ==
    /\ handler = [c \in Clients |-> "read"]
    /\ gone = [c \in Clients |-> FALSE]
    /\ ended = [c \in Clients |-> FALSE]
    /\ shaken = [c \in Clients |-> FALSE]
    /\ frames = [c \in Clients |-> 0]
    /\ asked = [c \in Clients |-> {}]
    /\ overlapped = [c \in Clients |-> {}]
    /\ current = [c \in Clients |-> NoRequest]
    /\ channel = [c \in Clients |-> <<>>]
    /\ reply = [c \in Clients |-> NoReply]
    /\ inbox = [c \in Clients |-> <<>>]
    /\ queue = <<>>
    /\ worker = "idle"
    /\ job = NoJob
    /\ emitted = 0
    /\ recorded = <<>>
    /\ resets = 0

-----------------------------------------------------------------------------
(***************************************************************************)
(* The client's side of the socket.                                        *)
(***************************************************************************)

\* The client closes, or its connection breaks.
Leave(c) ==
    /\ ~gone[c]
    /\ gone' = [gone EXCEPT ![c] = TRUE]
    /\ UNCHANGED <<handler, ended, shaken, frames, asked, overlapped, current,
                   channel, reply, inbox>>
    /\ UNCHANGED workerVars

\* sender.send() of the frames ms, after which the handler waits at next.  A
\* send to a client that has gone is lost; the socket may take it all the same,
\* or fail, and then the handler goes to broken.
Send(c, ms, next, broken) ==
    IF gone[c]
    THEN /\ UNCHANGED inbox
         /\ \E h \in {next, broken} : handler' = [handler EXCEPT ![c] = h]
    ELSE /\ inbox' = [inbox EXCEPT ![c] = @ \o ms]
         /\ handler' = [handler EXCEPT ![c] = next]

-----------------------------------------------------------------------------
(***************************************************************************)
(* handle_socket.                                                          *)
(***************************************************************************)

\* The loop gets a frame.
ReadFrame(c) ==
    /\ handler[c] = "read"
    /\ ~ended[c]
    /\ frames[c] < MaxFrames
    /\ frames' = [frames EXCEPT ![c] = @ + 1]
    /\ UNCHANGED <<gone, ended, overlapped, channel, reply>>
    /\ UNCHANGED workerVars

\* A valid handshake is acknowledged; only then does JSON-RPC begin.
ReadHandshake(c) ==
    /\ handler[c] = "read"
    /\ ~ended[c]
    /\ ~shaken[c]
    /\ Send(c, <<Ack>>, "read", "closed")
    /\ shaken' = [shaken EXCEPT ![c] = handler'[c] = "read"]
    /\ UNCHANGED <<gone, ended, frames, asked, overlapped, current, channel, reply>>
    /\ UNCHANGED workerVars

\* Before the handshake: any other text frame.  After it: a text frame that is
\* no JSON-RPC request.  Always: a binary frame.  The id of the error is null.
ReadInvalid(c) ==
    /\ Chatter
    /\ ReadFrame(c)
    /\ Send(c, <<NullError>>, "read", "closed")
    /\ UNCHANGED <<shaken, asked, current>>

\* handle_text_frame answers reshape.ping, unknown methods and bad params itself.
ReadImmediate(c, body) ==
    /\ Chatter
    /\ ReadFrame(c)
    /\ shaken[c]
    /\ asked' = [asked EXCEPT ![c] = @ \cup {Request(frames'[c], body.status)}]
    /\ Send(c, <<Response(frames'[c], body)>>, "read", "closed")
    /\ UNCHANGED <<shaken, current>>

\* The other methods become an agent request for the worker.
ReadAgentRequest(c, kind) ==
    /\ ReadFrame(c)
    /\ shaken[c]
    /\ asked' = [asked EXCEPT ![c] = @ \cup {Request(frames'[c], kind)}]
    /\ current' = [current EXCEPT ![c] = Request(frames'[c], kind)]
    /\ handler' = [handler EXCEPT ![c] = "submit"]
    /\ UNCHANGED <<shaken, inbox>>

\* A stream error is reported, if it still can be; the stream is over.
ReadError(c) ==
    /\ handler[c] = "read"
    /\ gone[c]
    /\ ~ended[c]
    /\ ended' = [ended EXCEPT ![c] = TRUE]
    /\ Send(c, <<NullError>>, "read", "closed")
    /\ UNCHANGED <<gone, shaken, frames, asked, overlapped, current, channel, reply>>
    /\ UNCHANGED workerVars

\* A close frame or the end of the stream ends the task.
ReadEnd(c) ==
    /\ handler[c] = "read"
    /\ gone[c]
    /\ ended' = [ended EXCEPT ![c] = TRUE]
    /\ handler' = [handler EXCEPT ![c] = "closed"]
    /\ UNCHANGED <<gone, shaken, frames, asked, overlapped, current, channel,
                   reply, inbox>>
    /\ UNCHANGED workerVars

-----------------------------------------------------------------------------
(***************************************************************************)
(* handle_text_frame, once there is an agent request.                      *)
(***************************************************************************)

\* Mutant: the response channel is kept for the next request.
KeepReplyChannel(c) ==
    /\ current' = [current EXCEPT ![c] = NoRequest]
    /\ channel' = [channel EXCEPT ![c] = <<>>]
    /\ UNCHANGED reply

\* The request is over for the handler: its channels are dropped.
DropChannels(c) ==
    /\ current' = [current EXCEPT ![c] = NoRequest]
    /\ channel' = [channel EXCEPT ![c] = <<>>]
    /\ reply' = [reply EXCEPT ![c] = NoReply]

\* There is room in the queue.
Submit(c) ==
    /\ handler[c] = "submit"
    /\ worker # "dead"
    /\ Len(queue) < QueueCapacity
    /\ queue' = Append(queue, Job(c, current[c].id, current[c].kind))
    /\ handler' = [handler EXCEPT ![c] =
                      IF current[c].kind = "input" THEN "stream" ELSE "await"]
    /\ UNCHANGED connVars
    /\ UNCHANGED <<current, channel, reply, inbox, worker, job, emitted,
                   recorded, resets>>

\* The worker is gone and the queue closed: "agent worker is not available".
SubmitUnavailable(c) ==
    /\ handler[c] = "submit"
    /\ worker = "dead"
    /\ Send(c, <<Response(current[c].id, Failure)>>, "read", "closed")
    /\ DropChannels(c)
    /\ UNCHANGED connVars
    /\ UNCHANGED workerVars

\* Mutant: a worker that died is waited for.
AnsweredByWorker(c) == reply[c] # NoReply

\* The oneshot channel yields a value, or an error if its sender is gone.
Answered(c) == reply[c] # NoReply \/ worker = "dead"
Answer(c) == IF reply[c] = NoReply THEN Failure ELSE reply[c]

\* Mutant: an error of the channel ends the request without a response.
AwaitReplySilent(c) ==
    /\ handler[c] = "await"
    /\ Answered(c)
    /\ IF reply[c] = NoReply
       THEN Send(c, <<>>, "read", "closed")
       ELSE Send(c, <<Response(current[c].id, Answer(c))>>, "read", "closed")
    /\ DropChannels(c)
    /\ UNCHANGED connVars
    /\ UNCHANGED workerVars

\* response_rx.await of a history or reset request.
AwaitReply(c) ==
    /\ handler[c] = "await"
    /\ Answered(c)
    /\ Send(c, <<Response(current[c].id, Answer(c))>>, "read", "closed")
    /\ DropChannels(c)
    /\ UNCHANGED connVars
    /\ UNCHANGED workerVars

\* select!, first branch: forward a progress event.
StreamProgress(c) ==
    /\ handler[c] = "stream"
    /\ channel[c] # <<>>
    /\ Send(c, <<Progress(current[c].id, Head(channel[c]))>>, "stream", "read")
    /\ IF handler'[c] = "stream"
       THEN /\ channel' = [channel EXCEPT ![c] = Tail(@)]
            /\ UNCHANGED <<current, reply>>
       ELSE DropChannels(c)
    /\ UNCHANGED connVars
    /\ UNCHANGED workerVars

\* select!, second branch: a text or binary frame during the turn is logged
\* and dropped.  It may have been a request.
StreamOverlap(c) ==
    /\ handler[c] = "stream"
    /\ ~ended[c]
    /\ frames[c] < MaxFrames
    /\ frames' = [frames EXCEPT ![c] = @ + 1]
    /\ \/ /\ asked' = [asked EXCEPT ![c] = @ \cup {Request(frames'[c], "input")}]
          /\ overlapped' = [overlapped EXCEPT ![c] = @ \cup {Request(frames'[c], "input")}]
       \/ UNCHANGED <<asked, overlapped>>
    /\ UNCHANGED <<handler, gone, ended, shaken, current, channel, reply, inbox>>
    /\ UNCHANGED workerVars

\* Mutant: the end of the connection is not noticed during a turn.
StreamEndIgnored(c) ==
    /\ handler[c] = "stream"
    /\ gone[c]
    /\ ended' = [ended EXCEPT ![c] = TRUE]
    /\ UNCHANGED <<handler, gone, shaken, frames, asked, overlapped, current,
                   channel, reply, inbox>>
    /\ UNCHANGED workerVars

\* select!, second branch: the connection closes; the request is abandoned.
StreamEnd(c) ==
    /\ handler[c] = "stream"
    /\ gone[c]
    /\ ended' = [ended EXCEPT ![c] = TRUE]
    /\ handler' = [handler EXCEPT ![c] = "read"]
    /\ DropChannels(c)
    /\ UNCHANGED <<gone, shaken, frames, asked, overlapped, inbox>>
    /\ UNCHANGED workerVars

\* select!, third branch: the turn is over; what is left in the progress
\* channel is forwarded first, then the response.
StreamReply(c) ==
    /\ handler[c] = "stream"
    /\ Answered(c)
    /\ LET rest == [i \in DOMAIN channel[c] |-> Progress(current[c].id, channel[c][i])]
       IN  \/ Send(c, Append(rest, Response(current[c].id, Answer(c))), "read", "closed")
           \/ rest # <<>> /\ gone[c] /\ Send(c, <<>>, "read", "read")
    /\ DropChannels(c)
    /\ UNCHANGED connVars
    /\ UNCHANGED workerVars

-----------------------------------------------------------------------------
(***************************************************************************)
(* run_agent_worker.                                                       *)
(***************************************************************************)

handlerVars == <<handler, gone, ended, shaken, frames, asked, overlapped,
                 current, inbox>>

\* response_tx.send: lost when the handler has dropped its end.
Respond(body) ==
    /\ reply' = IF Wanted(job) THEN [reply EXCEPT ![job.client] = body] ELSE reply
    /\ worker' = "idle"
    /\ job' = NoJob
    /\ emitted' = 0

\* agent_rx.recv()
Take ==
    /\ worker = "idle"
    /\ queue # <<>>
    /\ job' = Head(queue)
    /\ queue' = Tail(queue)
    /\ worker' = Head(queue).kind
    /\ UNCHANGED handlerVars
    /\ UNCHANGED <<channel, reply, emitted, recorded, resets>>

\* runtime.session(): the stored history, or an error of the store.  It is
\* not cancelled when the client goes.
RunHistory ==
    /\ worker = "history"
    /\ \E body \in {History, Failure} : Respond(body)
    /\ UNCHANGED handlerVars
    /\ UNCHANGED <<channel, queue, recorded, resets>>

\* runtime.reset_session(): likewise.
RunReset ==
    /\ worker = "reset"
    /\ \/ /\ recorded' = <<>>
          /\ resets' = resets + 1
          /\ Respond([status |-> "history", turns |-> <<>>, resets |-> resets + 1])
       \/ /\ UNCHANGED <<recorded, resets>>
          /\ Respond(Failure)
    /\ UNCHANGED handlerVars
    /\ UNCHANGED <<channel, queue>>

\* The turn reports progress: to its own list and, if anyone listens, to the
\* channel.
EmitProgress ==
    /\ worker = "input"
    /\ emitted < MaxEvents
    /\ emitted' = emitted + 1
    /\ channel' = IF Wanted(job)
                  THEN [channel EXCEPT ![job.client] = Append(@, emitted')]
                  ELSE channel
    /\ UNCHANGED handlerVars
    /\ UNCHANGED <<reply, queue, worker, job, recorded, resets>>

\* The turn ends well: the session is saved with it.  What is left are the
\* changed files and the browser preview, which take time but change nothing
\* here.
CommitTurn ==
    /\ worker = "input"
    /\ recorded' = Append(recorded, <<job.client, job.id>>)
    /\ worker' = "publish"
    /\ UNCHANGED handlerVars
    /\ UNCHANGED <<channel, reply, queue, job, emitted, resets>>

\* Mutant: the answer is sent before the turn is recorded.
PublishTurnUnrecorded ==
    /\ worker \in {"input", "publish"}
    /\ Respond(Output)
    /\ UNCHANGED handlerVars
    /\ UNCHANGED <<channel, queue, recorded, resets>>

\* The response of a turn that ended well, with its events in toolEvents.
PublishTurn ==
    /\ worker = "publish"
    /\ Respond(Output)
    /\ UNCHANGED handlerVars
    /\ UNCHANGED <<channel, queue, recorded, resets>>

\* The turn ends with an error.
FailTurn ==
    /\ worker = "input"
    /\ Respond(Failure)
    /\ UNCHANGED handlerVars
    /\ UNCHANGED <<channel, queue, recorded, resets>>

\* response_tx.closed(): the handler has abandoned the request, the turn is
\* dropped wherever it is.
CancelTurn ==
    /\ worker \in {"input", "publish"}
    /\ ~Wanted(job)
    /\ worker' = "idle"
    /\ job' = NoJob
    /\ emitted' = 0
    /\ UNCHANGED handlerVars
    /\ UNCHANGED <<channel, reply, queue, recorded, resets>>

\* The worker's task panics.  It takes the queue's receiving end with it.
Die ==
    /\ worker # "dead"
    /\ worker' = "dead"
    /\ job' = NoJob
    /\ queue' = <<>>
    /\ emitted' = 0
    /\ UNCHANGED handlerVars
    /\ UNCHANGED <<channel, reply, recorded, resets>>

-----------------------------------------------------------------------------

Read(c) ==
    \/ ReadHandshake(c)
    \/ ReadInvalid(c)
    \/ \E body \in {Pong, Failure} : ReadImmediate(c, body)
    \/ \E kind \in JobKinds : ReadAgentRequest(c, kind)

\* What a handler does on its own, without another frame from the client.
Handle(c) ==
    \/ ReadError(c) \/ ReadEnd(c)
    \/ SubmitUnavailable(c)
    \/ AwaitReply(c)
    \/ StreamProgress(c) \/ StreamEnd(c) \/ StreamReply(c)

Work ==
    \/ Take \/ RunHistory \/ RunReset
    \/ EmitProgress \/ CommitTurn \/ PublishTurn \/ FailTurn \/ CancelTurn

Next ==
    \/ \E c \in Clients :
          Leave(c) \/ Read(c) \/ StreamOverlap(c) \/ Submit(c) \/ Handle(c)
    \/ Work
    \/ Die

Spec == Init /\ [][Next]_vars

\* Tasks keep running; the queue's send is first come, first served, so a
\* handler is not passed over for ever (SF); a turn ends (module AgentTurn).
FairSpec ==
    /\ Spec
    /\ WF_vars(Work)
    /\ \A c \in Clients : WF_vars(Handle(c)) /\ SF_vars(Submit(c))

\* Nothing is assumed of the turn: the model may take as long as it likes.
FairHandlerSpec ==
    /\ Spec
    /\ WF_vars(CancelTurn)
    /\ \A c \in Clients : WF_vars(StreamEnd(c))

-----------------------------------------------------------------------------
(***************************************************************************)
(* Properties.                                                             *)
(***************************************************************************)

Bodies ==
    {Pong, Failure}
    \cup [status : {"history"}, turns : Seq(Clients \X Nat), resets : Nat]
    \cup [status : {"output"}, events : Nat, resets : Nat]

Frames ==
    {Ack, NullError}
    \cup [type : {"progress"}, id : Nat, n : Nat]
    \cup [type : {"response"}, id : Nat, body : Bodies]

Requests == [id : Nat, kind : JobKinds \cup {"pong", "failure"}]
Jobs == [client : Clients, id : Nat, kind : JobKinds]

\* Types of the tasks' state; the queue of agent requests keeps its capacity.
TypeOK ==
    /\ handler \in [Clients -> {"read", "submit", "await", "stream", "closed"}]
    /\ gone \in [Clients -> BOOLEAN]
    /\ ended \in [Clients -> BOOLEAN]
    /\ shaken \in [Clients -> BOOLEAN]
    /\ frames \in [Clients -> Nat]
    /\ asked \in [Clients -> SUBSET Requests]
    /\ overlapped \in [Clients -> SUBSET Requests]
    /\ current \in [Clients -> Requests \cup {NoRequest}]
    /\ channel \in [Clients -> Seq(Nat)]
    /\ reply \in [Clients -> Bodies \cup {NoReply}]
    /\ inbox \in [Clients -> Seq(Frames)]
    /\ queue \in Seq(Jobs)
    /\ Len(queue) <= QueueCapacity
    /\ worker \in JobKinds \cup {"idle", "publish", "dead"}
    /\ job \in Jobs \cup {NoJob}
    /\ emitted \in Nat
    /\ recorded \in Seq(Clients \X Nat)
    /\ resets \in Nat

IsResponse(m) == m.type = "response"
ResponseIds(c) == {inbox[c][i].id : i \in {i \in DOMAIN inbox[c] : IsResponse(inbox[c][i])}}

\* What a request of that kind may be answered with.
Fits(kind, body) ==
    \/ body = Failure
    \/ kind = "pong" /\ body = Pong
    \/ kind = "history" /\ body.status = "history"
    \/ kind = "reset" /\ body.status = "history" /\ body.turns = <<>>
    \/ kind = "input" /\ body.status = "output"

(***************************************************************************)
(* Responses come in the order of the requests, at most one for each, and   *)
(* answer what was asked: the branches for an "unexpected output response"  *)
(* and an "unexpected history response" are never taken, and no reply is    *)
(* left over for the next request of the connection.                        *)
(***************************************************************************)
ResponsesMatchRequests ==
    \A c \in Clients : \A i \in DOMAIN inbox[c] : IsResponse(inbox[c][i]) =>
        /\ \E r \in asked[c] : r.id = inbox[c][i].id /\ Fits(r.kind, inbox[c][i].body)
        /\ \A j \in 1 .. i - 1 : IsResponse(inbox[c][j]) => inbox[c][j].id < inbox[c][i].id

(***************************************************************************)
(* A client that stays gets an answer to everything it asked, except to the *)
(* frames it sent while one of its own turns was running.                   *)
(***************************************************************************)
AnsweredUnlessOverlapping ==
    \A c \in Clients : handler[c] = "read" /\ ~gone[c] =>
        ResponseIds(c) = {r.id : r \in asked[c] \ overlapped[c]}

(***************************************************************************)
(* The notifications of a turn form one block right before its response,    *)
(* numbered from 1 without a gap; a successful response follows as many of  *)
(* them as its toolEvents lists, however the select! loop raced the worker. *)
(***************************************************************************)
ProgressPrecedesResponse ==
    \A c \in Clients : \A i \in DOMAIN inbox[c] :
        /\ inbox[c][i].type = "progress" =>
              /\ inbox[c][i].n > 1 => inbox[c][i - 1] = Progress(inbox[c][i].id, inbox[c][i].n - 1)
              /\ i < Len(inbox[c]) =>
                    /\ inbox[c][i + 1].type \in {"progress", "response"}
                    /\ inbox[c][i + 1].id = inbox[c][i].id
        /\ (IsResponse(inbox[c][i]) /\ inbox[c][i].body.status = "output") =>
              inbox[c][i].body.events =
                 Cardinality({k \in 1 .. i - 1 : /\ inbox[c][k].type = "progress"
                                                 /\ inbox[c][k].id = inbox[c][i].id})

(***************************************************************************)
(* Nothing but errors goes to a client before the handshake ack, and no     *)
(* agent request of it is queued or run before it.                          *)
(***************************************************************************)
NothingBeforeHandshake ==
    \A c \in Clients : ~shaken[c] =>
        /\ \A i \in DOMAIN inbox[c] : inbox[c][i] \in {NullError, Ack}
        /\ \A i \in DOMAIN queue : queue[i].client # c
        /\ job # NoJob => job.client # c

(***************************************************************************)
(* What is written to a connection is in order: errors and one ack before   *)
(* the handshake, then for each request its notifications, without a gap,   *)
(* and its response, of the kind that was asked for, however the select!    *)
(* loop, the worker and the client interleave.                              *)
(***************************************************************************)
WrittenInOrder ==
    /\ TypeOK
    /\ ResponsesMatchRequests
    /\ ProgressPrecedesResponse
    /\ NothingBeforeHandshake

(***************************************************************************)
(* A client reads its own turns: a history it gets after the answer to one  *)
(* of its turns contains that turn, unless the session was reset between    *)
(* the two.                                                                 *)
(***************************************************************************)
HistoryShowsAnsweredTurns ==
    \A c \in Clients : \A i, j \in DOMAIN inbox[c] :
        (/\ i < j
         /\ IsResponse(inbox[c][i]) /\ inbox[c][i].body.status = "output"
         /\ IsResponse(inbox[c][j]) /\ inbox[c][j].body.status = "history"
         /\ inbox[c][i].body.resets = inbox[c][j].body.resets)
        => <<c, inbox[c][i].id>> \in ToSet(inbox[c][j].body.turns)

(***************************************************************************)
(* docs/design/jsonrpc-websocket-protocol.md: "One `reshape.input` request  *)
(* produces one JSON-RPC response."  A request that arrives during another  *)
(* turn of the same connection produces none.                               *)
(***************************************************************************)
EveryRequestAnswered ==
    \A c \in Clients : handler[c] = "read" /\ ~gone[c] =>
        ResponseIds(c) = {r.id : r \in asked[c]}

(***************************************************************************)
(* Every agent request releases its handler in the end, whether the queue   *)
(* is full, the worker dies or other clients abandon their turns.           *)
(***************************************************************************)
RequestsEnd ==
    \A c \in Clients :
        handler[c] \in {"submit", "await", "stream"} ~> handler[c] \in {"read", "closed"}

(***************************************************************************)
(* A turn whose client leaves does not keep the worker from the other       *)
(* clients, even if the model never answers: the handler notices, drops the *)
(* response channel, and the worker drops the turn.                         *)
(***************************************************************************)
AbandonedTurnCancelled ==
    \A c \in Clients :
        (worker = "input" /\ job.client = c /\ gone[c]) ~>
            ~(worker = "input" /\ job.client = c)
=============================================================================

--------------------------- MODULE RpcServerProofs ---------------------------
(***************************************************************************)
(* Theorems about RpcServer, for any set of connections, any capacity of    *)
(* the queue and any number of frames and progress events.                  *)
(***************************************************************************)
EXTENDS RpcServer, TLAPS, SequenceTheorems, FiniteSetTheorems

(***************************************************************************)
(* The inductive invariant.  Its parts are operators on the state of one    *)
(* connection, so that a step of another connection leaves them alone.      *)
(***************************************************************************)

Requesting == {"submit", "await", "stream"}

\* The agent requests that are queued or taken by the worker.
Outstanding == ToSet(queue) \cup {j \in {job} : j # NoJob}

\* Job j is that of request r of connection c.
IsJobOf(j, c, r) == j.client = c /\ j.id = r.id

\* A connection in state h has read n frames: its requests as have different
\* ids, and the one it waits for, cur, is one of them and not an overlapping one.
RequestsInv(h, cur, n, as, ov) ==
    /\ \A r \in as : r.id \in 1 .. n
    /\ \A r, s \in as : r.id = s.id => r = s
    /\ ov \subseteq as
    /\ h \in {"read", "closed"} => cur = NoRequest
    /\ h \in Requesting => cur \in as \ ov /\ cur.kind \in JobKinds
    /\ h = "await" => cur.kind # "input"
    /\ h = "stream" => cur.kind = "input"

\* Job j, if it is one of connection c, is for a request that was asked, and
\* not for the one the connection is about to submit.
JobInv(c, h, cur, as, j) ==
    j.client = c =>
        /\ Request(j.id, j.kind) \in as
        /\ h = "submit" => j.id # cur.id

\* A reply waits only for the request it fits, and its job is done.
ReplyInv(c, h, cur, rep, js) ==
    rep # NoReply =>
        /\ h \in {"await", "stream"}
        /\ Fits(cur.kind, rep)
        /\ \A j \in js : ~IsJobOf(j, c, cur)

\* The frames b a client has been sent: responses in order, to what was asked.
OrderInv(b, as) ==
    \A i \in DOMAIN b : IsResponse(b[i]) =>
        /\ \E r \in as : r.id = b[i].id /\ Fits(r.kind, b[i].body)
        /\ \A k \in 1 .. i - 1 : IsResponse(b[k]) => b[k].id < b[i].id

\* In b each notification follows the one before it and is followed by the
\* next or by the response.
BlocksInv(b) ==
    \A i \in DOMAIN b : b[i].type = "progress" =>
        /\ b[i].n > 1 => i > 1 /\ b[i - 1] = Progress(b[i].id, b[i].n - 1)
        /\ i < Len(b) => b[i + 1].type \in {"progress", "response"} /\ b[i + 1].id = b[i].id

\* The notifications for request id among the first n frames of b.
Notified(b, n, id) == {k \in 1 .. n : b[k].type = "progress" /\ b[k].id = id}

\* In b a successful response to an input counts its notifications.
CountsInv(b) ==
    \A i \in DOMAIN b : (IsResponse(b[i]) /\ b[i].body.status = "output") =>
        b[i].body.events = Cardinality(Notified(b, i - 1, b[i].id))

\* What the frames sent so far satisfy, for a client that asked as.
BoxInv(b, as) == OrderInv(b, as) /\ BlocksInv(b) /\ CountsInv(b)

\* b ends with the first p notifications of request id, and these are all.
EndsInBlock(b, id, p) ==
    /\ p \in 0 .. Len(b)
    /\ \A k \in 1 .. p : b[Len(b) - p + k] = Progress(id, k)
    /\ \A k \in 1 .. Len(b) - p : b[k].type = "progress" => b[k].id # id
    /\ p < Len(b) => b[Len(b) - p].type # "progress"

LastIsPlain(b) == b # <<>> => b[Len(b)].type # "progress"

\* Ids in b are those of frames read, and below that of a request under way.
IdsInv(h, cur, n, b) ==
    \A k \in DOMAIN b :
        /\ b[k].type \in {"progress", "response"} => b[k].id \in 1 .. n
        /\ h \in {"submit", "await"} /\ b[k].type \in {"progress", "response"} => b[k].id < cur.id
        /\ h = "stream" /\ b[k].type = "response" => b[k].id < cur.id

\* The ids of the frames in b are those of the first n frames read.
IdsUpTo(b, n) ==
    \A k \in DOMAIN b : b[k].type \in {"progress", "response"} => b[k].id \in 1 .. n

\* The requests answered in b came before request id.
AnsweredBelow(b, id) == \A k \in DOMAIN b : IsResponse(b[k]) => b[k].id < id

\* ms are the notifications of request id after its first p.
AreNotes(ms, id, p) == \A k \in 1 .. Len(ms) : ms[k] = Progress(id, p + k)

\* What the worker has reported of job j: something only if it runs it.
Reported(j, running, e) == IF j = running THEN e ELSE 0

\* While a turn is streamed to a client that stays, what it was sent, what is
\* in the channel and what the turn has reported fit together.
StreamInv(c, h, g, cur, ch, rep, b, js, running, e) ==
    /\ h # "stream" => ch = <<>>
    /\ ~g => h # "closed"
    /\ ~g /\ h # "stream" => LastIsPlain(b)
    /\ ~g /\ h = "stream" =>
          \E p \in 0 .. Len(b) :
              /\ EndsInBlock(b, cur.id, p)
              /\ \A i \in DOMAIN ch : ch[i] = p + i
              /\ \A j \in js : IsJobOf(j, c, cur) => Reported(j, running, e) = p + Len(ch)
              /\ rep.status = "output" => rep.events = p + Len(ch)

\* Before the handshake there is no request and nothing but errors and an ack.
ShakenInv(h, sh, as, b) ==
    ~sh => /\ h \in {"read", "closed"}
           /\ as = {}
           /\ \A i \in DOMAIN b : b[i] \in {NullError, Ack}

ResponseIdsOf(b) == {b[i].id : i \in {i \in DOMAIN b : IsResponse(b[i])}}

\* A client that stays has an answer to all but the request under way and the
\* overlapping ones.
AnsweredInv(h, g, cur, as, ov, b) ==
    ~g => ResponseIdsOf(b) = {r.id : r \in as \ ov} \
                             (IF h \in Requesting THEN {cur.id} ELSE {})

\* What the worker does, it does for the job it has taken.
WorkerInv ==
    /\ worker \in {"idle", "dead"} <=> job = NoJob
    /\ worker \in JobKinds => job.kind = worker
    /\ worker = "publish" => job.kind = "input"
    /\ worker \notin {"input", "publish"} => emitted = 0
    /\ worker = "dead" => queue = <<>>

\* No two jobs are for the same request.
QueueInv ==
    /\ \A i, k \in DOMAIN queue :
          queue[i].client = queue[k].client /\ queue[i].id = queue[k].id => i = k
    /\ \A i \in DOMAIN queue :
          job # NoJob => ~(queue[i].client = job.client /\ queue[i].id = job.id)

ClientInv(c) ==
    /\ RequestsInv(handler[c], current[c], frames[c], asked[c], overlapped[c])
    /\ \A j \in Outstanding : JobInv(c, handler[c], current[c], asked[c], j)
    /\ ReplyInv(c, handler[c], current[c], reply[c], Outstanding)
    /\ BoxInv(inbox[c], asked[c])
    /\ IdsInv(handler[c], current[c], frames[c], inbox[c])
    /\ StreamInv(c, handler[c], gone[c], current[c], channel[c], reply[c],
                 inbox[c], Outstanding, job, emitted)
    /\ ShakenInv(handler[c], shaken[c], asked[c], inbox[c])
    /\ AnsweredInv(handler[c], gone[c], current[c], asked[c], overlapped[c], inbox[c])

ServerInv == QueueInv /\ \A c \in Clients : ClientInv(c)

\* A frame with the answer to a turn that ended well.
IsOutput(m) == IsResponse(m) /\ m.body.status = "output"

(***************************************************************************)
(* Type correctness.                                                       *)
(***************************************************************************)

Places == {"read", "submit", "await", "stream", "closed"}

\* The frames the server sends.
LEMMA FrameTypes ==
    /\ Ack \in Frames /\ NullError \in Frames
    /\ \A id, n \in Nat : Progress(id, n) \in Frames
    /\ \A id \in Nat, body \in Bodies : Response(id, body) \in Frames
    /\ Pong \in Bodies /\ Failure \in Bodies
BY DEF Frames, Progress, Response, Bodies

\* No request has the number of none.
LEMMA NoRequestId == NoRequest.id = 0 /\ NoRequest.kind = "none"
BY DEF NoRequest, Request

\* What each connection's variables hold.
LEMMA ClientTypes ==
    ASSUME TypeOK, NEW c \in Clients
    PROVE  /\ handler[c] \in Places /\ gone[c] \in BOOLEAN
           /\ frames[c] \in Nat /\ asked[c] \subseteq Requests
           /\ overlapped[c] \subseteq Requests
           /\ current[c] \in Requests \cup {NoRequest} /\ current[c].id \in Nat
           /\ channel[c] \in Seq(Nat) /\ reply[c] \in Bodies \cup {NoReply}
           /\ inbox[c] \in Seq(Frames)
<1>1. current[c] \in Requests \cup {NoRequest}
  BY DEF TypeOK
<1>2. current[c].id \in Nat
  BY <1>1, NoRequestId DEF Requests
<1>. QED  BY <1>1, <1>2 DEF TypeOK, Places

\* sender.send() writes frames and moves the handler.
LEMMA SendType ==
    ASSUME TypeOK, NEW c \in Clients, NEW ms \in Seq(Frames),
           NEW next \in Places, NEW broken \in Places, Send(c, ms, next, broken)
    PROVE  /\ handler' \in [Clients -> Places]
           /\ inbox' \in [Clients -> Seq(Frames)]
<1>1. handler \in [Clients -> Places] /\ inbox \in [Clients -> Seq(Frames)]
  BY DEF TypeOK, Places
<1>2. inbox[c] \o ms \in Seq(Frames)
  BY <1>1, ConcatProperties
<1>3. CASE gone[c]
  BY <1>1, <1>3 DEF Send
<1>4. CASE ~gone[c]
  BY <1>1, <1>2, <1>4 DEF Send
<1>. QED  BY <1>3, <1>4

\* What the handler answers with.
LEMMA AnswerType ==
    ASSUME TypeOK, NEW c \in Clients
    PROVE  /\ Answer(c) \in Bodies
           /\ Response(current[c].id, Answer(c)) \in Frames
<1>1. Answer(c) \in Bodies
  BY ClientTypes, FrameTypes DEF Answer
<1>. QED  BY <1>1, ClientTypes, FrameTypes

\* Dropped channels are well typed.
LEMMA DropType ==
    ASSUME TypeOK, NEW c \in Clients, DropChannels(c)
    PROVE  /\ current' \in [Clients -> Requests \cup {NoRequest}]
           /\ channel' \in [Clients -> Seq(Nat)]
           /\ reply' \in [Clients -> Bodies \cup {NoReply}]
BY DEF TypeOK, DropChannels

\* What is left in the progress channel, as frames.
LEMMA RestType ==
    ASSUME TypeOK, NEW c \in Clients
    PROVE  [i \in DOMAIN channel[c] |-> Progress(current[c].id, channel[c][i])] \in Seq(Frames)
<1>. DEFINE ch == channel[c]
            rest == [i \in DOMAIN ch |-> Progress(current[c].id, ch[i])]
<1>1. ch \in Seq(Nat) /\ current[c].id \in Nat
  BY ClientTypes
<1>. HIDE DEF ch
<1>2. Len(ch) \in Nat /\ DOMAIN ch = 1 .. Len(ch)
  BY <1>1, LenProperties
<1>3. \A i \in 1 .. Len(ch) : Progress(current[c].id, ch[i]) \in Frames
  BY <1>1, <1>2, FrameTypes
<1>4. [i \in 1 .. Len(ch) |-> Progress(current[c].id, ch[i])] \in Seq(Frames)
  BY <1>2, <1>3, IsASeq
<1>. QED  BY <1>2, <1>4 DEF ch

\* The worker's response is taken or lost.
LEMMA RespondType ==
    ASSUME TypeOK, NEW body \in Bodies, Respond(body)
    PROVE  /\ reply' \in [Clients -> Bodies \cup {NoReply}]
           /\ worker' = "idle" /\ job' = NoJob /\ emitted' = 0
BY DEF TypeOK, Respond

\* A frame that is read is counted; the rest of the connection stays.
LEMMA ReadType ==
    ASSUME TypeOK, NEW c \in Clients, ReadFrame(c)
    PROVE  frames' \in [Clients -> Nat] /\ frames'[c] = frames[c] + 1
BY DEF TypeOK, ReadFrame

\* A numbered request is a request.
LEMMA RequestType ==
    ASSUME NEW id \in Nat, NEW kind \in JobKinds \cup {"pong", "failure"}
    PROVE  Request(id, kind) \in Requests
BY DEF Request, Requests

\* The worker is idle at the start.
LEMMA InitTypeWorker == Init => TypeOK /\ WorkerInv
<1>. SUFFICES ASSUME Init PROVE TypeOK /\ WorkerInv
  OBVIOUS
<1>1. TypeOK
  BY BoundsAssumption DEF Init, TypeOK
<1>2. WorkerInv
  BY DEF Init, WorkerInv, JobKinds
<1>. QED  BY <1>1, <1>2

\* The steps of one connection keep the types.
LEMMA ClientStepType ==
    ASSUME TypeOK, WorkerInv, NEW c \in Clients, ClientInv(c),
           Leave(c) \/ Read(c) \/ StreamOverlap(c) \/ Submit(c) \/ Handle(c)
    PROVE  TypeOK' /\ WorkerInv'
<1>. USE ClientTypes, FrameTypes
<1>0. /\ {"read", "submit", "await", "stream", "closed"} = Places
      /\ "read" \in Places /\ "closed" \in Places /\ "stream" \in Places
      /\ "submit" \in Places /\ "await" \in Places
  BY DEF Places
<1>a. <<Ack>> \in Seq(Frames) /\ <<NullError>> \in Seq(Frames)
  OBVIOUS
<1>1. CASE Leave(c)
  BY <1>1 DEF Leave, workerVars, TypeOK, WorkerInv
<1>2. CASE ReadHandshake(c)
  <2>1. handler' \in [Clients -> Places] /\ inbox' \in [Clients -> Seq(Frames)]
    BY <1>0, <1>a, <1>2, SendType DEF ReadHandshake
  <2>2. shaken' \in [Clients -> BOOLEAN]
    BY <1>2 DEF ReadHandshake, TypeOK
  <2>. QED  BY <1>0, <1>2, <2>1, <2>2 DEF ReadHandshake, workerVars, TypeOK, WorkerInv
<1>3. CASE ReadInvalid(c)
  <2>1. handler' \in [Clients -> Places] /\ inbox' \in [Clients -> Seq(Frames)]
    BY <1>0, <1>a, <1>3, SendType DEF ReadInvalid
  <2>2. frames' \in [Clients -> Nat]
    BY <1>3, ReadType DEF ReadInvalid
  <2>. QED
    BY <1>0, <1>3, <2>1, <2>2 DEF ReadInvalid, ReadFrame, workerVars, TypeOK, WorkerInv
<1>4. ASSUME NEW body \in {Pong, Failure}, ReadImmediate(c, body)
      PROVE  TypeOK' /\ WorkerInv'
  <2>1. frames' \in [Clients -> Nat] /\ frames'[c] \in Nat
    BY <1>4, ReadType DEF ReadImmediate
  <2>2. body \in Bodies /\ body.status \in {"pong", "failure"}
    BY <1>4 DEF Pong, Failure
  <2>3. <<Response(frames'[c], body)>> \in Seq(Frames)
    BY <2>1, <2>2
  <2>4. handler' \in [Clients -> Places] /\ inbox' \in [Clients -> Seq(Frames)]
    BY <1>0, <1>4, <2>3, SendType DEF ReadImmediate
  <2>5. Request(frames'[c], body.status) \in Requests
    BY <2>1, <2>2, RequestType
  <2>6. asked' \in [Clients -> SUBSET Requests]
    BY <1>4, <2>5 DEF ReadImmediate, TypeOK
  <2>. QED
    BY <1>0, <1>4, <2>1, <2>4, <2>6 DEF ReadImmediate, ReadFrame, workerVars, TypeOK, WorkerInv
<1>5. ASSUME NEW kind \in JobKinds, ReadAgentRequest(c, kind)
      PROVE  TypeOK' /\ WorkerInv'
  <2>1. frames' \in [Clients -> Nat] /\ frames'[c] \in Nat
    BY <1>5, ReadType DEF ReadAgentRequest
  <2>2. Request(frames'[c], kind) \in Requests
    BY <2>1, RequestType
  <2>3. /\ asked' \in [Clients -> SUBSET Requests]
        /\ current' \in [Clients -> Requests \cup {NoRequest}]
        /\ handler' \in [Clients -> Places]
    BY <1>0, <1>5, <2>2 DEF ReadAgentRequest, TypeOK
  <2>. QED
    BY <1>0, <1>5, <2>1, <2>3 DEF ReadAgentRequest, ReadFrame, workerVars, TypeOK, WorkerInv
<1>6. CASE ReadError(c)
  <2>1. handler' \in [Clients -> Places] /\ inbox' \in [Clients -> Seq(Frames)]
    BY <1>0, <1>a, <1>6, SendType DEF ReadError
  <2>. QED  BY <1>0, <1>6, <2>1 DEF ReadError, workerVars, TypeOK, WorkerInv
<1>7. CASE ReadEnd(c)
  BY <1>7 DEF ReadEnd, workerVars, TypeOK, WorkerInv
<1>8. CASE StreamOverlap(c)
  <2>1. frames' \in [Clients -> Nat] /\ frames'[c] \in Nat
    BY <1>8 DEF StreamOverlap, TypeOK
  <2>2. Request(frames'[c], "input") \in Requests
    BY <2>1, RequestType DEF JobKinds
  <2>3. asked' \in [Clients -> SUBSET Requests] /\ overlapped' \in [Clients -> SUBSET Requests]
    <3>1. CASE UNCHANGED <<asked, overlapped>>
      BY <3>1 DEF TypeOK
    <3>2. CASE ~UNCHANGED <<asked, overlapped>>
      <4>. DEFINE r == Request(frames'[c], "input")
      <4>1. /\ asked' = [asked EXCEPT ![c] = @ \cup {r}]
            /\ overlapped' = [overlapped EXCEPT ![c] = @ \cup {r}]
        BY <1>8, <3>2 DEF StreamOverlap
      <4>. HIDE DEF r
      <4>2. r \in Requests
        BY <2>2 DEF r
      <4>. QED  BY <4>1, <4>2 DEF TypeOK
    <3>. QED  BY <3>1, <3>2
  <2>. QED  BY <1>8, <2>1, <2>3 DEF StreamOverlap, workerVars, TypeOK, WorkerInv
<1>9. CASE Submit(c)
  <2>. DEFINE j == Job(c, current[c].id, current[c].kind)
  <2>1. /\ queue \in Seq(Jobs) /\ Len(queue) < QueueCapacity /\ worker # "dead"
        /\ queue' = Append(queue, j)
    BY <1>9 DEF Submit, TypeOK
  <2>2. current[c].kind \in JobKinds
    BY <1>9 DEF Submit, ClientInv, RequestsInv, Requesting
  <2>3. j \in Jobs
    BY <2>2 DEF Job, Jobs
  <2>4. queue' \in Seq(Jobs) /\ Len(queue') <= QueueCapacity
    BY <2>1, <2>3, BoundsAssumption, AppendProperties
  <2>5. handler' \in [Clients -> Places]
    BY <1>0, <1>9 DEF Submit, TypeOK
  <2>. QED
    BY <1>0, <1>9, <2>1, <2>4, <2>5 DEF Submit, connVars, TypeOK, WorkerInv
<1>10. CASE SubmitUnavailable(c)
  <2>1. <<Response(current[c].id, Failure)>> \in Seq(Frames)
    OBVIOUS
  <2>2. handler' \in [Clients -> Places] /\ inbox' \in [Clients -> Seq(Frames)]
    BY <1>0, <1>10, <2>1, SendType DEF SubmitUnavailable
  <2>3. DropChannels(c)
    BY <1>10 DEF SubmitUnavailable
  <2>. QED
    BY <1>0, <1>10, <2>2, <2>3, DropType DEF SubmitUnavailable, connVars, workerVars, TypeOK, WorkerInv
<1>11. CASE AwaitReply(c)
  <2>1. <<Response(current[c].id, Answer(c))>> \in Seq(Frames)
    BY AnswerType
  <2>2. handler' \in [Clients -> Places] /\ inbox' \in [Clients -> Seq(Frames)]
    BY <1>0, <1>11, <2>1, SendType DEF AwaitReply
  <2>3. DropChannels(c)
    BY <1>11 DEF AwaitReply
  <2>. QED
    BY <1>0, <1>11, <2>2, <2>3, DropType DEF AwaitReply, connVars, workerVars, TypeOK, WorkerInv
<1>12. CASE StreamProgress(c)
  <2>. DEFINE ch == channel[c]
  <2>1. Head(ch) \in Nat /\ Tail(ch) \in Seq(Nat)
    BY <1>12, HeadTailProperties DEF StreamProgress
  <2>2. <<Progress(current[c].id, Head(ch))>> \in Seq(Frames)
    BY <2>1
  <2>3. handler' \in [Clients -> Places] /\ inbox' \in [Clients -> Seq(Frames)]
    BY <1>0, <1>12, <2>2, SendType DEF StreamProgress
  <2>4. /\ current' \in [Clients -> Requests \cup {NoRequest}]
        /\ channel' \in [Clients -> Seq(Nat)]
        /\ reply' \in [Clients -> Bodies \cup {NoReply}]
    <3>1. CASE handler'[c] = "stream"
      BY <1>12, <2>1, <3>1 DEF StreamProgress, TypeOK
    <3>2. CASE handler'[c] # "stream"
      BY <1>12, <3>2, DropType DEF StreamProgress
    <3>. QED  BY <3>1, <3>2
  <2>. QED
    BY <1>0, <1>12, <2>3, <2>4 DEF StreamProgress, connVars, workerVars, TypeOK, WorkerInv
<1>13. CASE StreamEnd(c)
  <2>1. DropChannels(c)
    BY <1>13 DEF StreamEnd
  <2>. QED
    BY <1>13, <2>1, DropType DEF StreamEnd, workerVars, TypeOK, WorkerInv
<1>14. CASE StreamReply(c)
  <2>. DEFINE rest == [i \in DOMAIN channel[c] |-> Progress(current[c].id, channel[c][i])]
              ms == Append(rest, Response(current[c].id, Answer(c)))
  <2>1. rest \in Seq(Frames)
    BY RestType
  <2>. HIDE DEF rest
  <2>2. ms \in Seq(Frames) /\ <<>> \in Seq(Frames)
    BY <2>1, AnswerType, AppendProperties
  <2>3. Send(c, ms, "read", "closed") \/ Send(c, <<>>, "read", "read")
    BY <1>14 DEF StreamReply, rest
  <2>4. handler' \in [Clients -> Places] /\ inbox' \in [Clients -> Seq(Frames)]
    BY <1>0, <2>2, <2>3, SendType
  <2>5. DropChannels(c)
    BY <1>14 DEF StreamReply
  <2>. QED
    BY <1>0, <1>14, <2>4, <2>5, DropType DEF StreamReply, connVars, workerVars, TypeOK, WorkerInv
<1>. QED
  BY <1>1, <1>2, <1>3, <1>4, <1>5, <1>6, <1>7, <1>8, <1>9, <1>10, <1>11, <1>12,
     <1>13, <1>14 DEF Read, Handle

\* The steps of the worker keep the types.
LEMMA WorkerStepType ==
    ASSUME TypeOK, WorkerInv, Work \/ Die
    PROVE  TypeOK' /\ WorkerInv'
<1>. USE DEF WorkerInv
<1>0. /\ "idle" \notin JobKinds /\ "dead" \notin JobKinds /\ "publish" \notin JobKinds
      /\ NoJob.kind \notin JobKinds
  BY DEF JobKinds, NoJob
<1>1. CASE Take
  <2>1. /\ queue \in Seq(Jobs) /\ queue # <<>> /\ Len(queue) <= QueueCapacity
        /\ job' = Head(queue) /\ queue' = Tail(queue) /\ worker' = Head(queue).kind
        /\ emitted' = emitted /\ emitted = 0
    BY <1>0, <1>1 DEF Take, TypeOK, JobKinds
  <2>2. Head(queue) \in Jobs /\ Tail(queue) \in Seq(Jobs) /\ Len(Tail(queue)) <= QueueCapacity
    BY <2>1, HeadTailProperties, LenProperties, BoundsAssumption
  <2>3. Head(queue).kind \in JobKinds /\ Head(queue) # NoJob
    BY <1>0, <2>2 DEF Jobs
  <2>4. WorkerInv'
    BY <1>0, <2>1, <2>2, <2>3 DEF JobKinds
  <2>. QED  BY <1>1, <2>1, <2>2, <2>3, <2>4 DEF Take, handlerVars, TypeOK
<1>2. CASE RunHistory
  <2>1. PICK body \in {History, Failure} : Respond(body)
    BY <1>2 DEF RunHistory
  <2>2. body \in Bodies
    BY FrameTypes DEF History, Bodies, TypeOK
  <2>3. /\ reply' \in [Clients -> Bodies \cup {NoReply}]
        /\ worker' = "idle" /\ job' = NoJob /\ emitted' = 0
    BY <2>1, <2>2, RespondType
  <2>. QED  BY <1>0, <1>2, <2>3 DEF RunHistory, handlerVars, TypeOK
<1>3. CASE RunReset
  <2>1. /\ [status |-> "history", turns |-> <<>>, resets |-> resets + 1] \in Bodies
        /\ Failure \in Bodies
    BY FrameTypes DEF Bodies, TypeOK
  <2>2. /\ reply' \in [Clients -> Bodies \cup {NoReply}]
        /\ worker' = "idle" /\ job' = NoJob /\ emitted' = 0
    BY <1>3, <2>1, RespondType DEF RunReset
  <2>3. recorded' \in Seq(Clients \X Nat) /\ resets' \in Nat
    <3>. DEFINE S == Clients \X Nat
    <3>1. recorded \in Seq(S) /\ resets \in Nat
      BY DEF TypeOK
    <3>. HIDE DEF S
    <3>2. <<>> \in Seq(S)
      BY EmptySeq
    <3>3. \/ recorded' = <<>> /\ resets' = resets + 1
          \/ recorded' = recorded /\ resets' = resets
      BY <1>3 DEF RunReset
    <3>4. recorded' \in Seq(S)
      BY ONLY <3>1, <3>2, <3>3
    <3>5. resets' \in Nat
      BY <3>1, <3>3
    <3>. QED  BY <3>4, <3>5 DEF S
  <2>. QED  BY <1>0, <1>3, <2>2, <2>3 DEF RunReset, handlerVars, TypeOK
<1>4. CASE EmitProgress
  <2>1. emitted' \in Nat /\ emitted' = emitted + 1 /\ worker' = worker /\ job' = job
    BY <1>4 DEF EmitProgress, TypeOK
  <2>2. channel' \in [Clients -> Seq(Nat)]
    <3>1. \A d \in Clients : Append(channel[d], emitted') \in Seq(Nat)
      BY <2>1, AppendProperties DEF TypeOK
    <3>. QED  BY <1>4, <3>1 DEF EmitProgress, TypeOK
  <2>. QED  BY <1>0, <1>4, <2>1, <2>2 DEF EmitProgress, handlerVars, TypeOK
<1>5. CASE CommitTurn
  <2>1. job \in Jobs /\ job.kind = "input" /\ worker = "input"
    BY <1>5 DEF CommitTurn, TypeOK, NoJob, JobKinds
  <2>2. <<job.client, job.id>> \in Clients \X Nat
    BY <2>1 DEF Jobs
  <2>3. recorded' \in Seq(Clients \X Nat)
    BY <1>5, <2>2, AppendProperties DEF CommitTurn, TypeOK
  <2>. QED  BY <1>0, <1>5, <2>1, <2>3 DEF CommitTurn, handlerVars, TypeOK
<1>6. CASE PublishTurn
  <2>1. Output \in Bodies
    BY DEF Output, Bodies, TypeOK
  <2>2. /\ reply' \in [Clients -> Bodies \cup {NoReply}]
        /\ worker' = "idle" /\ job' = NoJob /\ emitted' = 0
    BY <1>6, <2>1, RespondType DEF PublishTurn
  <2>. QED  BY <1>0, <1>6, <2>2 DEF PublishTurn, handlerVars, TypeOK
<1>7. CASE FailTurn
  <2>1. /\ reply' \in [Clients -> Bodies \cup {NoReply}]
        /\ worker' = "idle" /\ job' = NoJob /\ emitted' = 0
    BY <1>7, FrameTypes, RespondType DEF FailTurn
  <2>. QED  BY <1>0, <1>7, <2>1 DEF FailTurn, handlerVars, TypeOK
<1>8. CASE CancelTurn
  BY <1>0, <1>8 DEF CancelTurn, handlerVars, TypeOK
<1>9. CASE Die
  BY <1>0, <1>9, BoundsAssumption DEF Die, handlerVars, TypeOK
<1>. QED
  BY <1>1, <1>2, <1>3, <1>4, <1>5, <1>6, <1>7, <1>8, <1>9 DEF Work

(***************************************************************************)
(* What a client is sent.                                                  *)
(***************************************************************************)

\* The kinds of frames.
LEMMA FrameFields ==
    /\ Ack.type = "ack" /\ NullError.type = "error"
    /\ \A id, n : /\ Progress(id, n).type = "progress"
                  /\ Progress(id, n).id = id /\ Progress(id, n).n = n
    /\ \A id, body : /\ Response(id, body).type = "response"
                     /\ Response(id, body).id = id /\ Response(id, body).body = body
BY DEF Ack, NullError, Progress, Response

\* Frames ms are appended to b.
LEMMA Joined ==
    ASSUME NEW b \in Seq(Frames), NEW ms \in Seq(Frames)
    PROVE  /\ b \o ms \in Seq(Frames)
           /\ Len(b) \in Nat /\ Len(ms) \in Nat
           /\ Len(b \o ms) = Len(b) + Len(ms)
           /\ DOMAIN b = 1 .. Len(b) /\ DOMAIN (b \o ms) = 1 .. Len(b) + Len(ms)
           /\ \A i \in 1 .. Len(b) : (b \o ms)[i] = b[i]
           /\ \A k \in 1 .. Len(ms) : (b \o ms)[Len(b) + k] = ms[k]
<1>1. /\ b \o ms \in Seq(Frames) /\ Len(b) \in Nat /\ Len(ms) \in Nat
      /\ Len(b \o ms) = Len(b) + Len(ms) /\ DOMAIN b = 1 .. Len(b)
      /\ \A i \in 1 .. Len(b) + Len(ms) :
            (b \o ms)[i] = IF i <= Len(b) THEN b[i] ELSE ms[i - Len(b)]
  BY ConcatProperties, LenProperties
<1>. DEFINE w == b \o ms
<1>. HIDE DEF w
<1>2. /\ w \in Seq(Frames) /\ Len(w) = Len(b) + Len(ms)
      /\ \A i \in 1 .. Len(b) + Len(ms) : w[i] = IF i <= Len(b) THEN b[i] ELSE ms[i - Len(b)]
  BY <1>1 DEF w
<1>3. DOMAIN w = 1 .. Len(b) + Len(ms)
  BY <1>2, LenProperties
<1>4. \A i \in 1 .. Len(b) : w[i] = b[i]
  BY <1>1, <1>2
<1>5. ASSUME NEW k \in 1 .. Len(ms)
      PROVE  w[Len(b) + k] = ms[k]
  <2>1. /\ Len(b) + k \in 1 .. Len(b) + Len(ms) /\ ~(Len(b) + k <= Len(b))
        /\ (Len(b) + k) - Len(b) = k
    BY <1>1
  <2>. QED  BY <1>2, <2>1
<1>. QED  BY <1>1, <1>2, <1>3, <1>4, <1>5 DEF w

\* One frame is appended.
LEMMA JoinedOne ==
    ASSUME NEW b \in Seq(Frames), NEW m \in Frames
    PROVE  /\ b \o <<m>> \in Seq(Frames) /\ Len(b) \in Nat
           /\ Len(b \o <<m>>) = Len(b) + 1
           /\ DOMAIN b = 1 .. Len(b) /\ DOMAIN (b \o <<m>>) = 1 .. Len(b) + 1
           /\ \A i \in 1 .. Len(b) : (b \o <<m>>)[i] = b[i]
           /\ (b \o <<m>>)[Len(b) + 1] = m
<1>1. <<m>> \in Seq(Frames) /\ Len(<<m>>) = 1 /\ <<m>>[1] = m /\ 1 \in 1 .. 1
  OBVIOUS
<1>. DEFINE ms == <<m>>
<1>. HIDE DEF ms
<1>2. ms \in Seq(Frames) /\ Len(ms) = 1 /\ ms[1] = m
  BY <1>1 DEF ms
<1>3. /\ b \o ms \in Seq(Frames) /\ Len(b) \in Nat
      /\ Len(b \o ms) = Len(b) + 1
      /\ DOMAIN b = 1 .. Len(b) /\ DOMAIN (b \o ms) = 1 .. Len(b) + 1
      /\ \A i \in 1 .. Len(b) : (b \o ms)[i] = b[i]
      /\ \A k \in 1 .. 1 : (b \o ms)[Len(b) + k] = ms[k]
  BY <1>2, Joined
<1>. QED  BY <1>1, <1>2, <1>3 DEF ms

\* Order, with a frame that is no response, or one with a new and higher id.
LEMMA PushOrder ==
    ASSUME NEW b \in Seq(Frames), NEW m \in Frames, NEW as, NEW bs, OrderInv(b, as),
           as \subseteq bs,
           IsResponse(m) =>
              /\ \E r \in bs : r.id = m.id /\ Fits(r.kind, m.body)
              /\ \A k \in DOMAIN b : IsResponse(b[k]) => b[k].id < m.id
    PROVE  OrderInv(b \o <<m>>, bs)
<1>. DEFINE w == b \o <<m>>
            n == Len(b)
<1>1. /\ n \in Nat /\ DOMAIN b = 1 .. n /\ DOMAIN w = 1 .. n + 1
      /\ \A i \in 1 .. n : w[i] = b[i]
      /\ w[n + 1] = m
  BY JoinedOne
<1>. HIDE DEF w, n
<1>. SUFFICES ASSUME NEW i \in DOMAIN w, IsResponse(w[i])
              PROVE  /\ \E r \in bs : r.id = w[i].id /\ Fits(r.kind, w[i].body)
                     /\ \A k \in 1 .. i - 1 : IsResponse(w[k]) => w[k].id < w[i].id
  BY DEF OrderInv, w
<1>2. CASE i \in 1 .. n
  <2>1. \A k \in 1 .. i - 1 : w[k] = b[k]
    BY <1>1, <1>2
  <2>. QED  BY <1>1, <1>2, <2>1 DEF OrderInv
<1>3. CASE i = n + 1
  <2>1. \A k \in 1 .. i - 1 : k \in DOMAIN b /\ w[k] = b[k]
    BY <1>1, <1>3
  <2>. QED  BY <1>1, <1>3, <2>1
<1>. QED  BY <1>1, <1>2, <1>3

\* More requests do not disturb the order.
LEMMA MoreAsked ==
    ASSUME NEW b, NEW as, NEW bs, OrderInv(b, as), as \subseteq bs
    PROVE  OrderInv(b, bs)
BY DEF OrderInv

\* Blocks, with a frame after one that is no notification, and with the
\* response after a block.
LEMMA PushBlocks ==
    ASSUME NEW b \in Seq(Frames), NEW m \in Frames, BlocksInv(b), m.type # "progress",
           \/ LastIsPlain(b)
           \/ m.type = "response" /\ m.id = b[Len(b)].id
    PROVE  BlocksInv(b \o <<m>>) /\ LastIsPlain(b \o <<m>>)
<1>. DEFINE w == b \o <<m>>
            n == Len(b)
<1>1. /\ n \in Nat /\ DOMAIN b = 1 .. n /\ DOMAIN w = 1 .. n + 1 /\ Len(w) = n + 1
      /\ \A i \in 1 .. n : w[i] = b[i]
      /\ w[n + 1] = m
  BY JoinedOne
<1>2. n > 0 /\ b[n].type = "progress" => m.type = "response" /\ m.id = b[n].id
  BY <1>1 DEF LastIsPlain
<1>3. \A i \in 1 .. n : b[i].type = "progress" =>
        /\ b[i].n > 1 => i > 1 /\ b[i - 1] = Progress(b[i].id, b[i].n - 1)
        /\ i < n => b[i + 1].type \in {"progress", "response"} /\ b[i + 1].id = b[i].id
  BY <1>1 DEF BlocksInv
<1>4. LastIsPlain(w)
  BY <1>1 DEF LastIsPlain
<1>. HIDE DEF w, n
<1>. SUFFICES ASSUME NEW i \in 1 .. n + 1, w[i].type = "progress"
              PROVE  /\ w[i].n > 1 => i > 1 /\ w[i - 1] = Progress(w[i].id, w[i].n - 1)
                     /\ i < n + 1 => /\ w[i + 1].type \in {"progress", "response"}
                                     /\ w[i + 1].id = w[i].id
  BY <1>1, <1>4 DEF BlocksInv, w
<1>5. i \in 1 .. n /\ w[i] = b[i] /\ (i > 1 => w[i - 1] = b[i - 1])
  BY <1>1
<1>6. w[i].n > 1 => i > 1 /\ w[i - 1] = Progress(w[i].id, w[i].n - 1)
  BY <1>3, <1>5
<1>7. CASE i < n
  BY <1>1, <1>3, <1>5, <1>6, <1>7
<1>8. CASE i = n
  BY <1>1, <1>2, <1>5, <1>6, <1>8
<1>. QED  BY <1>1, <1>5, <1>7, <1>8

\* A successful response that follows all notifications of its request.
LEMMA PushCounts ==
    ASSUME NEW b \in Seq(Frames), NEW m \in Frames, CountsInv(b),
           IsOutput(m) => EndsInBlock(b, m.id, m.body.events)
    PROVE  CountsInv(b \o <<m>>)
<1>. DEFINE w == b \o <<m>>
            n == Len(b)
<1>1. /\ n \in Nat /\ DOMAIN b = 1 .. n /\ DOMAIN w = 1 .. n + 1
      /\ \A i \in 1 .. n : w[i] = b[i]
      /\ w[n + 1] = m
  BY JoinedOne
<1>2. IsOutput(m) => Cardinality(Notified(b, n, m.id)) = m.body.events
  <2>. SUFFICES ASSUME IsOutput(m) PROVE Cardinality(Notified(b, n, m.id)) = m.body.events
    OBVIOUS
  <2>. DEFINE p == m.body.events
  <2>1. /\ p \in 0 .. n
        /\ \A k \in 1 .. p : b[n - p + k] = Progress(m.id, k)
        /\ \A k \in 1 .. n - p : b[k].type = "progress" => b[k].id # m.id
    BY DEF EndsInBlock
  <2>. HIDE DEF p, n
  <2>2. ASSUME NEW k \in n - p + 1 .. n
        PROVE  b[k].type = "progress" /\ b[k].id = m.id
    <3>1. k - (n - p) \in 1 .. p /\ n - p + (k - (n - p)) = k
      BY <1>1, <2>1
    <3>. QED  BY <2>1, <3>1, FrameFields
  <2>3. Notified(b, n, m.id) = n - p + 1 .. n
    BY <1>1, <2>1, <2>2 DEF Notified
  <2>4. n - p + 1 \in Int /\ n \in Int /\ p \in Nat
    BY <1>1, <2>1
  <2>5. Cardinality(n - p + 1 .. n) = IF n - p + 1 > n THEN 0 ELSE n - (n - p + 1) + 1
    BY ONLY <2>4, FS_Interval
  <2>6. Cardinality(n - p + 1 .. n) = p
    BY <1>1, <2>1, <2>4, <2>5
  <2>. QED  BY <2>3, <2>6 DEF p
<1>. HIDE DEF w, n
<1>. SUFFICES ASSUME NEW i \in 1 .. n + 1, IsOutput(w[i])
              PROVE  w[i].body.events = Cardinality(Notified(w, i - 1, w[i].id))
  BY <1>1 DEF CountsInv, IsOutput, w
<1>3. Notified(w, i - 1, w[i].id) = Notified(b, i - 1, w[i].id)
  BY <1>1 DEF Notified
<1>4. CASE i \in 1 .. n
  BY <1>1, <1>3, <1>4 DEF CountsInv, IsOutput
<1>5. CASE i = n + 1
  <2>1. w[i] = m /\ i - 1 = n
    BY <1>1, <1>5
  <2>. QED  BY <1>2, <1>3, <2>1
<1>. QED  BY <1>1, <1>4, <1>5

\* The ids answered, with one more frame.
LEMMA PushIds ==
    ASSUME NEW b \in Seq(Frames), NEW m \in Frames
    PROVE  ResponseIdsOf(b \o <<m>>) =
              ResponseIdsOf(b) \cup (IF IsResponse(m) THEN {m.id} ELSE {})
<1>. DEFINE w == b \o <<m>>
            n == Len(b)
<1>1. /\ n \in Nat /\ DOMAIN b = 1 .. n /\ DOMAIN w = 1 .. n + 1
      /\ \A i \in 1 .. n : w[i] = b[i]
      /\ w[n + 1] = m
  BY JoinedOne
<1>. HIDE DEF w, n
<1>2. ASSUME NEW x
      PROVE  x \in ResponseIdsOf(w) <=>
                x \in ResponseIdsOf(b) \/ (IsResponse(m) /\ x = m.id)
  <2>1. x \in ResponseIdsOf(w) <=> \E i \in 1 .. n + 1 : IsResponse(w[i]) /\ x = w[i].id
    BY <1>1 DEF ResponseIdsOf
  <2>2. x \in ResponseIdsOf(b) <=> \E i \in 1 .. n : IsResponse(b[i]) /\ x = b[i].id
    BY <1>1 DEF ResponseIdsOf
  <2>3. n + 1 \in 1 .. n + 1 /\ \A i \in 1 .. n + 1 : i \in 1 .. n \/ i = n + 1
    BY <1>1
  <2>4. \A i \in 1 .. n : i \in 1 .. n + 1
    BY <1>1
  <2>. QED  BY <1>1, <2>1, <2>2, <2>3, <2>4
<1>. QED  BY <1>2 DEF w

\* An ack or an error is sent between requests.
LEMMA PushPlain ==
    ASSUME NEW b \in Seq(Frames), NEW as, BoxInv(b, as), LastIsPlain(b),
           NEW m \in {Ack, NullError}
    PROVE  /\ BoxInv(b \o <<m>>, as) /\ LastIsPlain(b \o <<m>>)
           /\ ResponseIdsOf(b \o <<m>>) = ResponseIdsOf(b)
<1>1. m \in Frames /\ m.type # "progress" /\ ~IsResponse(m) /\ ~IsOutput(m)
  BY FrameTypes, FrameFields DEF IsResponse, IsOutput
<1>2. BlocksInv(b \o <<m>>) /\ LastIsPlain(b \o <<m>>)
  BY <1>1, PushBlocks DEF BoxInv
<1>3. CountsInv(b \o <<m>>)
  BY <1>1, PushCounts DEF BoxInv
<1>4. OrderInv(b \o <<m>>, as)
  BY <1>1, PushOrder DEF BoxInv
<1>. QED  BY <1>1, <1>2, <1>3, <1>4, PushIds DEF BoxInv

\* The response to request r is sent, after its notifications if it has any.
LEMMA PushAnswer ==
    ASSUME NEW b \in Seq(Frames), NEW as, BoxInv(b, as), NEW bs, as \subseteq bs,
           NEW r \in bs, r.id \in Nat, NEW body \in Bodies, Fits(r.kind, body),
           AnsweredBelow(b, r.id), LastIsPlain(b) \/ b[Len(b)].id = r.id,
           body.status = "output" => EndsInBlock(b, r.id, body.events)
    PROVE  /\ BoxInv(b \o <<Response(r.id, body)>>, bs)
           /\ LastIsPlain(b \o <<Response(r.id, body)>>)
           /\ ResponseIdsOf(b \o <<Response(r.id, body)>>) = ResponseIdsOf(b) \cup {r.id}
<1>. DEFINE m == Response(r.id, body)
<1>1. /\ m \in Frames /\ m.type = "response" /\ IsResponse(m)
      /\ m.id = r.id /\ m.body = body
  BY FrameTypes, FrameFields DEF IsResponse
<1>. HIDE DEF m
<1>2. BlocksInv(b \o <<m>>) /\ LastIsPlain(b \o <<m>>)
  BY <1>1, PushBlocks DEF BoxInv
<1>3. CountsInv(b \o <<m>>)
  BY <1>1, PushCounts DEF BoxInv, IsOutput
<1>4. OrderInv(b \o <<m>>, bs)
  BY <1>1, PushOrder DEF BoxInv, AnsweredBelow
<1>. QED  BY <1>1, <1>2, <1>3, <1>4, PushIds DEF BoxInv, m

\* The next notifications of a request are sent, one or what is left of them.
LEMMA PushNotes ==
    ASSUME NEW b \in Seq(Frames), NEW as, BoxInv(b, as), NEW id \in Nat, NEW p \in Nat,
           EndsInBlock(b, id, p), NEW ms \in Seq(Frames), AreNotes(ms, id, p),
           NEW f, IdsUpTo(b, f), id \in 1 .. f, AnsweredBelow(b, id)
    PROVE  /\ b \o ms \in Seq(Frames)
           /\ BoxInv(b \o ms, as) /\ EndsInBlock(b \o ms, id, p + Len(ms))
           /\ ResponseIdsOf(b \o ms) = ResponseIdsOf(b)
           /\ IdsUpTo(b \o ms, f) /\ AnsweredBelow(b \o ms, id)
<1>. DEFINE w == b \o ms
            n == Len(b)
            q == Len(ms)
<1>1. /\ w \in Seq(Frames) /\ n \in Nat /\ q \in Nat /\ Len(w) = n + q
      /\ DOMAIN b = 1 .. n /\ DOMAIN w = 1 .. n + q
      /\ \A i \in 1 .. n : w[i] = b[i]
      /\ \A k \in 1 .. q : w[n + k] = ms[k]
  BY Joined
<1>2. /\ p \in 0 .. n
      /\ \A k \in 1 .. p : b[n - p + k] = Progress(id, k)
      /\ \A k \in 1 .. n - p : b[k].type = "progress" => b[k].id # id
      /\ p < n => b[n - p].type # "progress"
  BY DEF EndsInBlock
<1>3. \A i \in 1 .. n : b[i].type = "progress" =>
        /\ b[i].n > 1 => i > 1 /\ b[i - 1] = Progress(b[i].id, b[i].n - 1)
        /\ i < n => b[i + 1].type \in {"progress", "response"} /\ b[i + 1].id = b[i].id
  BY <1>1 DEF BoxInv, BlocksInv
<1>a. \A k \in 1 .. q : ms[k] = Progress(id, p + k)
  BY DEF AreNotes
<1>. HIDE DEF w, n, q
\* A frame of w is one of b or a new notification.
<1>4. ASSUME NEW i \in 1 .. n + q, i > n
      PROVE  /\ i - n \in 1 .. q /\ w[i] = Progress(id, p + (i - n))
             /\ w[i].type = "progress" /\ w[i].id = id /\ w[i].n = p + (i - n)
  <2>1. i - n \in 1 .. q /\ n + (i - n) = i
    BY <1>1, <1>4
  <2>2. w[i] = ms[i - n]
    BY <1>1, <2>1
  <2>3. w[i] = Progress(id, p + (i - n))
    BY <1>a, <2>1, <2>2
  <2>. QED  BY <2>1, <2>3, FrameFields
<1>5. \A i \in 1 .. n + q : i \in 1 .. n \/ i > n
  BY <1>1
<1>6. n > 0 /\ b[n].type = "progress" => p > 0 /\ b[n] = Progress(id, p) /\ b[n].id = id
  <2>. SUFFICES ASSUME n > 0, b[n].type = "progress" PROVE p > 0 /\ b[n] = Progress(id, p) /\ b[n].id = id
    OBVIOUS
  <2>1. p > 0
    BY <1>1, <1>2
  <2>2. p \in 1 .. p /\ n - p + p = n
    BY <1>1, <1>2, <2>1
  <2>3. b[n] = Progress(id, p)
    BY <1>2, <2>2
  <2>. QED  BY <2>1, <2>3, FrameFields
<1>7. p > 0 => n > 0 /\ b[n] = Progress(id, p)
  <2>. SUFFICES ASSUME p > 0 PROVE n > 0 /\ b[n] = Progress(id, p)
    OBVIOUS
  <2>1. p \in 1 .. p /\ n - p + p = n /\ n > 0
    BY <1>1, <1>2
  <2>. QED  BY <1>2, <2>1
<1>8. BlocksInv(w)
  <2>. SUFFICES ASSUME NEW i \in 1 .. n + q, w[i].type = "progress"
                PROVE  /\ w[i].n > 1 => i > 1 /\ w[i - 1] = Progress(w[i].id, w[i].n - 1)
                       /\ i < n + q => /\ w[i + 1].type \in {"progress", "response"}
                                       /\ w[i + 1].id = w[i].id
    BY <1>1 DEF BlocksInv
  <2>1. CASE i \in 1 .. n
    <3>1. w[i] = b[i] /\ (i > 1 => w[i - 1] = b[i - 1])
      BY <1>1, <2>1
    <3>2. w[i].n > 1 => i > 1 /\ w[i - 1] = Progress(w[i].id, w[i].n - 1)
      BY <1>3, <2>1, <3>1
    <3>3. CASE i < n
      BY <1>1, <1>3, <2>1, <3>1, <3>2, <3>3
    <3>4. CASE i = n
      <4>1. i < n + q => n + 1 \in 1 .. n + q /\ n + 1 > n
        BY <1>1, <3>4
      <4>2. i < n + q => w[n + 1].type = "progress" /\ w[n + 1].id = id
        BY <1>4, <4>1
      <4>. QED  BY <1>1, <1>6, <2>1, <3>1, <3>2, <3>4, <4>2
    <3>. QED  BY <1>1, <2>1, <3>3, <3>4
  <2>2. CASE i > n
    <3>1. i - n \in 1 .. q /\ w[i].id = id /\ w[i].n = p + (i - n)
      BY <1>4, <2>2
    <3>2. i < n + q => w[i + 1].type = "progress" /\ w[i + 1].id = id
      <4>1. i < n + q => i + 1 \in 1 .. n + q /\ i + 1 > n
        BY <1>1, <2>2
      <4>. QED  BY <1>4, <4>1
    <3>3. CASE i > n + 1
      <4>1. i - 1 \in 1 .. n + q /\ i - 1 > n /\ p + ((i - 1) - n) = w[i].n - 1 /\ i > 1
        BY <1>1, <3>1, <3>3
      <4>2. w[i - 1] = Progress(id, w[i].n - 1)
        BY <1>4, <4>1
      <4>. QED  BY <3>1, <3>2, <4>1, <4>2
    <3>4. CASE i = n + 1
      <4>1. w[i].n = p + 1 /\ i - 1 = n
        BY <1>1, <3>1, <3>4
      <4>2. w[i].n > 1 => p > 0 /\ w[i].n - 1 = p
        BY <4>1
      <4>3. w[i].n > 1 => i > 1 /\ w[i - 1] = Progress(id, w[i].n - 1)
        BY <1>1, <1>7, <3>4, <4>1, <4>2
      <4>. QED  BY <3>1, <3>2, <4>3
    <3>. QED  BY <1>1, <2>2, <3>3, <3>4
  <2>. QED  BY <1>5, <2>1, <2>2
<1>9. OrderInv(w, as)
  <2>. SUFFICES ASSUME NEW i \in 1 .. n + q, IsResponse(w[i])
                PROVE  /\ \E r \in as : r.id = w[i].id /\ Fits(r.kind, w[i].body)
                       /\ \A k \in 1 .. i - 1 : IsResponse(w[k]) => w[k].id < w[i].id
    BY <1>1 DEF OrderInv
  <2>1. i \in 1 .. n
    BY <1>4, <1>5 DEF IsResponse
  <2>2. w[i] = b[i] /\ \A k \in 1 .. i - 1 : w[k] = b[k]
    BY <1>1, <2>1
  <2>. QED  BY <1>1, <2>1, <2>2 DEF BoxInv, OrderInv
<1>10. CountsInv(w)
  <2>. SUFFICES ASSUME NEW i \in 1 .. n + q, IsResponse(w[i]), w[i].body.status = "output"
                PROVE  w[i].body.events = Cardinality(Notified(w, i - 1, w[i].id))
    BY <1>1 DEF CountsInv
  <2>1. i \in 1 .. n
    BY <1>4, <1>5 DEF IsResponse
  <2>2. w[i] = b[i] /\ \A k \in 1 .. i - 1 : w[k] = b[k]
    BY <1>1, <2>1
  <2>3. Notified(w, i - 1, w[i].id) = Notified(b, i - 1, b[i].id)
    BY <2>2 DEF Notified
  <2>. QED  BY <1>1, <2>1, <2>2, <2>3 DEF BoxInv, CountsInv
<1>11. EndsInBlock(w, id, p + q)
  <2>1. p + q \in 0 .. n + q /\ (n + q) - (p + q) = n - p
    BY <1>1, <1>2
  <2>2. ASSUME NEW k \in 1 .. p + q
        PROVE  w[n - p + k] = Progress(id, k)
    <3>1. CASE k <= p
      <4>1. n - p + k \in 1 .. n /\ k \in 1 .. p
        BY <1>1, <1>2, <3>1
      <4>. QED  BY <1>1, <1>2, <4>1
    <3>2. CASE k > p
      <4>1. n - p + k \in 1 .. n + q /\ n - p + k > n /\ p + ((n - p + k) - n) = k
        BY <1>1, <1>2, <3>2
      <4>. QED  BY <1>4, <4>1
    <3>. QED  BY <1>2, <3>1, <3>2
  <2>3. \A k \in 1 .. n - p : w[k].type = "progress" => w[k].id # id
    BY <1>1, <1>2
  <2>4. p + q < n + q => w[n - p].type # "progress"
    BY <1>1, <1>2
  <2>. QED  BY <1>1, <2>1, <2>2, <2>3, <2>4 DEF EndsInBlock
<1>12. ResponseIdsOf(w) = ResponseIdsOf(b)
  <2>1. \A i \in 1 .. n + q : IsResponse(w[i]) => i \in 1 .. n
    BY <1>4, <1>5 DEF IsResponse
  <2>2. ASSUME NEW x
        PROVE  x \in ResponseIdsOf(w) <=> x \in ResponseIdsOf(b)
    <3>1. x \in ResponseIdsOf(w) <=> \E i \in 1 .. n + q : IsResponse(w[i]) /\ x = w[i].id
      BY <1>1 DEF ResponseIdsOf
    <3>2. x \in ResponseIdsOf(b) <=> \E i \in 1 .. n : IsResponse(b[i]) /\ x = b[i].id
      BY <1>1 DEF ResponseIdsOf
    <3>3. \A i \in 1 .. n : i \in 1 .. n + q
      BY <1>1
    <3>. QED  BY <1>1, <2>1, <3>1, <3>2, <3>3
  <2>. QED  BY <2>2
<1>13. IdsUpTo(w, f) /\ AnsweredBelow(w, id)
  <2>1. \A i \in DOMAIN w : \/ i \in DOMAIN b /\ w[i] = b[i]
                            \/ w[i].type = "progress" /\ w[i].id = id
    BY <1>1, <1>4, <1>5
  <2>. QED  BY <2>1 DEF IdsUpTo, AnsweredBelow, IsResponse
<1>. QED  BY <1>1, <1>8, <1>9, <1>10, <1>11, <1>12, <1>13 DEF BoxInv, w, q

(***************************************************************************)
(* The steps of a connection.                                              *)
(***************************************************************************)

ClientStep(c) == Leave(c) \/ Read(c) \/ StreamOverlap(c) \/ Submit(c) \/ Handle(c)

\* The variables of connection c, and what the worker has of it, stay.
ClientStays(c) ==
    /\ handler'[c] = handler[c] /\ gone'[c] = gone[c] /\ shaken'[c] = shaken[c]
    /\ frames'[c] = frames[c] /\ asked'[c] = asked[c] /\ overlapped'[c] = overlapped[c]
    /\ current'[c] = current[c] /\ channel'[c] = channel[c]
    /\ reply'[c] = reply[c] /\ inbox'[c] = inbox[c]

JobsStay(c) ==
    \A j \in Outstanding' : j.client = c =>
        /\ j \in Outstanding
        /\ handler[c] = "stream" /\ j.id = current[c].id =>
              Reported(j, job', emitted') = Reported(j, job, emitted)

\* Then its part of the invariant stays.
LEMMA StaysInv ==
    ASSUME NEW c \in Clients, ClientInv(c), ClientStays(c), JobsStay(c)
    PROVE  ClientInv(c)'
<1>. USE DEF ClientInv, ClientStays, JobsStay
<1>1. RequestsInv(handler[c], current[c], frames[c], asked[c], overlapped[c])'
  OBVIOUS
<1>2. (\A j \in Outstanding : JobInv(c, handler[c], current[c], asked[c], j))'
  BY DEF JobInv
<1>3. ReplyInv(c, handler[c], current[c], reply[c], Outstanding)'
  BY DEF ReplyInv, IsJobOf
<1>4. StreamInv(c, handler[c], gone[c], current[c], channel[c], reply[c],
                inbox[c], Outstanding, job, emitted)'
  <2>1. CASE ~gone[c] /\ handler[c] = "stream"
    <3>1. PICK p \in 0 .. Len(inbox[c]) :
              /\ EndsInBlock(inbox[c], current[c].id, p)
              /\ \A i \in DOMAIN channel[c] : channel[c][i] = p + i
              /\ \A j \in Outstanding : IsJobOf(j, c, current[c]) =>
                    Reported(j, job, emitted) = p + Len(channel[c])
              /\ reply[c].status = "output" => reply[c].events = p + Len(channel[c])
      BY <2>1 DEF StreamInv
    <3>2. \A j \in Outstanding' : IsJobOf(j, c, current[c]) =>
              Reported(j, job', emitted') = p + Len(channel[c])
      BY <2>1, <3>1 DEF IsJobOf
    <3>. QED  BY <2>1, <3>1, <3>2 DEF StreamInv
  <2>2. CASE ~(~gone[c] /\ handler[c] = "stream")
    BY <2>2 DEF StreamInv
  <2>. QED  BY <2>1, <2>2
<1>5. /\ BoxInv(inbox[c], asked[c])'
      /\ IdsInv(handler[c], current[c], frames[c], inbox[c])'
      /\ ShakenInv(handler[c], shaken[c], asked[c], inbox[c])'
      /\ AnsweredInv(handler[c], gone[c], current[c], asked[c], overlapped[c], inbox[c])'
  OBVIOUS
<1>. QED  BY <1>1, <1>2, <1>3, <1>4, <1>5

\* A connection does not touch the others.
LEMMA SendOthers ==
    ASSUME TypeOK, NEW d \in Clients, NEW c \in Clients, c # d,
           NEW ms, NEW next, NEW broken, Send(d, ms, next, broken)
    PROVE  handler'[c] = handler[c] /\ inbox'[c] = inbox[c]
BY DEF TypeOK, Send

\* A handler drops its own channels only.
LEMMA DropOthers ==
    ASSUME TypeOK, NEW d \in Clients, NEW c \in Clients, c # d, DropChannels(d)
    PROVE  current'[c] = current[c] /\ channel'[c] = channel[c] /\ reply'[c] = reply[c]
BY DEF TypeOK, DropChannels

\* A step of one connection leaves what belongs to another.
LEMMA OthersStay ==
    ASSUME TypeOK, NEW d \in Clients, NEW c \in Clients, c # d, ClientStep(d)
    PROVE  ClientStays(c) /\ JobsStay(c)
<1>. USE SendOthers, DropOthers DEF ClientStays
<1>0. /\ \A x : frames' = [frames EXCEPT ![d] = x] => frames'[c] = frames[c]
      /\ \A x : asked' = [asked EXCEPT ![d] = x] => asked'[c] = asked[c]
      /\ \A x : overlapped' = [overlapped EXCEPT ![d] = x] => overlapped'[c] = overlapped[c]
      /\ \A x : gone' = [gone EXCEPT ![d] = x] => gone'[c] = gone[c]
      /\ \A x : shaken' = [shaken EXCEPT ![d] = x] => shaken'[c] = shaken[c]
      /\ \A x : current' = [current EXCEPT ![d] = x] => current'[c] = current[c]
      /\ \A x : channel' = [channel EXCEPT ![d] = x] => channel'[c] = channel[c]
      /\ \A x : handler' = [handler EXCEPT ![d] = x] => handler'[c] = handler[c]
  BY DEF TypeOK
<1>a. UNCHANGED <<queue, job, emitted>> => JobsStay(c)
  BY DEF JobsStay, Outstanding
<1>1. CASE Leave(d)
  BY <1>0, <1>1, <1>a DEF Leave, workerVars
<1>2. CASE ReadHandshake(d)
  BY <1>0, <1>2, <1>a DEF ReadHandshake, workerVars
<1>3. CASE ReadInvalid(d)
  BY <1>0, <1>3, <1>a DEF ReadInvalid, ReadFrame, workerVars
<1>4. ASSUME NEW body \in {Pong, Failure}, ReadImmediate(d, body)
      PROVE  ClientStays(c) /\ JobsStay(c)
  BY <1>0, <1>4, <1>a DEF ReadImmediate, ReadFrame, workerVars
<1>5. ASSUME NEW kind \in JobKinds, ReadAgentRequest(d, kind)
      PROVE  ClientStays(c) /\ JobsStay(c)
  BY <1>0, <1>5, <1>a DEF ReadAgentRequest, ReadFrame, workerVars
<1>6. CASE ReadError(d)
  BY <1>0, <1>6, <1>a DEF ReadError, workerVars
<1>7. CASE ReadEnd(d)
  BY <1>0, <1>7, <1>a DEF ReadEnd, workerVars
<1>8. CASE StreamOverlap(d)
  BY <1>0, <1>8, <1>a DEF StreamOverlap, workerVars
<1>9. CASE Submit(d)
  <2>. DEFINE j == Job(d, current[d].id, current[d].kind)
  <2>1. ClientStays(c) /\ job' = job /\ emitted' = emitted
    BY <1>0, <1>9 DEF Submit, connVars
  <2>2. queue \in Seq(Jobs) /\ queue' = Append(queue, j) /\ j.client = d
    BY <1>9 DEF TypeOK, Submit, Job
  <2>. HIDE DEF j
  <2>3. \A x \in Outstanding' : x \in Outstanding \/ x = j
    BY <2>1, <2>2, AppendProperties DEF Outstanding, ToSet
  <2>. QED  BY <2>1, <2>2, <2>3 DEF JobsStay
<1>10. CASE SubmitUnavailable(d)
  BY <1>0, <1>10, <1>a DEF SubmitUnavailable, connVars, workerVars
<1>11. CASE AwaitReply(d)
  BY <1>0, <1>11, <1>a DEF AwaitReply, connVars, workerVars
<1>12. CASE StreamProgress(d)
  BY <1>0, <1>12, <1>a DEF StreamProgress, connVars, workerVars
<1>13. CASE StreamEnd(d)
  BY <1>0, <1>13, <1>a DEF StreamEnd, workerVars
<1>14. CASE StreamReply(d)
  BY <1>0, <1>14, <1>a DEF StreamReply, connVars, workerVars
<1>. QED
  BY <1>1, <1>2, <1>3, <1>4, <1>5, <1>6, <1>7, <1>8, <1>9, <1>10, <1>11, <1>12,
     <1>13, <1>14 DEF ClientStep, Read, Handle

\* Where sender.send() leaves connection c.
LEMMA SendOwn ==
    ASSUME TypeOK, NEW c \in Clients, NEW ms, NEW next, NEW broken,
           Send(c, ms, next, broken)
    PROVE  /\ gone[c] => inbox'[c] = inbox[c] /\ handler'[c] \in {next, broken}
           /\ ~gone[c] => inbox'[c] = inbox[c] \o ms /\ handler'[c] = next
BY DEF TypeOK, Send

\* A handler that drops its channels is left with none.
LEMMA DropOwn ==
    ASSUME TypeOK, NEW c \in Clients, DropChannels(c)
    PROVE  current'[c] = NoRequest /\ channel'[c] = <<>> /\ reply'[c] = NoReply
BY DEF TypeOK, DropChannels

\* One more frame, with no id or with that of a frame read.
LEMMA PushIdsUpTo ==
    ASSUME NEW b \in Seq(Frames), NEW m \in Frames, NEW n, IdsUpTo(b, n),
           m.type \in {"progress", "response"} => m.id \in 1 .. n
    PROVE  IdsUpTo(b \o <<m>>, n)
<1>. DEFINE w == b \o <<m>>
            l == Len(b)
<1>1. /\ l \in Nat /\ DOMAIN b = 1 .. l /\ DOMAIN w = 1 .. l + 1
      /\ \A i \in 1 .. l : w[i] = b[i]
      /\ w[l + 1] = m
  BY JoinedOne
<1>. HIDE DEF w, l
<1>2. \A i \in 1 .. l + 1 : i \in 1 .. l \/ i = l + 1
  BY <1>1
<1>. QED  BY <1>1, <1>2 DEF IdsUpTo, w

\* A request is over: it was answered, or its client is gone.
LEMMA RequestOver ==
    ASSUME TypeOK, NEW c \in Clients, ClientInv(c), handler[c] \in Requesting,
           handler'[c] \in {"read", "closed"}, DropChannels(c),
           gone'[c] = gone[c], shaken'[c] = shaken[c], frames'[c] = frames[c],
           asked'[c] = asked[c], overlapped'[c] = overlapped[c],
           Outstanding' = Outstanding, BoxInv(inbox'[c], asked[c]),
           IdsUpTo(inbox'[c], frames[c]),
           ~gone[c] => /\ handler'[c] = "read" /\ LastIsPlain(inbox'[c])
                       /\ ResponseIdsOf(inbox'[c]) = ResponseIdsOf(inbox[c]) \cup {current[c].id}
    PROVE  ClientInv(c)'
<1>. USE DEF ClientInv
<1>1. current'[c] = NoRequest /\ channel'[c] = <<>> /\ reply'[c] = NoReply
  BY DropOwn
<1>2. /\ RequestsInv(handler[c], current[c], frames[c], asked[c], overlapped[c])
      /\ current[c] \in asked[c] \ overlapped[c]
  BY DEF RequestsInv
<1>3. RequestsInv(handler[c], current[c], frames[c], asked[c], overlapped[c])'
  BY <1>1, <1>2 DEF RequestsInv, Requesting
<1>4. (\A j \in Outstanding : JobInv(c, handler[c], current[c], asked[c], j))'
  BY DEF JobInv
<1>5. ReplyInv(c, handler[c], current[c], reply[c], Outstanding)'
  BY <1>1 DEF ReplyInv
<1>6. IdsInv(handler[c], current[c], frames[c], inbox[c])'
  BY DEF IdsInv, IdsUpTo
<1>7. StreamInv(c, handler[c], gone[c], current[c], channel[c], reply[c],
                inbox[c], Outstanding, job, emitted)'
  BY <1>1 DEF StreamInv
<1>8. ShakenInv(handler[c], shaken[c], asked[c], inbox[c])'
  BY DEF ShakenInv, Requesting
<1>9. AnsweredInv(handler[c], gone[c], current[c], asked[c], overlapped[c], inbox[c])'
  BY <1>2 DEF AnsweredInv, Requesting
<1>. QED  BY <1>3, <1>4, <1>5, <1>6, <1>7, <1>8, <1>9

\* A request whose client is gone is over without another frame.
LEMMA RequestLost ==
    ASSUME TypeOK, NEW c \in Clients, ClientInv(c), handler[c] \in Requesting,
           gone[c], inbox'[c] = inbox[c],
           handler'[c] \in {"read", "closed"}, DropChannels(c),
           gone'[c] = gone[c], shaken'[c] = shaken[c], frames'[c] = frames[c],
           asked'[c] = asked[c], overlapped'[c] = overlapped[c],
           Outstanding' = Outstanding
    PROVE  ClientInv(c)'
<1>1. BoxInv(inbox'[c], asked[c]) /\ IdsUpTo(inbox'[c], frames[c])
  BY DEF ClientInv, IdsInv, IdsUpTo
<1>. QED  BY <1>1, RequestOver

\* The last frame of a block.
LEMMA BlockEnd ==
    ASSUME NEW b \in Seq(Frames), NEW id, NEW p, EndsInBlock(b, id, p)
    PROVE  LastIsPlain(b) \/ b[Len(b)].id = id
<1>. DEFINE n == Len(b)
<1>1. /\ n \in Nat /\ p \in 0 .. n /\ (b # <<>> => n > 0)
      /\ \A k \in 1 .. p : b[n - p + k] = Progress(id, k)
      /\ p < n => b[n - p].type # "progress"
  BY LenProperties, EmptySeq DEF EndsInBlock
<1>. HIDE DEF n
<1>2. CASE p = 0
  BY <1>1, <1>2 DEF LastIsPlain, n
<1>3. CASE p > 0
  <2>1. p \in 1 .. p /\ n - p + p = n
    BY <1>1, <1>3
  <2>2. b[n] = Progress(id, p)
    BY <1>1, <2>1
  <2>. QED  BY <2>2, FrameFields DEF n
<1>. QED  BY <1>1, <1>2, <1>3

\* The response to the current request reaches a client that stays, after
\* the notifications in b.
LEMMA AnswerSent ==
    ASSUME TypeOK, NEW c \in Clients, ClientInv(c), ~gone[c],
           handler[c] \in Requesting, handler'[c] = "read", DropChannels(c),
           gone'[c] = gone[c], shaken'[c] = shaken[c], frames'[c] = frames[c],
           asked'[c] = asked[c], overlapped'[c] = overlapped[c],
           Outstanding' = Outstanding,
           NEW b \in Seq(Frames), NEW body \in Bodies,
           BoxInv(b, asked[c]), IdsUpTo(b, frames[c]),
           ResponseIdsOf(b) = ResponseIdsOf(inbox[c]),
           AnsweredBelow(b, current[c].id), Fits(current[c].kind, body),
           LastIsPlain(b) \/ b[Len(b)].id = current[c].id,
           body.status = "output" => EndsInBlock(b, current[c].id, body.events),
           inbox'[c] = b \o <<Response(current[c].id, body)>>
    PROVE  ClientInv(c)'
<1>. DEFINE m == Response(current[c].id, body)
<1>1. /\ current[c] \in asked[c] /\ current[c].id \in Nat
      /\ current[c].id \in 1 .. frames[c]
  BY ClientTypes DEF ClientInv, RequestsInv
<1>2. /\ BoxInv(b \o <<m>>, asked[c]) /\ LastIsPlain(b \o <<m>>)
      /\ ResponseIdsOf(b \o <<m>>) = ResponseIdsOf(b) \cup {current[c].id}
  <2>. DEFINE as == asked[c]
              r == current[c]
  <2>1. /\ r \in as /\ r.id \in Nat /\ as \subseteq as /\ Fits(r.kind, body) /\ BoxInv(b, as)
        /\ AnsweredBelow(b, r.id) /\ (LastIsPlain(b) \/ b[Len(b)].id = r.id)
        /\ body.status = "output" => EndsInBlock(b, r.id, body.events)
    BY <1>1
  <2>. HIDE DEF as, r
  <2>2. /\ BoxInv(b \o <<Response(r.id, body)>>, as)
        /\ LastIsPlain(b \o <<Response(r.id, body)>>)
        /\ ResponseIdsOf(b \o <<Response(r.id, body)>>) = ResponseIdsOf(b) \cup {r.id}
    BY <2>1, PushAnswer
  <2>. QED  BY <2>2 DEF as, r
<1>3. m \in Frames /\ m.id = current[c].id
  BY <1>1, FrameTypes, FrameFields
<1>4. IdsUpTo(b \o <<m>>, frames[c])
  BY <1>1, <1>3, PushIdsUpTo
<1>. HIDE DEF m
<1>. QED  BY <1>2, <1>4, RequestOver DEF m

\* The answer to a request that is not streamed.
LEMMA PlainAnswer ==
    ASSUME TypeOK, NEW c \in Clients, ClientInv(c), handler[c] \in {"submit", "await"},
           NEW body \in Bodies, Fits(current[c].kind, body), body.status # "output",
           Send(c, <<Response(current[c].id, body)>>, "read", "closed"),
           DropChannels(c), UNCHANGED connVars, UNCHANGED workerVars
    PROVE  ClientInv(c)'
<1>1. /\ gone'[c] = gone[c] /\ shaken'[c] = shaken[c] /\ frames'[c] = frames[c]
      /\ asked'[c] = asked[c] /\ overlapped'[c] = overlapped[c]
      /\ Outstanding' = Outstanding /\ handler[c] \in Requesting
  BY DEF connVars, workerVars, Outstanding, Requesting
<1>2. CASE gone[c]
  <2>1. inbox'[c] = inbox[c] /\ handler'[c] \in {"read", "closed"}
    BY <1>2, SendOwn
  <2>. QED  BY <1>1, <1>2, <2>1, RequestLost
<1>3. CASE ~gone[c]
  <2>1. inbox'[c] = inbox[c] \o <<Response(current[c].id, body)>> /\ handler'[c] = "read"
    BY <1>3, SendOwn
  <2>2. /\ LastIsPlain(inbox[c]) /\ BoxInv(inbox[c], asked[c])
        /\ IdsUpTo(inbox[c], frames[c])
        /\ AnsweredBelow(inbox[c], current[c].id)
    BY <1>3 DEF ClientInv, StreamInv, IdsInv, IdsUpTo, AnsweredBelow, IsResponse
  <2>3. inbox[c] \in Seq(Frames)
    BY ClientTypes
  <2>. QED  BY <1>1, <1>3, <2>1, <2>2, <2>3, AnswerSent
<1>. QED  BY <1>2, <1>3

\* A request the worker cannot take is answered with an error.
LEMMA SubmitUnavailableInv ==
    ASSUME TypeOK, NEW c \in Clients, ClientInv(c), SubmitUnavailable(c)
    PROVE  ClientInv(c)'
<1>1. Failure \in Bodies /\ Fits(current[c].kind, Failure) /\ Failure.status # "output"
  BY FrameTypes DEF Fits, Failure
<1>. QED  BY <1>1, PlainAnswer DEF SubmitUnavailable

\* What the handler finds in the response channel fits its request.
LEMMA AnswerFits ==
    ASSUME TypeOK, NEW c \in Clients, ClientInv(c)
    PROVE  /\ Answer(c) \in Bodies /\ Fits(current[c].kind, Answer(c))
           /\ Answer(c) = reply[c] \/ Answer(c) = Failure
<1>1. Answer(c) \in Bodies
  BY AnswerType
<1>2. CASE reply[c] = NoReply
  BY <1>1, <1>2 DEF Answer, Fits
<1>3. CASE reply[c] # NoReply
  BY <1>1, <1>3 DEF Answer, ClientInv, ReplyInv
<1>. QED  BY <1>2, <1>3

\* A history or a reset is answered when its reply is there.
LEMMA AwaitReplyInv ==
    ASSUME TypeOK, NEW c \in Clients, ClientInv(c), AwaitReply(c)
    PROVE  ClientInv(c)'
<1>1. handler[c] = "await" /\ current[c].kind \in {"history", "reset"}
  BY DEF AwaitReply, ClientInv, RequestsInv, Requesting, JobKinds
<1>2. Answer(c).status # "output"
  BY <1>1, AnswerFits DEF Fits, Failure
<1>. QED  BY <1>1, <1>2, AnswerFits, PlainAnswer DEF AwaitReply

\* The client of a turn has gone: the channels are dropped.
LEMMA StreamEndInv ==
    ASSUME TypeOK, NEW c \in Clients, ClientInv(c), StreamEnd(c)
    PROVE  ClientInv(c)'
<1>1. handler[c] \in Requesting /\ gone[c] /\ DropChannels(c)
  BY DEF StreamEnd, Requesting
<1>2. /\ gone'[c] = gone[c] /\ shaken'[c] = shaken[c] /\ frames'[c] = frames[c]
      /\ asked'[c] = asked[c] /\ overlapped'[c] = overlapped[c]
      /\ Outstanding' = Outstanding /\ inbox'[c] = inbox[c] /\ handler'[c] = "read"
  BY DEF StreamEnd, workerVars, Outstanding, TypeOK
<1>. QED  BY <1>1, <1>2, RequestLost

\* A notification is forwarded, or the request is given up.
LEMMA StreamProgressInv ==
    ASSUME TypeOK, NEW c \in Clients, ClientInv(c), StreamProgress(c)
    PROVE  ClientInv(c)'
<1>. DEFINE m == Progress(current[c].id, Head(channel[c]))
<1>0. /\ handler[c] = "stream" /\ handler[c] \in Requesting /\ channel[c] # <<>>
      /\ channel[c] \in Seq(Nat) /\ current[c].id \in Nat /\ inbox[c] \in Seq(Frames)
  BY ClientTypes DEF StreamProgress, Requesting
<1>1. /\ gone'[c] = gone[c] /\ shaken'[c] = shaken[c] /\ frames'[c] = frames[c]
      /\ asked'[c] = asked[c] /\ overlapped'[c] = overlapped[c]
      /\ Outstanding' = Outstanding /\ job' = job /\ emitted' = emitted
  BY DEF StreamProgress, connVars, workerVars, Outstanding
<1>2. /\ gone[c] => inbox'[c] = inbox[c] /\ handler'[c] \in {"stream", "read"}
      /\ ~gone[c] => inbox'[c] = inbox[c] \o <<m>> /\ handler'[c] = "stream"
  BY SendOwn DEF StreamProgress
<1>3. CASE handler'[c] # "stream"
  <2>1. gone[c] /\ handler'[c] \in {"read", "closed"} /\ DropChannels(c)
    BY <1>2, <1>3 DEF StreamProgress
  <2>. QED  BY <1>0, <1>1, <1>2, <2>1, RequestLost
<1>4. CASE handler'[c] = "stream"
  <2>. DEFINE ch == channel[c]
              b == inbox[c]
              id == current[c].id
  <2>1. /\ channel'[c] = Tail(ch) /\ current'[c] = current[c] /\ reply'[c] = reply[c]
    BY <1>4 DEF StreamProgress, TypeOK
  <2>2. /\ Head(ch) \in Nat /\ Tail(ch) \in Seq(Nat) /\ Len(Tail(ch)) = Len(ch) - 1
        /\ Head(ch) = ch[1] /\ Len(ch) \in Nat /\ Len(ch) > 0
        /\ DOMAIN ch = 1 .. Len(ch) /\ DOMAIN Tail(ch) = 1 .. Len(ch) - 1
        /\ \A i \in 1 .. Len(ch) - 1 : Tail(ch)[i] = ch[i + 1]
    <3>1. Tail(ch) \in Seq(Nat) /\ Len(Tail(ch)) = Len(ch) - 1
      BY <1>0, HeadTailProperties
    <3>2. DOMAIN Tail(ch) = 1 .. Len(ch) - 1
      BY <3>1, LenProperties
    <3>. QED  BY <1>0, <3>1, <3>2, HeadTailProperties, LenProperties, EmptySeq
  <2>3. m \in Frames /\ m.id = id /\ m.type = "progress" /\ ~IsResponse(m)
    BY <1>0, <2>2, FrameTypes, FrameFields DEF IsResponse
  <2>4. /\ BoxInv(b, asked[c]) /\ IdsUpTo(b, frames[c]) /\ id \in 1 .. frames[c]
        /\ AnsweredBelow(b, id)
    BY <1>0 DEF ClientInv, IdsInv, IdsUpTo, AnsweredBelow, IsResponse, RequestsInv
  <2>5. CASE gone[c]
    <3>1. inbox'[c] = b
      BY <1>2, <2>5
    <3>2. StreamInv(c, handler[c], gone[c], current[c], channel[c], reply[c],
                    inbox[c], Outstanding, job, emitted)'
      BY <1>1, <1>4, <2>5 DEF StreamInv
    <3>. QED
      BY <1>0, <1>1, <1>4, <2>1, <3>1, <3>2 DEF ClientInv, JobInv, ReplyInv, ShakenInv,
         RequestsInv, IdsInv, AnsweredInv
  <2>6. CASE ~gone[c]
    <3>. DEFINE w == b \o <<m>>
    <3>1. PICK p \in 0 .. Len(b) :
              /\ EndsInBlock(b, id, p)
              /\ \A i \in DOMAIN ch : ch[i] = p + i
              /\ \A j \in Outstanding : IsJobOf(j, c, current[c]) =>
                    Reported(j, job, emitted) = p + Len(ch)
              /\ reply[c].status = "output" => reply[c].events = p + Len(ch)
      BY <1>0, <2>6 DEF ClientInv, StreamInv
    <3>2. /\ <<m>> \in Seq(Frames) /\ Len(<<m>>) = 1 /\ <<m>>[1] = m /\ m = Progress(id, p + 1)
          /\ p \in Nat
      BY <2>2, <2>3, <3>1
    <3>3. AreNotes(<<m>>, id, p)
      BY <3>2 DEF AreNotes
    <3>. HIDE DEF m
    <3>4. /\ w \in Seq(Frames) /\ BoxInv(w, asked[c]) /\ EndsInBlock(w, id, p + Len(<<m>>))
          /\ ResponseIdsOf(w) = ResponseIdsOf(b)
          /\ IdsUpTo(w, frames[c]) /\ AnsweredBelow(w, id)
      <4>. DEFINE as == asked[c]
                  ms == <<m>>
                  f == frames[c]
      <4>1. /\ b \in Seq(Frames) /\ BoxInv(b, as) /\ id \in Nat /\ p \in Nat
            /\ EndsInBlock(b, id, p) /\ ms \in Seq(Frames) /\ AreNotes(ms, id, p)
            /\ IdsUpTo(b, f) /\ id \in 1 .. f /\ AnsweredBelow(b, id)
        BY <1>0, <2>4, <3>1, <3>2, <3>3
      <4>. HIDE DEF as, ms, b, id, f
      <4>2. /\ b \o ms \in Seq(Frames) /\ BoxInv(b \o ms, as)
            /\ EndsInBlock(b \o ms, id, p + Len(ms)) /\ ResponseIdsOf(b \o ms) = ResponseIdsOf(b)
            /\ IdsUpTo(b \o ms, f) /\ AnsweredBelow(b \o ms, id)
        BY <4>1, PushNotes
      <4>. QED  BY <4>2 DEF as, ms, b, id, f
    <3>5. EndsInBlock(w, id, p + 1) /\ p + 1 \in 0 .. Len(w)
      BY <3>2, <3>4 DEF EndsInBlock
    <3>. HIDE DEF w
    <3>8. inbox'[c] = w
      BY <1>2, <2>6 DEF w, m
    <3>9. /\ \A i \in DOMAIN Tail(ch) : Tail(ch)[i] = (p + 1) + i
          /\ p + Len(ch) = (p + 1) + Len(Tail(ch))
      <4>. DEFINE l == Len(ch)
      <4>1. l \in Nat /\ l > 0 /\ p \in Nat /\ Len(Tail(ch)) = l - 1
        BY <2>2, <3>2
      <4>. HIDE DEF l
      <4>2. \A i \in 1 .. l - 1 : i + 1 \in 1 .. l /\ p + (i + 1) = (p + 1) + i
        BY <4>1
      <4>3. p + l = (p + 1) + (l - 1)
        BY <4>1
      <4>4. \A i \in 1 .. l - 1 : Tail(ch)[i] = (p + 1) + i
        BY <2>2, <3>1, <4>2 DEF l
      <4>. QED  BY <2>2, <4>1, <4>3, <4>4 DEF l
    <3>10. StreamInv(c, "stream", FALSE, current[c], Tail(ch), reply[c], w, Outstanding, job, emitted)
      <4>1. EndsInBlock(w, current[c].id, p + 1)
        BY <3>5
      <4>2. \A j \in Outstanding : IsJobOf(j, c, current[c]) =>
                Reported(j, job, emitted) = (p + 1) + Len(Tail(ch))
        BY <3>1, <3>9
      <4>3. reply[c].status = "output" => reply[c].events = (p + 1) + Len(Tail(ch))
        BY <3>1, <3>9
      <4>. QED  BY <3>5, <3>9, <4>1, <4>2, <4>3 DEF StreamInv
    <3>11. RequestsInv(handler[c], current[c], frames[c], asked[c], overlapped[c])'
      BY <1>1, <1>4, <1>0, <2>1 DEF ClientInv
    <3>12. (\A j \in Outstanding : JobInv(c, handler[c], current[c], asked[c], j))'
      BY <1>1, <1>4, <1>0, <2>1 DEF ClientInv
    <3>13. ReplyInv(c, handler[c], current[c], reply[c], Outstanding)'
      BY <1>1, <1>4, <1>0, <2>1 DEF ClientInv
    <3>14. IdsInv(handler[c], current[c], frames[c], inbox[c])'
      BY <1>1, <1>4, <2>1, <3>4, <3>8 DEF IdsInv, IdsUpTo, AnsweredBelow, IsResponse
    <3>15. ShakenInv(handler[c], shaken[c], asked[c], inbox[c])'
      BY <1>0, <1>1, <1>4 DEF ClientInv, ShakenInv
    <3>16. AnsweredInv(handler[c], gone[c], current[c], asked[c], overlapped[c], inbox[c])'
      BY <1>0, <1>1, <1>4, <2>1, <3>4, <3>8 DEF ClientInv, AnsweredInv
    <3>17. StreamInv(c, handler[c], gone[c], current[c], channel[c], reply[c],
                     inbox[c], Outstanding, job, emitted)'
      BY <1>1, <1>4, <2>1, <2>6, <3>8, <3>10 DEF StreamInv
    <3>. QED
      BY <1>1, <3>4, <3>8, <3>11, <3>12, <3>13, <3>14, <3>15, <3>16, <3>17 DEF ClientInv
  <2>. QED  BY <2>5, <2>6
<1>. QED  BY <1>3, <1>4

\* The response of a turn, after what is left in the progress channel.
LEMMA StreamReplyInv ==
    ASSUME TypeOK, NEW c \in Clients, ClientInv(c), StreamReply(c)
    PROVE  ClientInv(c)'
<1>. DEFINE ch == channel[c]
            b == inbox[c]
            id == current[c].id
            as == asked[c]
            rest == [i \in DOMAIN ch |-> Progress(id, ch[i])]
            m == Response(id, Answer(c))
<1>1. /\ gone'[c] = gone[c] /\ shaken'[c] = shaken[c] /\ frames'[c] = frames[c]
      /\ asked'[c] = asked[c] /\ overlapped'[c] = overlapped[c]
      /\ Outstanding' = Outstanding /\ DropChannels(c)
  BY DEF StreamReply, connVars, workerVars, Outstanding
<1>2. /\ handler[c] = "stream" /\ handler[c] \in Requesting
      /\ \/ Send(c, Append(rest, m), "read", "closed")
         \/ gone[c] /\ Send(c, <<>>, "read", "read")
  BY DEF StreamReply, Requesting
<1>3. CASE gone[c]
  <2>1. inbox'[c] = inbox[c] /\ handler'[c] \in {"read", "closed"}
    BY <1>2, <1>3, SendOwn
  <2>. QED  BY <1>1, <1>2, <1>3, <2>1, RequestLost
<1>4. CASE ~gone[c]
  <2>1. inbox'[c] = b \o Append(rest, m) /\ handler'[c] = "read"
    BY <1>2, <1>4, SendOwn
  <2>2. /\ ch \in Seq(Nat) /\ b \in Seq(Frames) /\ id \in Nat
        /\ rest \in Seq(Frames) /\ m \in Frames /\ Answer(c) \in Bodies
    BY ClientTypes, RestType, AnswerType
  <2>3. /\ BoxInv(b, as) /\ IdsUpTo(b, frames[c]) /\ id \in 1 .. frames[c]
        /\ AnsweredBelow(b, id)
    BY <1>2 DEF ClientInv, IdsInv, IdsUpTo, AnsweredBelow, IsResponse, RequestsInv
  <2>4. PICK p \in 0 .. Len(b) :
            /\ EndsInBlock(b, id, p)
            /\ \A i \in DOMAIN ch : ch[i] = p + i
            /\ reply[c].status = "output" => reply[c].events = p + Len(ch)
    BY <1>2, <1>4 DEF ClientInv, StreamInv
  <2>5. Len(ch) \in Nat /\ DOMAIN ch = 1 .. Len(ch) /\ p \in Nat
    BY <2>2, <2>4, LenProperties
  <2>6. Len(rest) = Len(ch) /\ AreNotes(rest, id, p)
    <3>1. DOMAIN rest = 1 .. Len(ch)
      BY <2>5
    <3>2. \A k \in 1 .. Len(ch) : rest[k] = Progress(id, p + k)
      BY <2>4, <2>5
    <3>. HIDE DEF rest
    <3>3. Len(rest) = Len(ch)
      BY <2>2, <2>5, <3>1, LenProperties
    <3>. QED  BY <3>2, <3>3 DEF AreNotes
  <2>. HIDE DEF rest, m
  <2>7. b \o Append(rest, m) = (b \o rest) \o <<m>>
    <3>. DEFINE u == <<m>>
    <3>1. Append(rest, m) = rest \o u /\ u \in Seq(Frames)
      BY <2>2, AppendIsConcat
    <3>. HIDE DEF u, b
    <3>2. b \in Seq(Frames) /\ rest \in Seq(Frames) /\ u \in Seq(Frames)
      BY <2>2, <3>1
    <3>3. (b \o rest) \o u = b \o (rest \o u)
      BY ONLY <3>2, ConcatAssociative
    <3>. QED  BY <3>1, <3>3 DEF u
  <2>. DEFINE w == b \o rest
  <2>8. /\ w \in Seq(Frames) /\ BoxInv(w, as) /\ EndsInBlock(w, id, p + Len(ch))
        /\ ResponseIdsOf(w) = ResponseIdsOf(b)
        /\ IdsUpTo(w, frames[c]) /\ AnsweredBelow(w, id)
    <3>. DEFINE f == frames[c]
    <3>1. IdsUpTo(b, f) /\ id \in 1 .. f
      BY <2>3
    <3>. HIDE DEF b, id, as, ch, f
    <3>2. /\ w \in Seq(Frames) /\ BoxInv(w, as) /\ EndsInBlock(w, id, p + Len(rest))
          /\ ResponseIdsOf(w) = ResponseIdsOf(b)
          /\ IdsUpTo(w, f) /\ AnsweredBelow(w, id)
      BY <2>2, <2>3, <2>4, <2>5, <2>6, <3>1, PushNotes
    <3>. QED  BY <2>6, <3>2 DEF f
  <2>. HIDE DEF w
  <2>10. LastIsPlain(w) \/ w[Len(w)].id = id
    BY <2>8, BlockEnd
  <2>11. Fits(current[c].kind, Answer(c)) /\ (Answer(c) = reply[c] \/ Answer(c) = Failure)
    BY AnswerFits
  <2>12. Answer(c).status = "output" => EndsInBlock(w, id, Answer(c).events)
    BY <2>4, <2>8, <2>11 DEF Failure
  <2>13. inbox'[c] = w \o <<Response(current[c].id, Answer(c))>>
    BY <2>1, <2>7 DEF w, m
  <2>. QED
    BY <1>1, <1>2, <1>4, <2>1, <2>2, <2>8, <2>10, <2>11, <2>12, <2>13, AnswerSent
<1>. QED  BY <1>3, <1>4

\* A frame is read that asks for nothing the worker has to do.
LEMMA ReadOver ==
    ASSUME NEW c \in Clients, ClientInv(c), handler[c] = "read",
           handler'[c] \in {"read", "closed"},
           current'[c] = current[c], channel'[c] = channel[c], reply'[c] = reply[c],
           gone'[c] = gone[c], Outstanding' = Outstanding, asked[c] \subseteq asked'[c],
           RequestsInv(handler[c], current[c], frames[c], asked[c], overlapped[c])',
           ShakenInv(handler[c], shaken[c], asked[c], inbox[c])',
           BoxInv(inbox'[c], asked'[c]), IdsUpTo(inbox'[c], frames'[c]),
           ~gone[c] => /\ handler'[c] = "read" /\ LastIsPlain(inbox'[c])
                       /\ ResponseIdsOf(inbox'[c]) = {r.id : r \in asked'[c] \ overlapped'[c]}
    PROVE  ClientInv(c)'
<1>. USE DEF ClientInv
<1>1. reply[c] = NoReply /\ channel[c] = <<>>
  BY DEF ReplyInv, StreamInv
<1>2. (\A j \in Outstanding : JobInv(c, handler[c], current[c], asked[c], j))'
  BY DEF JobInv
<1>3. ReplyInv(c, handler[c], current[c], reply[c], Outstanding)'
  BY <1>1 DEF ReplyInv
<1>4. IdsInv(handler[c], current[c], frames[c], inbox[c])'
  BY DEF IdsInv, IdsUpTo
<1>5. StreamInv(c, handler[c], gone[c], current[c], channel[c], reply[c],
                inbox[c], Outstanding, job, emitted)'
  BY <1>1 DEF StreamInv
<1>6. AnsweredInv(handler[c], gone[c], current[c], asked[c], overlapped[c], inbox[c])'
  BY DEF AnsweredInv, Requesting
<1>. QED  BY <1>2, <1>3, <1>4, <1>5, <1>6

\* While a connection reads, its client has every answer.
LEMMA AllAnswered ==
    ASSUME TypeOK, NEW c \in Clients, ClientInv(c), handler[c] = "read"
    PROVE  /\ RequestsInv("read", current[c], frames[c], asked[c], overlapped[c])
           /\ BoxInv(inbox[c], asked[c]) /\ IdsUpTo(inbox[c], frames[c])
           /\ ~gone[c] => /\ LastIsPlain(inbox[c])
                          /\ ResponseIdsOf(inbox[c]) = {r.id : r \in asked[c] \ overlapped[c]}
BY DEF ClientInv, IdsInv, IdsUpTo, StreamInv, AnsweredInv, Requesting

\* An ack or an error on a connection that reads.
LEMMA PlainSent ==
    ASSUME TypeOK, NEW c \in Clients, ClientInv(c), handler[c] = "read",
           NEW m \in {Ack, NullError}, Send(c, <<m>>, "read", "closed"),
           NEW n \in Nat, n >= frames[c]
    PROVE  /\ handler'[c] \in {"read", "closed"}
           /\ BoxInv(inbox'[c], asked[c]) /\ IdsUpTo(inbox'[c], n)
           /\ ~gone[c] => /\ handler'[c] = "read" /\ LastIsPlain(inbox'[c])
                          /\ ResponseIdsOf(inbox'[c]) = {r.id : r \in asked[c] \ overlapped[c]}
           /\ \A i \in DOMAIN inbox'[c] :
                 inbox'[c][i] \in {NullError, Ack} \/ (i \in DOMAIN inbox[c] /\ inbox'[c][i] = inbox[c][i])
<1>. DEFINE b == inbox[c]
            w == b \o <<m>>
<1>1. /\ b \in Seq(Frames) /\ m \in Frames /\ m.type \notin {"progress", "response"}
      /\ frames[c] \in Nat
  BY ClientTypes, FrameTypes, FrameFields
<1>2. /\ BoxInv(b, asked[c]) /\ IdsUpTo(b, frames[c])
      /\ ~gone[c] => /\ LastIsPlain(b)
                     /\ ResponseIdsOf(b) = {r.id : r \in asked[c] \ overlapped[c]}
  BY AllAnswered
<1>3. IdsUpTo(b, n)
  BY <1>1, <1>2 DEF IdsUpTo
<1>4. CASE gone[c]
  BY <1>2, <1>3, <1>4, SendOwn
<1>5. CASE ~gone[c]
  <2>1. inbox'[c] = w /\ handler'[c] = "read"
    BY <1>5, SendOwn
  <2>2. IdsUpTo(w, n)
    BY <1>1, <1>3, PushIdsUpTo
  <2>3. BoxInv(w, asked[c]) /\ LastIsPlain(w) /\ ResponseIdsOf(w) = ResponseIdsOf(b)
    <3>. DEFINE as == asked[c]
    <3>1. b \in Seq(Frames) /\ BoxInv(b, as) /\ LastIsPlain(b)
      BY <1>1, <1>2, <1>5
    <3>. HIDE DEF as, b
    <3>. QED  BY <3>1, PushPlain DEF as
  <2>4. \A i \in DOMAIN w : w[i] = m \/ (i \in DOMAIN b /\ w[i] = b[i])
    <3>1. /\ DOMAIN w = 1 .. Len(b) + 1 /\ DOMAIN b = 1 .. Len(b) /\ Len(b) \in Nat
          /\ \A i \in 1 .. Len(b) : w[i] = b[i]
          /\ w[Len(b) + 1] = m
      BY <1>1, JoinedOne
    <3>. QED  BY <3>1
  <2>. QED  BY <1>2, <1>5, <2>1, <2>2, <2>3, <2>4
<1>. QED  BY <1>4, <1>5

\* A handshake is acknowledged once.
LEMMA ReadHandshakeInv ==
    ASSUME TypeOK, NEW c \in Clients, ClientInv(c), ReadHandshake(c)
    PROVE  ClientInv(c)'
<1>1. /\ gone'[c] = gone[c] /\ frames'[c] = frames[c] /\ frames[c] \in Nat
      /\ asked'[c] = asked[c] /\ overlapped'[c] = overlapped[c]
      /\ current'[c] = current[c] /\ channel'[c] = channel[c] /\ reply'[c] = reply[c]
      /\ Outstanding' = Outstanding /\ handler[c] = "read" /\ ~shaken[c]
      /\ shaken'[c] = (handler'[c] = "read")
  BY ClientTypes DEF ReadHandshake, workerVars, Outstanding, TypeOK
<1>2. /\ handler'[c] \in {"read", "closed"}
      /\ BoxInv(inbox'[c], asked[c]) /\ IdsUpTo(inbox'[c], frames[c])
      /\ ~gone[c] => /\ handler'[c] = "read" /\ LastIsPlain(inbox'[c])
                     /\ ResponseIdsOf(inbox'[c]) = {r.id : r \in asked[c] \ overlapped[c]}
      /\ \A i \in DOMAIN inbox'[c] :
            inbox'[c][i] \in {NullError, Ack} \/ (i \in DOMAIN inbox[c] /\ inbox'[c][i] = inbox[c][i])
  BY <1>1, PlainSent DEF ReadHandshake
<1>3. ShakenInv(handler[c], shaken[c], asked[c], inbox[c])'
  BY <1>1, <1>2 DEF ClientInv, ShakenInv
<1>4. RequestsInv(handler[c], current[c], frames[c], asked[c], overlapped[c])'
  BY <1>1, <1>2 DEF ClientInv, RequestsInv, Requesting
<1>. QED  BY <1>1, <1>2, <1>3, <1>4, ReadOver

\* A frame that is no handshake is refused before one.
LEMMA ReadInvalidInv ==
    ASSUME TypeOK, NEW c \in Clients, ClientInv(c), ReadInvalid(c)
    PROVE  ClientInv(c)'
<1>1. /\ gone'[c] = gone[c] /\ frames'[c] = frames[c] + 1 /\ frames[c] \in Nat
      /\ asked'[c] = asked[c] /\ overlapped'[c] = overlapped[c]
      /\ current'[c] = current[c] /\ channel'[c] = channel[c] /\ reply'[c] = reply[c]
      /\ Outstanding' = Outstanding /\ handler[c] = "read" /\ shaken'[c] = shaken[c]
  BY ClientTypes DEF ReadInvalid, ReadFrame, workerVars, Outstanding, TypeOK
<1>2. /\ handler'[c] \in {"read", "closed"}
      /\ BoxInv(inbox'[c], asked[c]) /\ IdsUpTo(inbox'[c], frames[c] + 1)
      /\ ~gone[c] => /\ handler'[c] = "read" /\ LastIsPlain(inbox'[c])
                     /\ ResponseIdsOf(inbox'[c]) = {r.id : r \in asked[c] \ overlapped[c]}
      /\ \A i \in DOMAIN inbox'[c] :
            inbox'[c][i] \in {NullError, Ack} \/ (i \in DOMAIN inbox[c] /\ inbox'[c][i] = inbox[c][i])
  <2>. DEFINE n == frames[c] + 1
  <2>1. n \in Nat /\ n >= frames[c]
    BY <1>1
  <2>. HIDE DEF n
  <2>2. NullError \in {Ack, NullError} /\ Send(c, <<NullError>>, "read", "closed")
    BY DEF ReadInvalid
  <2>. DEFINE m == NullError
  <2>. HIDE DEF m
  <2>3. m \in {Ack, NullError} /\ Send(c, <<m>>, "read", "closed")
    BY <2>2 DEF m
  <2>4. IdsUpTo(inbox'[c], n)
    BY <1>1, <2>1, <2>3, PlainSent
  <2>. QED  BY <1>1, <2>1, <2>3, <2>4, PlainSent DEF n
<1>3. ShakenInv(handler[c], shaken[c], asked[c], inbox[c])'
  BY <1>1, <1>2 DEF ClientInv, ShakenInv
<1>4. RequestsInv(handler[c], current[c], frames[c], asked[c], overlapped[c])'
  BY <1>1, <1>2 DEF ClientInv, RequestsInv, Requesting
<1>. QED  BY <1>1, <1>2, <1>3, <1>4, ReadOver

\* A frame that is no request is answered with an error.
LEMMA ReadErrorInv ==
    ASSUME TypeOK, NEW c \in Clients, ClientInv(c), ReadError(c)
    PROVE  ClientInv(c)'
<1>1. /\ gone'[c] = gone[c] /\ frames'[c] = frames[c] /\ frames[c] \in Nat
      /\ asked'[c] = asked[c] /\ overlapped'[c] = overlapped[c]
      /\ current'[c] = current[c] /\ channel'[c] = channel[c] /\ reply'[c] = reply[c]
      /\ Outstanding' = Outstanding /\ handler[c] = "read" /\ shaken'[c] = shaken[c]
  BY ClientTypes DEF ReadError, workerVars, Outstanding, TypeOK
<1>2. /\ handler'[c] \in {"read", "closed"}
      /\ BoxInv(inbox'[c], asked[c]) /\ IdsUpTo(inbox'[c], frames[c])
      /\ ~gone[c] => /\ handler'[c] = "read" /\ LastIsPlain(inbox'[c])
                     /\ ResponseIdsOf(inbox'[c]) = {r.id : r \in asked[c] \ overlapped[c]}
      /\ \A i \in DOMAIN inbox'[c] :
            inbox'[c][i] \in {NullError, Ack} \/ (i \in DOMAIN inbox[c] /\ inbox'[c][i] = inbox[c][i])
  BY <1>1, PlainSent DEF ReadError
<1>3. ShakenInv(handler[c], shaken[c], asked[c], inbox[c])'
  BY <1>1, <1>2 DEF ClientInv, ShakenInv
<1>4. RequestsInv(handler[c], current[c], frames[c], asked[c], overlapped[c])'
  BY <1>1, <1>2 DEF ClientInv, RequestsInv, Requesting
<1>. QED  BY <1>1, <1>2, <1>3, <1>4, ReadOver

\* A handler whose client has gone is done.
LEMMA ReadEndInv ==
    ASSUME TypeOK, NEW c \in Clients, ClientInv(c), ReadEnd(c)
    PROVE  ClientInv(c)'
<1>1. /\ gone'[c] = gone[c] /\ frames'[c] = frames[c] /\ gone[c]
      /\ asked'[c] = asked[c] /\ overlapped'[c] = overlapped[c]
      /\ current'[c] = current[c] /\ channel'[c] = channel[c] /\ reply'[c] = reply[c]
      /\ Outstanding' = Outstanding /\ handler[c] = "read" /\ shaken'[c] = shaken[c]
      /\ inbox'[c] = inbox[c] /\ handler'[c] = "closed"
  BY ClientTypes DEF ReadEnd, workerVars, Outstanding, TypeOK
<1>2. BoxInv(inbox'[c], asked[c]) /\ IdsUpTo(inbox'[c], frames[c])
  BY <1>1, AllAnswered
<1>3. ShakenInv(handler[c], shaken[c], asked[c], inbox[c])'
  BY <1>1 DEF ClientInv, ShakenInv
<1>4. RequestsInv(handler[c], current[c], frames[c], asked[c], overlapped[c])'
  BY <1>1 DEF ClientInv, RequestsInv, Requesting
<1>. QED  BY <1>1, <1>2, <1>3, <1>4, ReadOver

\* The request of the next frame is a new one.
LEMMA NewRequest ==
    ASSUME TypeOK, NEW c \in Clients, ClientInv(c), NEW kind
    PROVE  /\ \A q \in asked[c] : q.id \in 1 .. frames[c] /\ q.id \in 1 .. frames[c] + 1
                                  /\ q.id # frames[c] + 1 /\ q.id < frames[c] + 1
           /\ Request(frames[c] + 1, kind) \notin asked[c]
           /\ Request(frames[c] + 1, kind) \notin overlapped[c]
           /\ Request(frames[c] + 1, kind).id = frames[c] + 1
           /\ Request(frames[c] + 1, kind).kind = kind
           /\ frames[c] + 1 \in Nat /\ frames[c] + 1 \in 1 .. frames[c] + 1
           /\ frames[c] \in Nat
<1>1. frames[c] \in Nat
  BY ClientTypes
<1>2. (\A q \in asked[c] : q.id \in 1 .. frames[c]) /\ overlapped[c] \subseteq asked[c]
  BY DEF ClientInv, RequestsInv
<1>3. /\ Request(frames[c] + 1, kind).id = frames[c] + 1
      /\ Request(frames[c] + 1, kind).kind = kind
  BY DEF Request
<1>. QED  BY <1>1, <1>2, <1>3

\* reshape.ping, an unknown method or bad params.
LEMMA ReadImmediateInv ==
    ASSUME TypeOK, NEW c \in Clients, ClientInv(c), NEW body \in {Pong, Failure},
           ReadImmediate(c, body)
    PROVE  ClientInv(c)'
<1>. DEFINE n == frames[c] + 1
            r == Request(n, body.status)
            as == asked[c]
            ov == overlapped[c]
            b == inbox[c]
<1>1. /\ gone'[c] = gone[c] /\ frames'[c] = n
      /\ asked'[c] = as \cup {r} /\ overlapped'[c] = ov
      /\ current'[c] = current[c] /\ channel'[c] = channel[c] /\ reply'[c] = reply[c]
      /\ Outstanding' = Outstanding /\ handler[c] = "read" /\ shaken'[c] = shaken[c]
      /\ shaken[c] /\ Send(c, <<Response(n, body)>>, "read", "closed")
  BY ClientTypes DEF ReadImmediate, ReadFrame, workerVars, Outstanding, TypeOK
<1>2. /\ \A q \in as : q.id \in 1 .. frames[c] /\ q.id \in 1 .. n /\ q.id # n /\ q.id < n
      /\ r \notin as /\ r \notin ov /\ r.id = n /\ r.kind = body.status
      /\ n \in Nat /\ n \in 1 .. n /\ frames[c] \in Nat
  BY NewRequest
<1>3. /\ RequestsInv("read", current[c], frames[c], as, ov)
      /\ BoxInv(b, as) /\ IdsUpTo(b, frames[c]) /\ b \in Seq(Frames)
      /\ ~gone[c] => LastIsPlain(b) /\ ResponseIdsOf(b) = {q.id : q \in as \ ov}
  BY <1>1, AllAnswered, ClientTypes
<1>4. IdsUpTo(b, n) /\ AnsweredBelow(b, n)
  BY <1>2, <1>3 DEF IdsUpTo, AnsweredBelow, IsResponse
<1>5. body \in Bodies /\ Fits(body.status, body) /\ body.status # "output"
  BY FrameTypes DEF Fits, Pong, Failure
<1>. HIDE DEF n, r, as, ov, b
<1>6. {q.id : q \in (as \cup {r}) \ ov} = {q.id : q \in as \ ov} \cup {n}
  BY <1>2
<1>7. RequestsInv(handler[c], current[c], frames[c], asked[c], overlapped[c])'
  <2>1. handler'[c] \in {"read", "closed"}
    BY <1>1, SendOwn
  <2>2. \A q, s \in as \cup {r} : q.id = s.id => q = s
    BY <1>2, <1>3 DEF RequestsInv
  <2>. QED  BY <1>1, <1>2, <1>3, <2>1, <2>2 DEF RequestsInv, Requesting
<1>8. ShakenInv(handler[c], shaken[c], asked[c], inbox[c])'
  BY <1>1 DEF ShakenInv
<1>9. CASE gone[c]
  <2>1. inbox'[c] = b /\ handler'[c] \in {"read", "closed"}
    BY <1>1, <1>9, SendOwn DEF b
  <2>2. BoxInv(b, as \cup {r})
    <3>1. OrderInv(b, as \cup {r})
      BY <1>3 DEF BoxInv, OrderInv
    <3>. QED  BY <1>3, <3>1 DEF BoxInv
  <2>. QED  BY <1>1, <1>4, <1>7, <1>8, <1>9, <2>1, <2>2, ReadOver DEF as
<1>10. CASE ~gone[c]
  <2>. DEFINE m == Response(r.id, body)
              w == b \o <<m>>
  <2>1. inbox'[c] = w /\ handler'[c] = "read"
    BY <1>1, <1>2, <1>10, SendOwn DEF b
  <2>2. m \in Frames /\ m.id = n
    BY <1>2, <1>5, FrameTypes, FrameFields
  <2>3. IdsUpTo(w, n)
    BY <1>2, <1>3, <1>4, <2>2, PushIdsUpTo
  <2>4. BoxInv(w, as \cup {r}) /\ LastIsPlain(w) /\ ResponseIdsOf(w) = ResponseIdsOf(b) \cup {r.id}
    <3>. DEFINE bs == as \cup {r}
    <3>1. as \subseteq bs /\ r \in bs /\ r.id \in Nat /\ Fits(r.kind, body) /\ AnsweredBelow(b, r.id)
      BY <1>2, <1>4, <1>5
    <3>. HIDE DEF bs
    <3>2. /\ BoxInv(w, bs) /\ LastIsPlain(w)
          /\ ResponseIdsOf(w) = ResponseIdsOf(b) \cup {r.id}
      BY <1>3, <1>5, <1>10, <3>1, PushAnswer
    <3>. QED  BY <3>2 DEF bs
  <2>. HIDE DEF m, w
  <2>5. ResponseIdsOf(w) = {q.id : q \in (as \cup {r}) \ ov}
    BY <1>2, <1>3, <1>6, <1>10, <2>4
  <2>. QED  BY <1>1, <1>7, <1>8, <1>10, <2>1, <2>3, <2>4, <2>5, ReadOver DEF as
<1>. QED  BY <1>9, <1>10

\* A request for the worker is read.
LEMMA ReadAgentRequestInv ==
    ASSUME TypeOK, NEW c \in Clients, ClientInv(c), NEW kind \in JobKinds,
           ReadAgentRequest(c, kind)
    PROVE  ClientInv(c)'
<1>. DEFINE n == frames[c] + 1
            r == Request(n, kind)
            as == asked[c]
            ov == overlapped[c]
            b == inbox[c]
<1>1. /\ gone'[c] = gone[c] /\ frames'[c] = n
      /\ asked'[c] = as \cup {r} /\ overlapped'[c] = ov
      /\ current'[c] = r /\ channel'[c] = channel[c] /\ reply'[c] = reply[c]
      /\ Outstanding' = Outstanding /\ handler[c] = "read" /\ shaken'[c] = shaken[c]
      /\ shaken[c] /\ handler'[c] = "submit" /\ inbox'[c] = b
  BY ClientTypes DEF ReadAgentRequest, ReadFrame, workerVars, Outstanding, TypeOK
<1>2. /\ \A q \in as : q.id \in 1 .. frames[c] /\ q.id \in 1 .. n /\ q.id # n /\ q.id < n
      /\ r \notin as /\ r \notin ov /\ r.id = n /\ r.kind = kind
      /\ n \in Nat /\ n \in 1 .. n /\ frames[c] \in Nat
  BY NewRequest
<1>3. /\ RequestsInv("read", current[c], frames[c], as, ov)
      /\ BoxInv(b, as) /\ IdsUpTo(b, frames[c]) /\ b \in Seq(Frames)
      /\ ~gone[c] => LastIsPlain(b) /\ ResponseIdsOf(b) = {q.id : q \in as \ ov}
  BY <1>1, AllAnswered, ClientTypes
<1>4. \A k \in DOMAIN b : b[k].type \in {"progress", "response"} => b[k].id \in 1 .. n /\ b[k].id < n
  BY <1>2, <1>3 DEF IdsUpTo
<1>5. reply[c] = NoReply /\ channel[c] = <<>>
  BY <1>1 DEF ClientInv, ReplyInv, StreamInv
<1>6. \A j \in Outstanding : j.client = c => Request(j.id, j.kind) \in as
  BY DEF ClientInv, JobInv
<1>. HIDE DEF n, r, as, ov, b
<1>7. RequestsInv(handler[c], current[c], frames[c], asked[c], overlapped[c])'
  <2>1. \A q, s \in as \cup {r} : q.id = s.id => q = s
    BY <1>2, <1>3 DEF RequestsInv
  <2>. QED  BY <1>1, <1>2, <1>3, <2>1 DEF RequestsInv, Requesting
<1>8. (\A j \in Outstanding : JobInv(c, handler[c], current[c], asked[c], j))'
  <2>1. \A j \in Outstanding : j.client = c => j.id # n
    BY <1>2, <1>6 DEF Request
  <2>. QED  BY <1>1, <1>2, <1>6, <2>1 DEF JobInv
<1>9. ReplyInv(c, handler[c], current[c], reply[c], Outstanding)'
  BY <1>1, <1>5 DEF ReplyInv
<1>10. BoxInv(b, as \cup {r})
  <2>1. OrderInv(b, as \cup {r})
    BY <1>3 DEF BoxInv, OrderInv
  <2>. QED  BY <1>3, <2>1 DEF BoxInv
<1>11. IdsInv(handler[c], current[c], frames[c], inbox[c])'
  BY <1>1, <1>2, <1>4 DEF IdsInv
<1>12. StreamInv(c, handler[c], gone[c], current[c], channel[c], reply[c],
                 inbox[c], Outstanding, job, emitted)'
  BY <1>1, <1>3, <1>5 DEF StreamInv
<1>13. ShakenInv(handler[c], shaken[c], asked[c], inbox[c])'
  BY <1>1 DEF ShakenInv
<1>14. AnsweredInv(handler[c], gone[c], current[c], asked[c], overlapped[c], inbox[c])'
  <2>1. {q.id : q \in (as \cup {r}) \ ov} \ {n} = {q.id : q \in as \ ov}
    BY <1>2
  <2>. QED  BY <1>1, <1>2, <1>3, <2>1 DEF AnsweredInv, Requesting
<1>. QED
  BY <1>1, <1>7, <1>8, <1>9, <1>10, <1>11, <1>12, <1>13, <1>14 DEF ClientInv

\* A frame that arrives during a turn is dropped.
LEMMA StreamOverlapInv ==
    ASSUME TypeOK, NEW c \in Clients, ClientInv(c), StreamOverlap(c)
    PROVE  ClientInv(c)'
<1>. DEFINE n == frames[c] + 1
            r == Request(n, "input")
            as == asked[c]
            ov == overlapped[c]
            b == inbox[c]
<1>1. /\ gone'[c] = gone[c] /\ frames'[c] = n
      /\ \/ asked'[c] = as \cup {r} /\ overlapped'[c] = ov \cup {r}
         \/ asked'[c] = as /\ overlapped'[c] = ov
      /\ current'[c] = current[c] /\ channel'[c] = channel[c] /\ reply'[c] = reply[c]
      /\ Outstanding' = Outstanding /\ job' = job /\ emitted' = emitted
      /\ handler[c] = "stream" /\ shaken'[c] = shaken[c]
      /\ handler'[c] = "stream" /\ inbox'[c] = b
  BY ClientTypes DEF StreamOverlap, workerVars, Outstanding, TypeOK
<1>2. /\ \A q \in as : q.id \in 1 .. frames[c] /\ q.id \in 1 .. n /\ q.id # n /\ q.id < n
      /\ r \notin as /\ r \notin ov /\ r.id = n
      /\ n \in Nat /\ n \in 1 .. n /\ frames[c] \in Nat
  BY NewRequest
<1>3. /\ RequestsInv("stream", current[c], frames[c], as, ov)
      /\ BoxInv(b, as) /\ IdsInv("stream", current[c], frames[c], b)
      /\ \A j \in Outstanding : JobInv(c, "stream", current[c], as, j)
      /\ ReplyInv(c, "stream", current[c], reply[c], Outstanding)
      /\ StreamInv(c, "stream", gone[c], current[c], channel[c], reply[c],
                   b, Outstanding, job, emitted)
      /\ ShakenInv("stream", shaken[c], as, b)
      /\ AnsweredInv("stream", gone[c], current[c], as, ov, b)
  BY <1>1 DEF ClientInv
<1>. HIDE DEF n, r, as, ov, b
<1>4. /\ as \subseteq asked'[c] /\ overlapped'[c] \subseteq asked'[c]
      /\ asked'[c] \ overlapped'[c] = as \ ov
      /\ \A q \in asked'[c] : q.id \in 1 .. n
      /\ \A q, s \in asked'[c] : q.id = s.id => q = s
  BY <1>1, <1>2, <1>3 DEF RequestsInv
<1>5. RequestsInv(handler[c], current[c], frames[c], asked[c], overlapped[c])'
  BY <1>1, <1>3, <1>4 DEF RequestsInv, Requesting
<1>6. (\A j \in Outstanding : JobInv(c, handler[c], current[c], asked[c], j))'
  BY <1>1, <1>3, <1>4 DEF JobInv
<1>7. BoxInv(b, asked'[c])
  <2>1. OrderInv(b, asked'[c])
    BY <1>3, <1>4, MoreAsked DEF BoxInv
  <2>. QED  BY <1>3, <2>1 DEF BoxInv
<1>8. IdsInv(handler[c], current[c], frames[c], inbox[c])'
  BY <1>1, <1>2, <1>3 DEF IdsInv, n
<1>9. ShakenInv(handler[c], shaken[c], asked[c], inbox[c])'
  BY <1>1, <1>3 DEF ShakenInv
<1>10. AnsweredInv(handler[c], gone[c], current[c], asked[c], overlapped[c], inbox[c])'
  BY <1>1, <1>3, <1>4 DEF AnsweredInv
<1>. QED  BY <1>1, <1>3, <1>5, <1>6, <1>7, <1>8, <1>9, <1>10 DEF ClientInv

\* The jobs, with the one that is submitted.
LEMMA SubmitJobs ==
    ASSUME TypeOK, NEW c \in Clients, Submit(c)
    PROVE  \A j \in Outstanding' : j \in Outstanding \/ j = Job(c, current[c].id, current[c].kind)
<1>. DEFINE n == Job(c, current[c].id, current[c].kind)
<1>1. queue \in Seq(Jobs) /\ queue' = Append(queue, n) /\ job' = job
  BY DEF TypeOK, Submit
<1>. HIDE DEF n
<1>2. \A x \in Outstanding' : x \in Outstanding \/ x = n
  BY <1>1, AppendProperties DEF Outstanding, ToSet
<1>. QED  BY <1>2 DEF n

\* A request is handed to the worker.
LEMMA SubmitInv ==
    ASSUME TypeOK, NEW c \in Clients, ClientInv(c), Submit(c)
    PROVE  ClientInv(c)'
<1>. DEFINE cur == current[c]
            new == Job(c, cur.id, cur.kind)
            b == inbox[c]
            h == IF cur.kind = "input" THEN "stream" ELSE "await"
<1>1. /\ gone'[c] = gone[c] /\ frames'[c] = frames[c] /\ shaken'[c] = shaken[c]
      /\ asked'[c] = asked[c] /\ overlapped'[c] = overlapped[c]
      /\ current'[c] = cur /\ channel'[c] = channel[c] /\ reply'[c] = reply[c]
      /\ job' = job /\ emitted' = emitted /\ inbox'[c] = b
      /\ handler[c] = "submit" /\ handler'[c] = h
  BY DEF Submit, connVars, TypeOK
<1>2. /\ RequestsInv("submit", cur, frames[c], asked[c], overlapped[c])
      /\ BoxInv(b, asked[c]) /\ IdsInv("submit", cur, frames[c], b)
      /\ \A j \in Outstanding : JobInv(c, "submit", cur, asked[c], j)
      /\ ReplyInv(c, "submit", cur, reply[c], Outstanding)
      /\ StreamInv(c, "submit", gone[c], cur, channel[c], reply[c],
                   b, Outstanding, job, emitted)
      /\ ShakenInv("submit", shaken[c], asked[c], b)
      /\ AnsweredInv("submit", gone[c], cur, asked[c], overlapped[c], b)
  BY <1>1 DEF ClientInv
<1>3. /\ \A j \in Outstanding' : j \in Outstanding \/ j = new
      /\ new.client = c /\ new.id = cur.id /\ new.kind = cur.kind
  BY SubmitJobs DEF Job
<1>4. /\ cur \in asked[c] /\ cur.kind \in JobKinds /\ cur \in Requests
      /\ b \in Seq(Frames)
  BY <1>2, ClientTypes DEF RequestsInv, Requesting
<1>5. Request(cur.id, cur.kind) = cur
  BY <1>4 DEF Request, Requests
<1>6. new # NoJob /\ new # job
  <2>1. new # NoJob
    BY <1>3, <1>4 DEF NoJob, JobKinds
  <2>2. job # NoJob => job \in Outstanding
    BY DEF Outstanding
  <2>. QED  BY <1>2, <1>3, <2>1, <2>2 DEF JobInv
<1>7. reply[c] = NoReply /\ channel[c] = <<>> /\ NoReply.status # "output"
  BY <1>2 DEF ReplyInv, StreamInv, NoReply
<1>. HIDE DEF cur, new, b
<1>8. RequestsInv(handler[c], current[c], frames[c], asked[c], overlapped[c])'
  BY <1>1, <1>2 DEF RequestsInv, Requesting
<1>9. (\A j \in Outstanding : JobInv(c, handler[c], current[c], asked[c], j))'
  BY <1>1, <1>2, <1>3, <1>4, <1>5 DEF JobInv
<1>10. ReplyInv(c, handler[c], current[c], reply[c], Outstanding)'
  BY <1>1, <1>7 DEF ReplyInv
<1>11. IdsInv(handler[c], current[c], frames[c], inbox[c])'
  BY <1>1, <1>2 DEF IdsInv
<1>12. ShakenInv(handler[c], shaken[c], asked[c], inbox[c])'
  BY <1>1, <1>2 DEF ShakenInv
<1>13. AnsweredInv(handler[c], gone[c], current[c], asked[c], overlapped[c], inbox[c])'
  BY <1>1, <1>2 DEF AnsweredInv, Requesting
<1>14. StreamInv(c, h, gone[c], cur, <<>>, NoReply, b, Outstanding', job, emitted)
  <2>1. ~gone[c] => LastIsPlain(b)
    BY <1>2 DEF StreamInv
  <2>2. CASE h # "stream"
    BY <2>1, <2>2 DEF StreamInv
  <2>3. CASE ~gone[c]
    <3>1. Len(b) \in Nat /\ DOMAIN b = 1 .. Len(b) /\ (Len(b) > 0 => b # <<>>)
      BY <1>4, LenProperties
    <3>2. \A k \in DOMAIN b : b[k].type = "progress" => b[k].id # cur.id
      <4>1. cur.id \in Nat /\ frames[c] \in Nat
        BY <1>4, ClientTypes DEF Requests
      <4>. QED  BY <1>2, <4>1 DEF IdsInv
    <3>3. EndsInBlock(b, cur.id, 0) /\ 0 \in 0 .. Len(b)
      BY <2>1, <2>3, <3>1, <3>2 DEF EndsInBlock, LastIsPlain
    <3>4. \A j \in Outstanding' : IsJobOf(j, c, cur) => Reported(j, job, emitted) = 0
      <4>1. \A j \in Outstanding' : IsJobOf(j, c, cur) => j = new
        BY <1>2, <1>3 DEF IsJobOf, JobInv
      <4>. QED  BY <1>6, <4>1 DEF Reported
    <3>. QED  BY <1>7, <2>1, <2>3, <3>3, <3>4 DEF StreamInv
  <2>4. CASE gone[c] /\ h = "stream"
    BY <2>4 DEF StreamInv
  <2>. QED  BY <2>2, <2>3, <2>4
<1>. QED
  BY <1>1, <1>2, <1>7, <1>8, <1>9, <1>10, <1>11, <1>12, <1>13, <1>14 DEF ClientInv

\* A client leaves, whatever its handler is doing.
LEMMA LeaveInv ==
    ASSUME TypeOK, NEW c \in Clients, ClientInv(c), Leave(c)
    PROVE  ClientInv(c)'
<1>1. /\ gone'[c] = TRUE /\ frames'[c] = frames[c] /\ shaken'[c] = shaken[c]
      /\ asked'[c] = asked[c] /\ overlapped'[c] = overlapped[c] /\ handler'[c] = handler[c]
      /\ current'[c] = current[c] /\ channel'[c] = channel[c] /\ reply'[c] = reply[c]
      /\ Outstanding' = Outstanding /\ inbox'[c] = inbox[c]
  BY DEF Leave, workerVars, TypeOK, Outstanding
<1>2. StreamInv(c, handler[c], gone[c], current[c], channel[c], reply[c],
                inbox[c], Outstanding, job, emitted)'
  BY <1>1 DEF ClientInv, StreamInv
<1>3. AnsweredInv(handler[c], gone[c], current[c], asked[c], overlapped[c], inbox[c])'
  BY <1>1 DEF AnsweredInv
<1>. QED  BY <1>1, <1>2, <1>3 DEF ClientInv

\* The steps of a connection keep the invariant.
LEMMA ClientStepInv ==
    ASSUME TypeOK, ServerInv, NEW d \in Clients, ClientStep(d)
    PROVE  ServerInv'
<1>1. ClientInv(d)
  BY DEF ServerInv
<1>2. ClientInv(d)'
  BY <1>1, LeaveInv, ReadHandshakeInv, ReadInvalidInv, ReadImmediateInv, ReadAgentRequestInv,
     ReadErrorInv, ReadEndInv, StreamOverlapInv, SubmitInv, SubmitUnavailableInv,
     AwaitReplyInv, StreamProgressInv, StreamEndInv, StreamReplyInv
     DEF ClientStep, Read, Handle
<1>3. ASSUME NEW c \in Clients, c # d
      PROVE  ClientInv(c)'
  BY <1>3, StaysInv, OthersStay DEF ServerInv
<1>4. QueueInv'
  <2>1. CASE Submit(d)
    <3>. DEFINE new == Job(d, current[d].id, current[d].kind)
    <3>1. /\ queue \in Seq(Jobs) /\ queue' = Append(queue, new) /\ job' = job
          /\ handler[d] = "submit" /\ new.client = d /\ new.id = current[d].id
      BY <2>1 DEF Submit, TypeOK, Job
    <3>2. /\ \A i \in DOMAIN queue : queue[i] \in Outstanding
          /\ job # NoJob => job \in Outstanding
      BY DEF Outstanding, ToSet
    <3>3. \A j \in Outstanding : ~(j.client = new.client /\ j.id = new.id)
      BY <1>1, <3>1 DEF ClientInv, JobInv
    <3>. HIDE DEF new
    <3>4. /\ Len(queue) \in Nat /\ DOMAIN queue = 1 .. Len(queue)
          /\ DOMAIN queue' = 1 .. Len(queue) + 1
          /\ \A i \in 1 .. Len(queue) : queue'[i] = queue[i]
          /\ queue'[Len(queue) + 1] = new
      <4>1. /\ Len(queue) \in Nat /\ DOMAIN queue = 1 .. Len(queue)
            /\ queue' \in Seq(Jobs \cup {new}) /\ Len(queue') = Len(queue) + 1
            /\ \A i \in 1 .. Len(queue) : queue'[i] = queue[i]
            /\ queue'[Len(queue) + 1] = new
        <5>1. queue \in Seq(Jobs \cup {new}) /\ new \in Jobs \cup {new}
          BY <3>1, SeqMonotonic
        <5>. QED  BY <3>1, <5>1, AppendProperties, LenProperties
      <4>. QED  BY <4>1, LenProperties
    <3>5. \A i \in DOMAIN queue' : \/ i \in DOMAIN queue /\ queue'[i] = queue[i]
                                   \/ i = Len(queue) + 1 /\ queue'[i] = new
      <4>1. \A i \in 1 .. Len(queue) + 1 : i \in 1 .. Len(queue) \/ i = Len(queue) + 1
        BY <3>4
      <4>. QED  BY <3>4, <4>1
    <3>. QED  BY <3>1, <3>2, <3>3, <3>5 DEF ServerInv, QueueInv
  <2>2. CASE ~Submit(d)
    <3>1. UNCHANGED <<queue, job>>
      BY <2>2 DEF ClientStep, Read, Handle, Leave, ReadHandshake, ReadInvalid, ReadImmediate,
         ReadAgentRequest, ReadFrame, ReadError, ReadEnd, StreamOverlap, SubmitUnavailable,
         AwaitReply, StreamProgress, StreamEnd, StreamReply, workerVars
    <3>. QED  BY <3>1 DEF ServerInv, QueueInv
  <2>. QED  BY <2>1, <2>2
<1>. QED  BY <1>2, <1>3, <1>4 DEF ServerInv

(***************************************************************************)
(* The steps of the worker.                                                *)
(***************************************************************************)

\* The worker leaves the variables of the connections alone, but for the
\* channels.
LEMMA WorkerLeaves ==
    ASSUME UNCHANGED handlerVars, NEW c \in Clients,
           channel'[c] = channel[c], reply'[c] = reply[c]
    PROVE  ClientStays(c)
BY DEF handlerVars, ClientStays

\* The job that is run is for the request its handler waits for, if it waits.
LEMMA WantedRequest ==
    ASSUME TypeOK, job \in Jobs, ClientInv(job.client), Wanted(job)
    PROVE  /\ handler[job.client] \in {"await", "stream"}
           /\ current[job.client].id = job.id /\ current[job.client].kind = job.kind
           /\ handler[job.client] = "stream" <=> job.kind = "input"
<1>. DEFINE c == job.client
<1>1. /\ c \in Clients /\ job # NoJob /\ handler[c] \in {"await", "stream"}
      /\ current[c].id = job.id
  BY DEF Jobs, NoJob, JobKinds, Wanted
<1>2. job \in Outstanding
  BY <1>1 DEF Outstanding
<1>3. /\ Request(job.id, job.kind) \in asked[c] /\ current[c] \in asked[c]
      /\ \A r, s \in asked[c] : r.id = s.id => r = s
      /\ handler[c] = "await" => current[c].kind # "input"
      /\ handler[c] = "stream" => current[c].kind = "input"
  BY <1>1, <1>2 DEF ClientInv, JobInv, RequestsInv, Requesting
<1>4. current[c] = Request(job.id, job.kind)
  BY <1>1, <1>3 DEF Request
<1>5. current[c].kind = job.kind
  BY <1>4 DEF Request
<1>. QED  BY <1>1, <1>3, <1>5

\* The worker's answer reaches the handler that waits for it.
LEMMA RespondInv ==
    ASSUME TypeOK, WorkerInv, ServerInv, job \in Jobs, NEW body \in Bodies, Respond(body),
           Fits(job.kind, body), body.status = "output" => body.events = emitted,
           UNCHANGED handlerVars, UNCHANGED <<channel, queue>>
    PROVE  ServerInv'
<1>1. /\ worker' = "idle" /\ job' = NoJob /\ emitted' = 0 /\ job # NoJob
      /\ job.client \in Clients
  BY DEF Respond, Jobs, NoJob, JobKinds
<1>2. /\ \A j \in Outstanding' : j \in Outstanding /\ ~(j.client = job.client /\ j.id = job.id)
      /\ job \in Outstanding
  BY <1>1 DEF Outstanding, ToSet, ServerInv, QueueInv
<1>3. QueueInv'
  BY <1>1 DEF ServerInv, QueueInv
<1>4. ASSUME NEW c \in Clients
      PROVE  JobsStay(c)
  BY <1>1, <1>2 DEF JobsStay, Reported
<1>5. ASSUME NEW c \in Clients, reply'[c] = reply[c]
      PROVE  ClientInv(c)'
  BY <1>4, <1>5, WorkerLeaves, StaysInv DEF ServerInv
<1>6. ASSUME NEW c \in Clients, reply'[c] # reply[c]
      PROVE  ClientInv(c)'
  <2>1. c = job.client /\ Wanted(job) /\ reply'[c] = body
    BY <1>6, <1>1 DEF Respond, TypeOK
  <2>2. ClientInv(c)
    BY DEF ServerInv
  <2>3. /\ handler'[c] = handler[c] /\ gone'[c] = gone[c] /\ shaken'[c] = shaken[c]
        /\ frames'[c] = frames[c] /\ asked'[c] = asked[c] /\ overlapped'[c] = overlapped[c]
        /\ current'[c] = current[c] /\ channel'[c] = channel[c] /\ inbox'[c] = inbox[c]
    BY DEF handlerVars
  <2>4. /\ handler[c] \in {"await", "stream"} /\ current[c].id = job.id
        /\ current[c].kind = job.kind
    BY <2>1, <2>2, WantedRequest
  <2>5. \A j \in Outstanding' : ~IsJobOf(j, c, current[c])
    BY <1>2, <2>1, <2>4 DEF IsJobOf
  <2>6. ReplyInv(c, handler[c], current[c], reply[c], Outstanding)'
    BY <2>1, <2>3, <2>4, <2>5 DEF ReplyInv
  <2>7. (\A j \in Outstanding : JobInv(c, handler[c], current[c], asked[c], j))'
    BY <1>2, <2>2, <2>3 DEF ClientInv, JobInv
  <2>8. StreamInv(c, handler[c], gone[c], current[c], channel[c], reply[c],
                  inbox[c], Outstanding, job, emitted)'
    <3>1. CASE ~gone[c] /\ handler[c] = "stream"
      <4>1. PICK p \in 0 .. Len(inbox[c]) :
                /\ EndsInBlock(inbox[c], current[c].id, p)
                /\ \A i \in DOMAIN channel[c] : channel[c][i] = p + i
                /\ \A j \in Outstanding : IsJobOf(j, c, current[c]) =>
                      Reported(j, job, emitted) = p + Len(channel[c])
        BY <2>2, <3>1 DEF ClientInv, StreamInv
      <4>2. emitted = p + Len(channel[c])
        BY <1>2, <2>1, <2>4, <4>1 DEF IsJobOf, Reported
      <4>. QED  BY <2>1, <2>3, <2>5, <3>1, <4>1, <4>2 DEF StreamInv
    <3>2. CASE ~(~gone[c] /\ handler[c] = "stream")
      BY <2>2, <2>3, <3>2 DEF ClientInv, StreamInv
    <3>. QED  BY <3>1, <3>2
  <2>. QED  BY <2>2, <2>3, <2>6, <2>7, <2>8 DEF ClientInv
<1>. QED  BY <1>3, <1>5, <1>6 DEF ServerInv

\* A notification goes into the channel of the handler that streams the turn.
LEMMA EmitProgressInv ==
    ASSUME TypeOK, WorkerInv, ServerInv, EmitProgress
    PROVE  ServerInv'
<1>1. /\ worker = "input" /\ job \in Jobs /\ job # NoJob /\ job.client \in Clients
      /\ job.kind = "input"
      /\ emitted' = emitted + 1 /\ emitted \in Nat /\ job' = job /\ queue' = queue
      /\ reply' = reply /\ UNCHANGED handlerVars /\ Outstanding' = Outstanding
  BY DEF EmitProgress, WorkerInv, TypeOK, Jobs, NoJob, JobKinds, Outstanding
<1>2. QueueInv'
  BY <1>1 DEF ServerInv, QueueInv
<1>3. ASSUME NEW c \in Clients, ~(Wanted(job) /\ job.client = c)
      PROVE  ClientInv(c)'
  <2>1. channel'[c] = channel[c]
    BY <1>1, <1>3 DEF EmitProgress, TypeOK
  <2>2. JobsStay(c)
    <3>. SUFFICES ASSUME NEW j \in Outstanding, j.client = c, handler[c] = "stream",
                         j.id = current[c].id
                  PROVE  Reported(j, job, emitted + 1) = Reported(j, job, emitted)
      BY <1>1 DEF JobsStay
    <3>1. j # job
      BY <1>3 DEF Wanted
    <3>. QED  BY <3>1 DEF Reported
  <2>. QED  BY <1>1, <2>1, <2>2, WorkerLeaves, StaysInv DEF ServerInv
<1>4. ASSUME NEW c \in Clients, Wanted(job), job.client = c
      PROVE  ClientInv(c)'
  <2>. DEFINE ch == channel[c]
  <2>1. /\ handler'[c] = handler[c] /\ gone'[c] = gone[c] /\ shaken'[c] = shaken[c]
        /\ frames'[c] = frames[c] /\ asked'[c] = asked[c] /\ overlapped'[c] = overlapped[c]
        /\ current'[c] = current[c] /\ reply'[c] = reply[c] /\ inbox'[c] = inbox[c]
        /\ channel'[c] = Append(ch, emitted + 1)
    BY <1>1, <1>4 DEF handlerVars, EmitProgress, TypeOK
  <2>2. ClientInv(c)
    BY <1>1 DEF ServerInv
  <2>3. handler[c] = "stream" /\ current[c].id = job.id
    BY <1>1, <1>4, <2>2, WantedRequest
  <2>4. IsJobOf(job, c, current[c]) /\ job \in Outstanding
    BY <1>1, <1>4, <2>3 DEF IsJobOf, Outstanding
  <2>5. reply[c] = NoReply /\ NoReply.status # "output"
    BY <2>2, <2>4 DEF ClientInv, ReplyInv, NoReply
  <2>6. \A j \in Outstanding : IsJobOf(j, c, current[c]) => j = job
    <3>1. \A i \in DOMAIN queue : ~(queue[i].client = job.client /\ queue[i].id = job.id)
      BY <1>1 DEF ServerInv, QueueInv
    <3>. QED  BY <1>4, <2>3, <3>1 DEF Outstanding, ToSet, IsJobOf
  <2>7. StreamInv(c, handler[c], gone[c], current[c], channel[c], reply[c],
                  inbox[c], Outstanding, job, emitted)'
    <3>1. CASE ~gone[c]
      <4>1. PICK p \in 0 .. Len(inbox[c]) :
                /\ EndsInBlock(inbox[c], current[c].id, p)
                /\ \A i \in DOMAIN ch : ch[i] = p + i
                /\ \A j \in Outstanding : IsJobOf(j, c, current[c]) =>
                      Reported(j, job, emitted) = p + Len(ch)
        BY <2>2, <2>3, <3>1 DEF ClientInv, StreamInv
      <4>2. emitted = p + Len(ch)
        BY <2>4, <4>1 DEF Reported
      <4>3. ch \in Seq(Nat) /\ p \in Nat
        BY <1>1, <4>1, ClientTypes
      <4>. DEFINE l == Len(ch)
                  ch2 == Append(ch, emitted + 1)
      <4>4. /\ l \in Nat /\ DOMAIN ch = 1 .. l /\ ch2 \in Seq(Nat) /\ Len(ch2) = l + 1
            /\ \A i \in 1 .. l : ch2[i] = ch[i]
            /\ ch2[l + 1] = emitted + 1
        BY <1>1, <4>3, AppendProperties, LenProperties
      <4>. HIDE DEF l, ch2, ch
      <4>5. DOMAIN ch2 = 1 .. l + 1
        BY <4>4, LenProperties
      <4>6. \A i \in 1 .. l + 1 : i \in 1 .. l \/ i = l + 1
        BY <4>4
      <4>7. emitted + 1 = p + (l + 1)
        BY <4>2, <4>3, <4>4 DEF l
      <4>8. \A i \in DOMAIN ch2 : ch2[i] = p + i
        BY <4>1, <4>4, <4>5, <4>6, <4>7
      <4>9. \A j \in Outstanding : IsJobOf(j, c, current[c]) =>
                Reported(j, job, emitted + 1) = p + Len(ch2)
        BY <2>6, <4>4, <4>7 DEF Reported
      <4>10. StreamInv(c, "stream", FALSE, current[c], ch2, NoReply, inbox[c],
                       Outstanding, job, emitted + 1)
        BY <2>5, <4>1, <4>8, <4>9 DEF StreamInv
      <4>. QED  BY <1>1, <2>1, <2>3, <2>5, <3>1, <4>10 DEF ch2, ch, StreamInv
    <3>2. CASE gone[c]
      BY <2>1, <2>3, <3>2 DEF StreamInv
    <3>. QED  BY <3>1, <3>2
  <2>. QED  BY <1>1, <2>1, <2>2, <2>7 DEF ClientInv
<1>. QED  BY <1>2, <1>3, <1>4 DEF ServerInv

\* The steps of the worker keep the invariant.
LEMMA WorkerStepInv ==
    ASSUME TypeOK, WorkerInv, ServerInv, Work \/ Die
    PROVE  ServerInv'
<1>0. /\ worker \in {"history", "reset", "input", "publish"} => job \in Jobs
      /\ worker \in {"history", "reset", "input"} => job.kind = worker
      /\ worker = "publish" => job.kind = "input"
  BY DEF WorkerInv, TypeOK, JobKinds
<1>a. Failure \in Bodies /\ Failure.status # "output" /\ \A k : Fits(k, Failure)
  BY FrameTypes DEF Failure, Fits
<1>1. CASE Take
  <2>1. /\ queue \in Seq(Jobs) /\ queue # <<>> /\ queue' = Tail(queue) /\ job' = Head(queue)
        /\ emitted' = 0 /\ emitted = 0 /\ job = NoJob
        /\ UNCHANGED handlerVars /\ channel' = channel /\ reply' = reply
    BY <1>1 DEF Take, TypeOK, WorkerInv
  <2>. DEFINE l == Len(queue)
  <2>2. /\ l \in Nat /\ l > 0 /\ DOMAIN queue = 1 .. l /\ job' = queue[1]
        /\ DOMAIN queue' = 1 .. l - 1
        /\ \A i \in 1 .. l - 1 : queue'[i] = queue[i + 1]
    <3>1. queue' \in Seq(Jobs) /\ Len(queue') = l - 1
      BY <2>1, HeadTailProperties
    <3>2. DOMAIN queue' = 1 .. l - 1
      BY <3>1, LenProperties
    <3>. QED  BY <2>1, <3>1, <3>2, HeadTailProperties, LenProperties, EmptySeq
  <2>. HIDE DEF l
  <2>3. 1 \in DOMAIN queue /\ \A i \in DOMAIN queue' : i + 1 \in DOMAIN queue /\ i + 1 # 1
    BY <2>2
  <2>4. \A j \in Outstanding' : j \in Outstanding
    BY <2>2, <2>3 DEF Outstanding, ToSet
  <2>5. QueueInv'
    <3>1. \A i, k \in DOMAIN queue' :
              queue'[i].client = queue'[k].client /\ queue'[i].id = queue'[k].id => i = k
      <4>1. \A i, k \in 1 .. l - 1 : i + 1 = k + 1 => i = k
        BY <2>2
      <4>. QED  BY <2>2, <2>3, <4>1 DEF ServerInv, QueueInv
    <3>2. \A i \in DOMAIN queue' :
              ~(queue'[i].client = job'.client /\ queue'[i].id = job'.id)
      BY <2>2, <2>3 DEF ServerInv, QueueInv
    <3>. QED  BY <3>1, <3>2 DEF QueueInv
  <2>6. ASSUME NEW c \in Clients
        PROVE  ClientInv(c)'
    <3>1. JobsStay(c)
      BY <2>1, <2>4 DEF JobsStay, Reported
    <3>. QED  BY <2>1, <3>1, WorkerLeaves, StaysInv DEF ServerInv
  <2>. QED  BY <2>5, <2>6 DEF ServerInv
<1>2. CASE RunHistory
  <2>1. PICK body \in {History, Failure} : Respond(body)
    BY <1>2 DEF RunHistory
  <2>2. body \in Bodies /\ body.status # "output" /\ Fits("history", body)
    BY FrameTypes, <1>a DEF History, Bodies, TypeOK, Fits
  <2>. QED  BY <1>0, <1>2, <2>1, <2>2, RespondInv DEF RunHistory
<1>3. CASE RunReset
  <2>1. PICK body \in {[status |-> "history", turns |-> <<>>, resets |-> resets + 1], Failure} :
            Respond(body)
    BY <1>3 DEF RunReset
  <2>2. body \in Bodies
    <3>1. [status |-> "history", turns |-> <<>>, resets |-> resets + 1] \in Bodies
      BY DEF Bodies, TypeOK
    <3>. QED  BY <1>a, <2>1, <3>1
  <2>3. body.status # "output" /\ Fits("reset", body)
    BY <1>a DEF Fits
  <2>. QED  BY <1>0, <1>3, <2>1, <2>2, <2>3, RespondInv DEF RunReset
<1>4. CASE EmitProgress
  BY <1>4, EmitProgressInv
<1>5. CASE CommitTurn
  <2>1. /\ queue' = queue /\ job' = job /\ emitted' = emitted /\ Outstanding' = Outstanding
        /\ UNCHANGED handlerVars /\ channel' = channel /\ reply' = reply
    BY <1>5 DEF CommitTurn, Outstanding
  <2>2. ASSUME NEW c \in Clients
        PROVE  ClientInv(c)'
    <3>1. JobsStay(c)
      BY <2>1 DEF JobsStay
    <3>. QED  BY <2>1, <3>1, WorkerLeaves, StaysInv DEF ServerInv
  <2>. QED  BY <2>1, <2>2 DEF ServerInv, QueueInv
<1>6. CASE PublishTurn
  <2>1. Output \in Bodies /\ Fits("input", Output) /\ Output.events = emitted
    BY DEF Output, Bodies, TypeOK, Fits
  <2>. QED  BY <1>0, <1>6, <2>1, RespondInv DEF PublishTurn
<1>7. CASE FailTurn
  BY <1>0, <1>7, <1>a, RespondInv DEF FailTurn
<1>8. CASE CancelTurn
  <2>1. /\ queue' = queue /\ job' = NoJob /\ emitted' = 0 /\ job \in Jobs /\ job # NoJob
        /\ UNCHANGED handlerVars /\ channel' = channel /\ reply' = reply
    BY <1>0, <1>8 DEF CancelTurn, NoJob, Jobs, JobKinds
  <2>2. \A j \in Outstanding' : j \in Outstanding /\ j # job
    BY <2>1 DEF Outstanding, ToSet, ServerInv, QueueInv
  <2>3. ASSUME NEW c \in Clients
        PROVE  ClientInv(c)'
    <3>1. JobsStay(c)
      BY <2>1, <2>2 DEF JobsStay, Reported
    <3>. QED  BY <2>1, <3>1, WorkerLeaves, StaysInv DEF ServerInv
  <2>. QED  BY <2>1, <2>3 DEF ServerInv, QueueInv
<1>9. CASE Die
  <2>1. /\ queue' = <<>> /\ job' = NoJob
        /\ UNCHANGED handlerVars /\ channel' = channel /\ reply' = reply
    BY <1>9 DEF Die
  <2>2. Outstanding' = {} /\ DOMAIN queue' = {}
    BY <2>1 DEF Outstanding, ToSet
  <2>3. ASSUME NEW c \in Clients
        PROVE  ClientInv(c)'
    <3>1. JobsStay(c)
      BY <2>2 DEF JobsStay
    <3>. QED  BY <2>1, <3>1, WorkerLeaves, StaysInv DEF ServerInv
  <2>. QED  BY <2>2, <2>3 DEF ServerInv, QueueInv
<1>. QED
  BY <1>1, <1>2, <1>3, <1>4, <1>5, <1>6, <1>7, <1>8, <1>9 DEF Work

\* Nothing was asked or written at the start.
LEMMA InitServer == Init => ServerInv
<1>. SUFFICES ASSUME Init PROVE ServerInv
  OBVIOUS
<1>1. queue = <<>> /\ job = NoJob /\ DOMAIN queue = {} /\ Outstanding = {}
  BY DEF Init, Outstanding, ToSet
<1>2. QueueInv
  BY <1>1 DEF QueueInv
<1>3. ASSUME NEW c \in Clients
      PROVE  ClientInv(c)
  <2>1. /\ handler[c] = "read" /\ ~gone[c] /\ ~shaken[c] /\ frames[c] = 0 /\ asked[c] = {}
        /\ overlapped[c] = {} /\ current[c] = NoRequest /\ channel[c] = <<>>
        /\ reply[c] = NoReply /\ inbox[c] = <<>> /\ DOMAIN inbox[c] = {}
    BY DEF Init
  <2>2. /\ BoxInv(inbox[c], asked[c]) /\ IdsInv(handler[c], current[c], frames[c], inbox[c])
        /\ ShakenInv(handler[c], shaken[c], asked[c], inbox[c])
    BY <2>1 DEF BoxInv, OrderInv, BlocksInv, CountsInv, IdsInv, ShakenInv
  <2>3. ResponseIdsOf(inbox[c]) = {}
    BY <2>1 DEF ResponseIdsOf
  <2>4. AnsweredInv(handler[c], gone[c], current[c], asked[c], overlapped[c], inbox[c])
    BY <2>1, <2>3 DEF AnsweredInv, Requesting
  <2>5. StreamInv(c, handler[c], gone[c], current[c], channel[c], reply[c],
                  inbox[c], Outstanding, job, emitted)
    BY <2>1 DEF StreamInv, LastIsPlain
  <2>. QED
    BY <1>1, <2>1, <2>2, <2>4, <2>5 DEF ClientInv, RequestsInv, ReplyInv, Requesting
<1>. QED  BY <1>2, <1>3 DEF ServerInv

\* The invariant is inductive.
LEMMA ServerInductive == Spec => [](TypeOK /\ WorkerInv /\ ServerInv)
<1>1. Init => TypeOK /\ WorkerInv /\ ServerInv
  BY InitTypeWorker, InitServer
<1>2. TypeOK /\ WorkerInv /\ ServerInv /\ [Next]_vars => (TypeOK /\ WorkerInv /\ ServerInv)'
  <2>. SUFFICES ASSUME TypeOK, WorkerInv, ServerInv, [Next]_vars
                PROVE  (TypeOK /\ WorkerInv /\ ServerInv)'
    OBVIOUS
  <2>1. ASSUME NEW c \in Clients, ClientStep(c)
        PROVE  (TypeOK /\ WorkerInv /\ ServerInv)'
    BY <2>1, ClientStepType, ClientStepInv DEF ServerInv, ClientStep
  <2>2. CASE Work \/ Die
    BY <2>2, WorkerStepType, WorkerStepInv
  <2>3. CASE UNCHANGED vars
    <3>1. TypeOK' /\ WorkerInv'
      BY <2>3 DEF vars, TypeOK, WorkerInv
    <3>2. QueueInv'
      BY <2>3 DEF vars, ServerInv, QueueInv
    <3>3. ASSUME NEW c \in Clients
          PROVE  ClientInv(c)'
      <4>1. ClientStays(c) /\ JobsStay(c)
        BY <2>3 DEF vars, ClientStays, JobsStay, Outstanding
      <4>. QED  BY <4>1, StaysInv DEF ServerInv
    <3>. QED  BY <3>1, <3>2, <3>3 DEF ServerInv
  <2>. QED  BY <2>1, <2>2, <2>3 DEF Next, ClientStep
<1>. QED  BY <1>1, <1>2, PTL DEF Spec

(***************************************************************************)
(* Whatever the clients, the handlers and the worker do in whatever order,  *)
(* what handle_socket and handle_text_frame write to a connection is in     *)
(* order: nothing but errors before the ack, one response for a request, in *)
(* the order of the requests and of the kind asked for, right after the     *)
(* notifications of its turn, which are complete and numbered from 1.       *)
(***************************************************************************)
THEOREM FramesWrittenInOrder == Spec => []WrittenInOrder
<1>1. ASSUME TypeOK, ServerInv
      PROVE  WrittenInOrder
  <2>1. ResponsesMatchRequests
    BY <1>1 DEF ResponsesMatchRequests, ServerInv, ClientInv, BoxInv, OrderInv
  <2>2. ProgressPrecedesResponse
    <3>. SUFFICES ASSUME NEW c \in Clients, NEW i \in DOMAIN inbox[c]
                  PROVE  /\ inbox[c][i].type = "progress" =>
                               /\ inbox[c][i].n > 1 =>
                                     inbox[c][i - 1] = Progress(inbox[c][i].id, inbox[c][i].n - 1)
                               /\ i < Len(inbox[c]) =>
                                     /\ inbox[c][i + 1].type \in {"progress", "response"}
                                     /\ inbox[c][i + 1].id = inbox[c][i].id
                         /\ (IsResponse(inbox[c][i]) /\ inbox[c][i].body.status = "output") =>
                               inbox[c][i].body.events =
                                  Cardinality({k \in 1 .. i - 1 :
                                     inbox[c][k].type = "progress" /\ inbox[c][k].id = inbox[c][i].id})
      BY DEF ProgressPrecedesResponse
    <3>1. BlocksInv(inbox[c]) /\ CountsInv(inbox[c])
      BY <1>1 DEF ServerInv, ClientInv, BoxInv
    <3>. QED  BY <3>1 DEF BlocksInv, CountsInv, Notified
  <2>3. NothingBeforeHandshake
    <3>. SUFFICES ASSUME NEW c \in Clients, ~shaken[c]
                  PROVE  /\ \A i \in DOMAIN inbox[c] : inbox[c][i] \in {NullError, Ack}
                         /\ \A i \in DOMAIN queue : queue[i].client # c
                         /\ job # NoJob => job.client # c
      BY DEF NothingBeforeHandshake
    <3>1. /\ asked[c] = {} /\ \A i \in DOMAIN inbox[c] : inbox[c][i] \in {NullError, Ack}
          /\ \A j \in Outstanding : j.client = c => Request(j.id, j.kind) \in asked[c]
      BY <1>1 DEF ServerInv, ClientInv, ShakenInv, JobInv
    <3>2. /\ \A i \in DOMAIN queue : queue[i] \in Outstanding
          /\ job # NoJob => job \in Outstanding
      BY DEF Outstanding, ToSet
    <3>. QED  BY <3>1, <3>2
  <2>. QED  BY <1>1, <2>1, <2>2, <2>3 DEF WrittenInOrder
<1>. QED  BY <1>1, ServerInductive, PTL

(***************************************************************************)
(* A client that stays has, whenever its handler reads the next frame, an   *)
(* answer to each of its requests but the ones sent during its own turns.   *)
(***************************************************************************)
THEOREM ClientsGetAnswers == Spec => []AnsweredUnlessOverlapping
<1>1. ServerInv => AnsweredUnlessOverlapping
  <2>. SUFFICES ASSUME ServerInv, NEW c \in Clients, handler[c] = "read", ~gone[c]
                PROVE  ResponseIds(c) = {r.id : r \in asked[c] \ overlapped[c]}
    BY DEF AnsweredUnlessOverlapping
  <2>1. AnsweredInv(handler[c], gone[c], current[c], asked[c], overlapped[c], inbox[c])
    BY DEF ServerInv, ClientInv
  <2>2. ResponseIds(c) = ResponseIdsOf(inbox[c])
    BY DEF ResponseIds, ResponseIdsOf
  <2>. QED  BY <2>1, <2>2 DEF AnsweredInv, Requesting
<1>. QED  BY <1>1, ServerInductive, PTL

(***************************************************************************)
(* What a client is told of its turns.  Again the invariant is a            *)
(* conjunction of operators on what one client has been sent, b, and on     *)
(* what the session holds: the turns rec after n resets.                    *)
(***************************************************************************)

\* Output o of connection c's request id is in the session, unless it was reset.
Kept(c, id, o, rec, n) ==
    /\ o.resets \in 0 .. n
    /\ o.resets = n => <<c, id>> \in ToSet(rec)

IsHistory(m) == IsResponse(m) /\ m.body.status = "history"

\* History h lists the turns answered in b, unless there was a reset between.
Lists(c, b, h) ==
    \A i \in DOMAIN b : IsOutput(b[i]) /\ b[i].body.resets = h.resets =>
        <<c, b[i].id>> \in ToSet(h.turns)

\* The answered turns are in the session and in the histories after them.
ToldInv(c, b, rec, n) ==
    /\ \A i \in DOMAIN b : IsOutput(b[i]) => Kept(c, b[i].id, b[i].body, rec, n)
    /\ \A i, j \in DOMAIN b :
          (i < j /\ IsOutput(b[i]) /\ IsHistory(b[j]) /\ b[i].body.resets = b[j].body.resets) =>
              <<c, b[i].id>> \in ToSet(b[j].body.turns)

\* So is the turn, and so are the turns, of an answer rep on its way.
ReplyToldInv(c, b, id, rep, rec, n) ==
    /\ rep.status = "output" => Kept(c, id, rep, rec, n)
    /\ rep.status = "history" => Lists(c, b, rep)

PublishInv == worker = "publish" => <<job.client, job.id>> \in ToSet(recorded)

HistoryInv ==
    /\ PublishInv
    /\ \A c \in Clients :
          /\ ToldInv(c, inbox[c], recorded, resets)
          /\ ReplyToldInv(c, inbox[c], current[c].id, reply[c], recorded, resets)

\* Frames that tell nothing of a turn.
NoNews(m) == IsResponse(m) => m.body \in {Pong, Failure}

\* w is b with such frames after it.
Extends(w, b) ==
    /\ w \in Seq(Frames)
    /\ \A i \in DOMAIN w : (i \in DOMAIN b /\ w[i] = b[i]) \/ NoNews(w[i])

\* A frame without news is neither an output nor a history.
LEMMA NoNewsKinds ==
    ASSUME NEW m, NoNews(m)
    PROVE  ~IsOutput(m) /\ ~IsHistory(m)
BY DEF NoNews, IsOutput, IsHistory, Pong, Failure

\* Frames without news keep what a client has been told.
LEMMA ExtendsTold ==
    ASSUME NEW c, NEW b, NEW w, Extends(w, b), NEW id, NEW rep, NEW rec, NEW n,
           ToldInv(c, b, rec, n), ReplyToldInv(c, b, id, rep, rec, n)
    PROVE  ToldInv(c, w, rec, n) /\ ReplyToldInv(c, w, id, rep, rec, n)
<1>1. \A i \in DOMAIN w : IsOutput(w[i]) \/ IsHistory(w[i]) => i \in DOMAIN b /\ w[i] = b[i]
  BY NoNewsKinds DEF Extends
<1>. QED  BY <1>1 DEF ToldInv, ReplyToldInv, Lists

\* The answer on its way arrives.
LEMMA ReplyTold ==
    ASSUME NEW c, NEW b \in Seq(Frames), NEW id \in Nat, NEW rep \in Bodies, NEW rec, NEW n,
           ToldInv(c, b, rec, n), ReplyToldInv(c, b, id, rep, rec, n)
    PROVE  ToldInv(c, b \o <<Response(id, rep)>>, rec, n)
<1>. DEFINE m == Response(id, rep)
            w == b \o <<m>>
            l == Len(b)
<1>1. m \in Frames /\ IsResponse(m) /\ m.id = id /\ m.body = rep
  BY FrameTypes, FrameFields DEF IsResponse
<1>. HIDE DEF m
<1>2. /\ l \in Nat /\ DOMAIN b = 1 .. l /\ DOMAIN w = 1 .. l + 1
      /\ \A i \in 1 .. l : w[i] = b[i]
      /\ w[l + 1] = m
  BY <1>1, JoinedOne
<1>. HIDE DEF w, l
<1>3. \A i \in DOMAIN w : \/ i \in DOMAIN b /\ w[i] = b[i]
                          \/ i = l + 1 /\ w[i] = m
  <2>1. \A i \in 1 .. l + 1 : i \in 1 .. l \/ i = l + 1
    BY <1>2
  <2>. QED  BY <1>2, <2>1
<1>4. \A i \in DOMAIN w : IsOutput(w[i]) => Kept(c, w[i].id, w[i].body, rec, n)
  BY <1>1, <1>3 DEF ToldInv, ReplyToldInv, IsOutput
<1>5. ASSUME NEW i \in DOMAIN w, NEW j \in DOMAIN w, i < j, IsOutput(w[i]), IsHistory(w[j]),
             w[i].body.resets = w[j].body.resets
      PROVE  <<c, w[i].id>> \in ToSet(w[j].body.turns)
  <2>1. i \in DOMAIN b /\ w[i] = b[i]
    BY <1>2, <1>3, <1>5
  <2>2. CASE j \in DOMAIN b /\ w[j] = b[j]
    BY <1>5, <2>1, <2>2 DEF ToldInv
  <2>3. CASE w[j] = m
    BY <1>1, <1>5, <2>1, <2>3 DEF ReplyToldInv, Lists, IsHistory
  <2>. QED  BY <1>3, <2>2, <2>3
<1>. QED  BY <1>4, <1>5 DEF ToldInv, w, m

\* An answer that is no history and no output, or none, is told no more.
LEMMA NothingTold ==
    ASSUME NEW c, NEW b, NEW id, NEW rec, NEW n
    PROVE  ReplyToldInv(c, b, id, NoReply, rec, n) /\ ReplyToldInv(c, b, id, Failure, rec, n)
BY DEF ReplyToldInv, NoReply, Failure

\* One more frame without news.
LEMMA ExtendsOne ==
    ASSUME NEW b \in Seq(Frames), NEW m \in Frames, NoNews(m)
    PROVE  Extends(b \o <<m>>, b)
<1>. DEFINE w == b \o <<m>>
            l == Len(b)
<1>1. /\ w \in Seq(Frames) /\ l \in Nat /\ DOMAIN b = 1 .. l /\ DOMAIN w = 1 .. l + 1
      /\ \A i \in 1 .. l : w[i] = b[i]
      /\ w[l + 1] = m
  BY JoinedOne
<1>. HIDE DEF w, l
<1>2. \A i \in 1 .. l + 1 : i \in 1 .. l \/ i = l + 1
  BY <1>1
<1>. QED  BY <1>1, <1>2 DEF Extends, w

\* Several more frames without news.
LEMMA ExtendsNotes ==
    ASSUME NEW b \in Seq(Frames), NEW ms \in Seq(Frames),
           \A k \in DOMAIN ms : NoNews(ms[k])
    PROVE  Extends(b \o ms, b)
<1>. DEFINE w == b \o ms
            l == Len(b)
            q == Len(ms)
<1>1. /\ w \in Seq(Frames) /\ l \in Nat /\ q \in Nat
      /\ DOMAIN b = 1 .. l /\ DOMAIN w = 1 .. l + q /\ DOMAIN ms = 1 .. q
      /\ \A i \in 1 .. l : w[i] = b[i]
      /\ \A k \in 1 .. q : w[l + k] = ms[k]
  BY Joined, LenProperties
<1>. HIDE DEF w, l, q
<1>2. ASSUME NEW i \in 1 .. l + q, i \notin 1 .. l
      PROVE  NoNews(w[i])
  <2>1. i - l \in 1 .. q /\ l + (i - l) = i
    BY <1>1, <1>2
  <2>2. w[i] = ms[i - l]
    BY <1>1, <2>1
  <2>. QED  BY <1>1, <2>1, <2>2
<1>. QED  BY <1>1, <1>2 DEF Extends, w

\* A step of connection c that tells nothing of a turn, and keeps the answer
\* on its way or drops it.
QuietStep(c) ==
    /\ Extends(inbox'[c], inbox[c])
    /\ \/ reply'[c] = reply[c] /\ current'[c] = current[c]
       \/ reply'[c] = NoReply

\* A step that passes the answer on.
ReplyStep(c) ==
    /\ reply[c] \in Bodies
    /\ \E b \in Seq(Frames) : /\ Extends(b, inbox[c])
                              /\ inbox'[c] = b \o <<Response(current[c].id, reply[c])>>
    /\ reply'[c] = NoReply

\* Responses of the handler's own, and an answer it has waited for.
LEMMA AnswerNews ==
    ASSUME TypeOK, NEW c \in Clients,
           NEW b \in Seq(Frames), Extends(b, inbox[c]), reply'[c] = NoReply,
           \/ inbox'[c] = inbox[c]
           \/ inbox'[c] = b \o <<Response(current[c].id, Answer(c))>>
    PROVE  QuietStep(c) \/ ReplyStep(c)
<1>1. /\ inbox[c] \in Seq(Frames) /\ current[c].id \in Nat /\ reply[c] \in Bodies \cup {NoReply}
  BY ClientTypes
<1>2. CASE inbox'[c] = inbox[c]
  BY <1>1, <1>2 DEF QuietStep, Extends
<1>3. CASE inbox'[c] = b \o <<Response(current[c].id, Answer(c))>> /\ reply[c] # NoReply
  BY <1>1, <1>3 DEF Answer, ReplyStep
<1>4. CASE inbox'[c] = b \o <<Response(current[c].id, Answer(c))>> /\ reply[c] = NoReply
  <2>. DEFINE m == Response(current[c].id, Failure)
              w == b \o <<m>>
  <2>1. inbox'[c] = w
    BY <1>4 DEF Answer
  <2>2. m \in Frames /\ NoNews(m)
    BY <1>1, FrameTypes, FrameFields DEF NoNews
  <2>. HIDE DEF m
  <2>3. Extends(w, b)
    BY <2>2, ExtendsOne
  <2>4. Extends(w, inbox[c])
    BY <2>3 DEF Extends
  <2>. QED  BY <2>1, <2>4 DEF QuietStep
<1>. QED  BY <1>2, <1>3, <1>4

\* One frame of the handler's own.
LEMMA OwnNews ==
    ASSUME TypeOK, NEW c \in Clients, NEW m \in Frames, NoNews(m),
           NEW next, NEW broken, Send(c, <<m>>, next, broken),
           \/ reply'[c] = reply[c] /\ current'[c] = current[c]
           \/ reply'[c] = NoReply
    PROVE  QuietStep(c)
<1>1. inbox[c] \in Seq(Frames)
  BY ClientTypes
<1>2. inbox'[c] = inbox[c] \/ inbox'[c] = inbox[c] \o <<m>>
  BY SendOwn
<1>3. Extends(inbox[c], inbox[c])
  BY <1>1 DEF Extends
<1>4. Extends(inbox[c] \o <<m>>, inbox[c])
  BY <1>1, ExtendsOne
<1>. QED  BY <1>2, <1>3, <1>4 DEF QuietStep

\* Each step of a connection is of one of the two kinds.
LEMMA ClientNews ==
    ASSUME TypeOK, TypeOK', NEW c \in Clients, ClientInv(c), ClientStep(c)
    PROVE  QuietStep(c) \/ ReplyStep(c)
<1>. USE ClientTypes, FrameTypes
<1>a. /\ NoNews(Ack) /\ NoNews(NullError)
      /\ \A id, n \in Nat : NoNews(Progress(id, n))
      /\ \A id \in Nat, body \in {Pong, Failure} : NoNews(Response(id, body))
  BY FrameFields DEF NoNews, IsResponse
<1>b. Extends(inbox[c], inbox[c]) /\ inbox'[c] \in Seq(Frames)
  BY DEF Extends, TypeOK
<1>1. CASE Leave(c) \/ ReadEnd(c) \/ StreamOverlap(c) \/ Submit(c)
  BY <1>1, <1>b DEF Leave, ReadEnd, StreamOverlap, Submit, QuietStep
<1>2. CASE ReadHandshake(c)
  BY <1>2, <1>a, OwnNews DEF ReadHandshake
<1>3. CASE ReadInvalid(c)
  BY <1>3, <1>a, OwnNews DEF ReadInvalid, ReadFrame
<1>4. ASSUME NEW body \in {Pong, Failure}, ReadImmediate(c, body)
      PROVE  QuietStep(c)
  <2>1. frames'[c] \in Nat
    BY DEF TypeOK
  <2>. DEFINE m == Response(frames'[c], body)
  <2>2. m \in Frames /\ NoNews(m)
    BY <1>a, <2>1
  <2>. HIDE DEF m
  <2>. QED  BY <1>4, <2>2, OwnNews DEF ReadImmediate, ReadFrame, m
<1>5. ASSUME NEW kind \in JobKinds, ReadAgentRequest(c, kind)
      PROVE  QuietStep(c)
  <2>1. reply'[c] = reply[c] /\ inbox'[c] = inbox[c] /\ handler[c] = "read"
    BY <1>5 DEF ReadAgentRequest, ReadFrame
  <2>2. reply[c] = NoReply
    BY <2>1 DEF ClientInv, ReplyInv
  <2>. QED  BY <1>b, <2>1, <2>2 DEF QuietStep
<1>6. CASE ReadError(c)
  BY <1>6, <1>a, OwnNews DEF ReadError
<1>7. CASE SubmitUnavailable(c)
  <2>1. reply'[c] = NoReply /\ Send(c, <<Response(current[c].id, Failure)>>, "read", "closed")
    BY <1>7, DropOwn DEF SubmitUnavailable
  <2>. DEFINE m == Response(current[c].id, Failure)
  <2>2. m \in Frames /\ NoNews(m)
    BY <1>a
  <2>. HIDE DEF m
  <2>. QED  BY <2>1, <2>2, OwnNews DEF m
<1>8. CASE AwaitReply(c)
  <2>1. reply'[c] = NoReply /\ Send(c, <<Response(current[c].id, Answer(c))>>, "read", "closed")
    BY <1>8, DropOwn DEF AwaitReply
  <2>2. \/ inbox'[c] = inbox[c]
        \/ inbox'[c] = inbox[c] \o <<Response(current[c].id, Answer(c))>>
    BY <2>1, SendOwn
  <2>. QED  BY <1>b, <2>1, <2>2, AnswerNews
<1>9. CASE StreamProgress(c)
  <2>. DEFINE m == Progress(current[c].id, Head(channel[c]))
  <2>1. Head(channel[c]) \in Nat
    BY <1>9, HeadTailProperties DEF StreamProgress
  <2>2. m \in Frames /\ NoNews(m)
    BY <1>a, <2>1
  <2>3. Send(c, <<m>>, "stream", "read")
    BY <1>9 DEF StreamProgress
  <2>4. \/ reply'[c] = reply[c] /\ current'[c] = current[c]
        \/ reply'[c] = NoReply
    BY <1>9, DropOwn DEF StreamProgress
  <2>. HIDE DEF m
  <2>. QED  BY <2>2, <2>3, <2>4, OwnNews
<1>10. CASE StreamEnd(c)
  <2>1. reply'[c] = NoReply /\ inbox'[c] = inbox[c]
    BY <1>10, DropOwn DEF StreamEnd
  <2>. QED  BY <1>b, <2>1 DEF QuietStep
<1>11. CASE StreamReply(c)
  <2>. DEFINE ch == channel[c]
              id == current[c].id
              rest == [i \in DOMAIN ch |-> Progress(id, ch[i])]
              m == Response(id, Answer(c))
              b == inbox[c]
  <2>1. /\ \/ Send(c, Append(rest, m), "read", "closed")
           \/ Send(c, <<>>, "read", "read") /\ gone[c]
        /\ reply'[c] = NoReply
    BY <1>11, DropOwn DEF StreamReply
  <2>2. inbox'[c] = b \/ inbox'[c] = b \o Append(rest, m)
    BY <2>1, SendOwn
  <2>3. /\ rest \in Seq(Frames) /\ b \in Seq(Frames) /\ m \in Frames
        /\ ch \in Seq(Nat) /\ id \in Nat
    BY RestType, AnswerType
  <2>4. \A k \in DOMAIN rest : NoNews(rest[k])
    <3>1. \A k \in DOMAIN ch : ch[k] \in Nat
      BY <2>3, LenProperties
    <3>. QED  BY <1>a, <2>3, <3>1
  <2>. HIDE DEF rest
  <2>5. Extends(b \o rest, b) /\ b \o rest \in Seq(Frames)
    BY <2>3, <2>4, ExtendsNotes DEF Extends
  <2>6. b \o Append(rest, m) = (b \o rest) \o <<m>>
    <3>. DEFINE u == <<m>>
    <3>. HIDE DEF m
    <3>1. Append(rest, m) = rest \o u /\ u \in Seq(Frames)
      BY <2>3, AppendIsConcat
    <3>. HIDE DEF u, b
    <3>2. b \in Seq(Frames) /\ rest \in Seq(Frames) /\ u \in Seq(Frames)
      BY <2>3, <3>1
    <3>3. (b \o rest) \o u = b \o (rest \o u)
      BY ONLY <3>2, ConcatAssociative
    <3>. QED  BY <3>1, <3>3 DEF u
  <2>. DEFINE w == b \o rest
  <2>7. w \in Seq(Frames) /\ Extends(w, inbox[c])
    BY <2>5
  <2>8. inbox'[c] = inbox[c] \/ inbox'[c] = w \o <<Response(current[c].id, Answer(c))>>
    BY <2>2, <2>6
  <2>. HIDE DEF w
  <2>. QED  BY <1>b, <2>1, <2>7, <2>8, AnswerNews
<1>. QED
  BY <1>1, <1>2, <1>3, <1>4, <1>5, <1>6, <1>7, <1>8, <1>9, <1>10, <1>11
     DEF ClientStep, Read, Handle

\* The steps of a connection keep what the clients are told true.
LEMMA ClientStepHistory ==
    ASSUME TypeOK, TypeOK', ServerInv, HistoryInv, NEW d \in Clients, ClientStep(d)
    PROVE  HistoryInv'
<1>1. UNCHANGED <<worker, job, recorded, resets>>
  BY DEF ClientStep, Read, Handle, Leave, ReadHandshake, ReadInvalid, ReadImmediate,
     ReadAgentRequest, ReadFrame, ReadError, ReadEnd, StreamOverlap, Submit, SubmitUnavailable,
     AwaitReply, StreamProgress, StreamEnd, StreamReply, workerVars
<1>2. PublishInv'
  BY <1>1 DEF HistoryInv, PublishInv
<1>3. ASSUME NEW c \in Clients
      PROVE  /\ ToldInv(c, inbox[c], recorded, resets)'
             /\ ReplyToldInv(c, inbox[c], current[c].id, reply[c], recorded, resets)'
  <2>1. /\ ToldInv(c, inbox[c], recorded, resets)
        /\ ReplyToldInv(c, inbox[c], current[c].id, reply[c], recorded, resets)
    BY DEF HistoryInv
  <2>2. CASE c # d
    <3>1. inbox'[c] = inbox[c] /\ current'[c] = current[c] /\ reply'[c] = reply[c]
      BY <2>2, OthersStay DEF ClientStays
    <3>. QED  BY <1>1, <2>1, <3>1
  <2>3. CASE c = d /\ QuietStep(c)
    <3>1. /\ ToldInv(c, inbox'[c], recorded, resets)
          /\ ReplyToldInv(c, inbox'[c], current[c].id, reply[c], recorded, resets)
      BY <2>1, <2>3, ExtendsTold DEF QuietStep
    <3>. QED  BY <1>1, <2>3, <3>1, NothingTold DEF QuietStep
  <2>4. CASE c = d /\ ReplyStep(c)
    <3>1. PICK b \in Seq(Frames) : /\ Extends(b, inbox[c])
                                   /\ inbox'[c] = b \o <<Response(current[c].id, reply[c])>>
      BY <2>4 DEF ReplyStep
    <3>2. reply[c] \in Bodies /\ reply'[c] = NoReply /\ current[c].id \in Nat
      BY <2>4, ClientTypes DEF ReplyStep
    <3>3. /\ ToldInv(c, b, recorded, resets)
          /\ ReplyToldInv(c, b, current[c].id, reply[c], recorded, resets)
      BY <2>1, <3>1, ExtendsTold
    <3>4. ToldInv(c, inbox'[c], recorded, resets)
      BY <3>1, <3>2, <3>3, ReplyTold
    <3>. QED  BY <1>1, <3>2, <3>4, NothingTold
  <2>5. ClientInv(d)
    BY DEF ServerInv
  <2>. QED  BY <2>2, <2>3, <2>4, <2>5, ClientNews
<1>. QED  BY <1>2, <1>3 DEF HistoryInv

\* A session that keeps its turns, and has the same resets, keeps what was told.
LEMMA SessionGrows ==
    ASSUME NEW c, NEW b, NEW id, NEW rep, NEW rec, NEW new, NEW n,
           ToSet(rec) \subseteq ToSet(new),
           ToldInv(c, b, rec, n), ReplyToldInv(c, b, id, rep, rec, n)
    PROVE  ToldInv(c, b, new, n) /\ ReplyToldInv(c, b, id, rep, new, n)
BY DEF ToldInv, ReplyToldInv, Kept

\* A reset leaves nothing that was told before to be kept.
LEMMA SessionReset ==
    ASSUME NEW c, NEW b, NEW id, NEW rep, NEW rec, NEW new, NEW n \in Nat,
           ToldInv(c, b, rec, n), ReplyToldInv(c, b, id, rep, rec, n)
    PROVE  ToldInv(c, b, new, n + 1) /\ ReplyToldInv(c, b, id, rep, new, n + 1)
<1>1. \A x, o : Kept(c, x, o, rec, n) => Kept(c, x, o, new, n + 1)
  BY DEF Kept
<1>. QED  BY <1>1 DEF ToldInv, ReplyToldInv

\* The worker's answer is true of the session after the step, at which it
\* holds the turns rec after n resets.
LEMMA RespondHistory ==
    ASSUME TypeOK, WorkerInv, ServerInv, job \in Jobs, NEW body \in Bodies, Respond(body),
           UNCHANGED handlerVars,
           \A c \in Clients : /\ ToldInv(c, inbox[c], recorded', resets')
                              /\ ReplyToldInv(c, inbox[c], current[c].id, reply[c], recorded', resets'),
           ReplyToldInv(job.client, inbox[job.client], job.id, body, recorded', resets')
    PROVE  HistoryInv'
<1>1. PublishInv'
  BY DEF Respond, PublishInv
<1>2. ASSUME NEW c \in Clients
      PROVE  /\ ToldInv(c, inbox[c], recorded, resets)'
             /\ ReplyToldInv(c, inbox[c], current[c].id, reply[c], recorded, resets)'
  <2>1. inbox'[c] = inbox[c] /\ current'[c] = current[c]
    BY DEF handlerVars
  <2>2. CASE reply'[c] = reply[c]
    BY <2>1, <2>2
  <2>3. CASE reply'[c] # reply[c]
    <3>1. c = job.client /\ Wanted(job) /\ reply'[c] = body
      BY <2>3 DEF Respond, TypeOK
    <3>2. current[c].id = job.id
      BY <3>1 DEF Wanted
    <3>. QED  BY <2>1, <3>1, <3>2
  <2>. QED  BY <2>2, <2>3
<1>. QED  BY <1>1, <1>2 DEF HistoryInv

\* The steps of the worker keep what the clients are told true.
LEMMA WorkerStepHistory ==
    ASSUME TypeOK, WorkerInv, ServerInv, HistoryInv, Work \/ Die
    PROVE  HistoryInv'
<1>0. /\ worker \in {"history", "reset", "input", "publish"} => job \in Jobs
      /\ resets \in Nat
  BY DEF WorkerInv, TypeOK, JobKinds
<1>a. Failure \in Bodies
  BY FrameTypes
<1>b. \A c \in Clients :
          /\ ToldInv(c, inbox[c], recorded, resets)
          /\ ReplyToldInv(c, inbox[c], current[c].id, reply[c], recorded, resets)
  BY DEF HistoryInv
<1>c. ASSUME UNCHANGED handlerVars, reply' = reply, recorded' = recorded, resets' = resets,
             PublishInv'
      PROVE  HistoryInv'
  BY <1>b, <1>c DEF HistoryInv, handlerVars
<1>1. CASE Take
  <2>1. worker' # "publish"
    <3>1. Head(queue) \in Jobs
      BY <1>1, HeadTailProperties DEF Take, TypeOK
    <3>. QED  BY <1>1, <3>1 DEF Take, Jobs, JobKinds
  <2>2. PublishInv'
    BY <2>1 DEF PublishInv
  <2>. QED  BY <1>1, <1>c, <2>2 DEF Take
<1>2. CASE RunHistory
  <2>1. PICK body \in {History, Failure} : Respond(body)
    BY <1>2 DEF RunHistory
  <2>2. body \in Bodies
    BY FrameTypes DEF History, Bodies, TypeOK
  <2>3. job \in Jobs /\ job.client \in Clients /\ recorded' = recorded /\ resets' = resets
    BY <1>0, <1>2 DEF RunHistory, Jobs
  <2>4. ReplyToldInv(job.client, inbox[job.client], job.id, History, recorded, resets)
    BY <1>b, <2>3 DEF ReplyToldInv, Lists, History, ToldInv, Kept
  <2>5. ReplyToldInv(job.client, inbox[job.client], job.id, body, recorded, resets)
    BY <2>4, NothingTold
  <2>. QED  BY <1>2, <1>b, <2>1, <2>2, <2>3, <2>5, RespondHistory DEF RunHistory
<1>3. CASE RunReset
  <2>0. job \in Jobs /\ job.client \in Clients /\ UNCHANGED handlerVars
    BY <1>0, <1>3 DEF RunReset, Jobs
  <2>1. CASE recorded' = recorded /\ resets' = resets /\ Respond(Failure)
    BY <1>a, <1>b, <2>0, <2>1, NothingTold, RespondHistory
  <2>. DEFINE body == [status |-> "history", turns |-> <<>>, resets |-> resets + 1]
  <2>2. CASE recorded' = <<>> /\ resets' = resets + 1 /\ Respond(body)
    <3>1. body \in Bodies
      BY <1>0 DEF Bodies
    <3>2. \A c \in Clients :
              /\ ToldInv(c, inbox[c], recorded', resets')
              /\ ReplyToldInv(c, inbox[c], current[c].id, reply[c], recorded', resets')
      BY <1>0, <1>b, <2>2, SessionReset
    <3>3. \A i \in DOMAIN inbox[job.client] : IsOutput(inbox[job.client][i]) =>
              inbox[job.client][i].body.resets # resets + 1
      <4>1. \A x : x \in 0 .. resets => x # resets + 1
        BY <1>0
      <4>2. \A i \in DOMAIN inbox[job.client] : IsOutput(inbox[job.client][i]) =>
                inbox[job.client][i].body.resets \in 0 .. resets
        BY <1>b, <2>0 DEF ToldInv, Kept
      <4>. QED  BY <4>1, <4>2
    <3>4. ReplyToldInv(job.client, inbox[job.client], job.id, body, recorded', resets')
      BY <3>3 DEF ReplyToldInv, Lists
    <3>. HIDE DEF body
    <3>. QED  BY <2>0, <2>2, <3>1, <3>2, <3>4, RespondHistory
  <2>. QED  BY <1>3, <2>1, <2>2 DEF RunReset
<1>4. CASE EmitProgress
  BY <1>4, <1>c DEF EmitProgress, HistoryInv, PublishInv
<1>5. CASE CommitTurn
  <2>1. /\ recorded \in Seq(Clients \X Nat) /\ recorded' = Append(recorded, <<job.client, job.id>>)
        /\ resets' = resets /\ job' = job /\ UNCHANGED handlerVars /\ reply' = reply
        /\ job \in Jobs /\ <<job.client, job.id>> \in Clients \X Nat
    BY <1>0, <1>5 DEF CommitTurn, TypeOK, Jobs
  <2>2. ToSet(recorded) \subseteq ToSet(recorded') /\ <<job.client, job.id>> \in ToSet(recorded')
    <3>. DEFINE S == Clients \X Nat
                x == <<job.client, job.id>>
                l == Len(recorded)
    <3>1. recorded \in Seq(S) /\ x \in S /\ recorded' = Append(recorded, x)
      BY <2>1
    <3>. HIDE DEF S, x
    <3>2. /\ l \in Nat /\ DOMAIN recorded = 1 .. l
          /\ recorded' \in Seq(S) /\ Len(recorded') = l + 1
          /\ \A i \in 1 .. l : recorded'[i] = recorded[i]
          /\ recorded'[l + 1] = x
      BY <3>1, AppendProperties, LenProperties
    <3>. HIDE DEF l
    <3>3. DOMAIN recorded' = 1 .. l + 1
      BY <3>2, LenProperties
    <3>4. l + 1 \in DOMAIN recorded' /\ \A i \in DOMAIN recorded : i \in DOMAIN recorded'
      BY <3>2, <3>3
    <3>5. \A y \in ToSet(recorded) : y \in ToSet(recorded')
      BY <3>2, <3>4 DEF ToSet
    <3>6. x \in ToSet(recorded')
      BY <3>2, <3>4 DEF ToSet
    <3>. QED  BY <3>5, <3>6 DEF x
  <2>3. PublishInv'
    BY <2>1, <2>2 DEF PublishInv
  <2>4. ASSUME NEW c \in Clients
        PROVE  /\ ToldInv(c, inbox[c], recorded, resets)'
               /\ ReplyToldInv(c, inbox[c], current[c].id, reply[c], recorded, resets)'
    <3>1. /\ ToldInv(c, inbox[c], recorded', resets)
          /\ ReplyToldInv(c, inbox[c], current[c].id, reply[c], recorded', resets)
      BY <1>b, <2>2, SessionGrows
    <3>. QED  BY <2>1, <3>1 DEF handlerVars
  <2>. QED  BY <2>3, <2>4 DEF HistoryInv
<1>6. CASE PublishTurn
  <2>1. Output \in Bodies
    BY DEF Output, Bodies, TypeOK
  <2>2. /\ job \in Jobs /\ recorded' = recorded /\ resets' = resets
        /\ <<job.client, job.id>> \in ToSet(recorded)
    BY <1>0, <1>6 DEF PublishTurn, HistoryInv, PublishInv
  <2>3. ReplyToldInv(job.client, inbox[job.client], job.id, Output, recorded, resets)
    BY <1>0, <2>2 DEF ReplyToldInv, Output, Kept
  <2>. QED  BY <1>6, <1>b, <2>1, <2>2, <2>3, RespondHistory DEF PublishTurn
<1>7. CASE FailTurn
  <2>1. job \in Jobs /\ recorded' = recorded /\ resets' = resets
    BY <1>0, <1>7 DEF FailTurn
  <2>. QED  BY <1>7, <1>a, <1>b, <2>1, NothingTold, RespondHistory DEF FailTurn
<1>8. CASE CancelTurn
  BY <1>8, <1>c DEF CancelTurn, PublishInv
<1>9. CASE Die
  BY <1>9, <1>c DEF Die, PublishInv
<1>. QED
  BY <1>1, <1>2, <1>3, <1>4, <1>5, <1>6, <1>7, <1>8, <1>9 DEF Work

(***************************************************************************)
(* A history a client gets after the answer to one of its turns contains    *)
(* that turn, unless the session was reset between the two: run_agent_worker*)
(* answers a turn only once it is saved, and reads the session when it      *)
(* answers a history request.                                               *)
(***************************************************************************)
THEOREM ClientsSeeTheirTurns == Spec => []HistoryShowsAnsweredTurns
<1>1. Init => HistoryInv
  <2>. SUFFICES ASSUME Init PROVE HistoryInv
    OBVIOUS
  <2>1. ASSUME NEW c \in Clients
        PROVE  /\ ToldInv(c, inbox[c], recorded, resets)
               /\ ReplyToldInv(c, inbox[c], current[c].id, reply[c], recorded, resets)
    <3>1. DOMAIN inbox[c] = {} /\ reply[c] = NoReply
      BY DEF Init
    <3>. QED  BY <3>1, NothingTold DEF ToldInv
  <2>. QED  BY <2>1 DEF Init, HistoryInv, PublishInv
<1>2. /\ TypeOK /\ WorkerInv /\ ServerInv /\ HistoryInv
      /\ (TypeOK /\ WorkerInv /\ ServerInv)' /\ [Next]_vars
      => HistoryInv'
  <2>. SUFFICES ASSUME TypeOK, WorkerInv, ServerInv, HistoryInv, TypeOK', [Next]_vars
                PROVE  HistoryInv'
    OBVIOUS
  <2>1. ASSUME NEW c \in Clients, ClientStep(c)
        PROVE  HistoryInv'
    BY <2>1, ClientStepHistory
  <2>2. CASE Work \/ Die
    BY <2>2, WorkerStepHistory
  <2>3. CASE UNCHANGED vars
    BY <2>3 DEF vars, HistoryInv, PublishInv
  <2>. QED  BY <2>1, <2>2, <2>3 DEF Next, ClientStep
<1>3. HistoryInv => HistoryShowsAnsweredTurns
  BY DEF HistoryInv, ToldInv, HistoryShowsAnsweredTurns, IsOutput, IsHistory
<1>. QED  BY <1>1, <1>2, <1>3, ServerInductive, PTL DEF Spec

=============================================================================

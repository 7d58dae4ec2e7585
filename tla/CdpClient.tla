------------------------------ MODULE CdpClient ------------------------------
(***************************************************************************)
(* The client every command goes through to the browser: numbered requests *)
(* with a table of who waits for which number, one reader task, one task   *)
(* that keeps the connection alive, and a DevTools frontend that shares    *)
(* the connection through the inspect server.                              *)
(***************************************************************************)
EXTENDS Integers, Sequences, FiniteSets

CONSTANTS
    Callers,      \* the tasks that call send_command
    MaxCalls,     \* how often each of them does
    MaxDevTools,  \* requests of a DevTools frontend; 0: nobody inspects
    None

VARIABLES
    nextId,      \* CdpClient.next_id
    pending,     \* id -> the caller whose sender is in the table
    call,        \* what each caller is at
    asked,       \* requests the browser has and has not answered
    wire,        \* answers on the way back
    conn,        \* "open", or "dead" once the browser is gone
    reader,      \* the reader task: "running", "broken" (out of its loop), "exited"
    keepalive,   \* the task that sends pings: "running" or "ended"
    devtools,    \* a DevTools frontend: where it is and how much it has asked
    room         \* writes end; not while a browser that is there does not read

vars == <<nextId, pending, call, asked, wire, conn, reader, keepalive, devtools, room>>

AttachId == -1000
Idle == [st |-> "idle", id |-> 0, n |-> 0, got |-> None]
Message(i, who, n) == [id |-> i, owner |-> who, n |-> n]
Ids == 1 .. Cardinality(Callers) * MaxCalls

\* Numbers are given once, and only a caller that has written its request, or
\* is about to, is in the table with the number it waits for.
TypeOK ==
    /\ nextId \in Nat \ {0}
    /\ \A i \in DOMAIN pending : i \in 1 .. nextId - 1 /\ pending[i] \in Callers
    /\ \A c \in Callers : call[c].st \in {"idle", "inserted", "waiting", "expired", "answered", "closed", "timeout", "failed"}
    /\ \A c \in Callers : call[c].st = "timeout" => call[c].id \notin DOMAIN pending
    /\ conn \in {"open", "dead"} /\ reader \in {"running", "broken", "exited"}
    /\ keepalive \in {"running", "ended"}
    /\ devtools.st \in {"off", "attaching", "on", "done"}
    /\ room \in BOOLEAN

Init ==
    /\ nextId = 1 /\ pending = <<>>
    /\ call = [c \in Callers |-> Idle]
    /\ asked = {} /\ wire = <<>>
    /\ conn = "open" /\ reader = "running" /\ keepalive = "running"
    /\ devtools = [st |-> "off", id |-> 0]
    /\ room = TRUE

-----------------------------------------------------------------------------
(* send_command                                                            *)

Without(i) == [k \in DOMAIN pending \ {i} |-> pending[k]]

\* The mutant gives the smallest number that is not in the table.
TakeIdFree(c) ==
    /\ call[c].st \notin {"inserted", "waiting", "expired"} /\ call[c].n < MaxCalls
    /\ LET id == CHOOSE i \in Ids : i \notin DOMAIN pending /\ \A j \in 1 .. i - 1 : j \in DOMAIN pending IN
       /\ call' = [call EXCEPT ![c] = [st |-> "inserted", id |-> id, n |-> @.n + 1, got |-> None]]
       /\ pending' = [k \in DOMAIN pending \cup {id} |-> IF k = id THEN c ELSE pending[k]]
    /\ nextId' = nextId + 1
    /\ UNCHANGED <<asked, wire, conn, reader, keepalive, devtools, room>>
\* The number, and the sender in the table.
TakeId(c) ==
    /\ call[c].st \notin {"inserted", "waiting", "expired"} /\ call[c].n < MaxCalls
    /\ call' = [call EXCEPT ![c] = [st |-> "inserted", id |-> nextId, n |-> @.n + 1, got |-> None]]
    /\ pending' = [k \in DOMAIN pending \cup {nextId} |-> IF k = nextId THEN c ELSE pending[k]]
    /\ nextId' = nextId + 1
    /\ UNCHANGED <<asked, wire, conn, reader, keepalive, devtools, room>>

\* The request is written.  When the browser is gone the write may fail, and
\* the table keeps the entry; or the socket takes it all the same.  Until the
\* write ends it holds the lock of the socket and no timer runs: while the browser
\* does not read, neither this one ends nor that of anybody else.
Write(c) ==
    /\ call[c].st = "inserted" /\ room
    /\ \/ /\ call' = [call EXCEPT ![c].st = "waiting"]
          /\ asked' = IF conn = "open" THEN asked \cup {Message(call[c].id, c, call[c].n)} ELSE asked
       \/ /\ conn = "dead"
          /\ call' = [call EXCEPT ![c].st = "failed"]
          /\ UNCHANGED asked
    /\ UNCHANGED <<nextId, pending, wire, conn, reader, keepalive, devtools, room>>

\* The caller wakes with the answer, or because its sender was dropped.
Return(c) ==
    /\ call[c].st = "waiting"
    /\ \/ call[c].got # None /\ call' = [call EXCEPT ![c].st = "answered"]
       \/ /\ call[c].got = None /\ call[c].id \notin DOMAIN pending
          /\ call' = [call EXCEPT ![c].st = "closed"]
    /\ UNCHANGED <<nextId, pending, asked, wire, conn, reader, keepalive, devtools, room>>

\* Thirty seconds pass with nothing received.
Expire(c) ==
    /\ call[c].st = "waiting" /\ call[c].got = None
    /\ call' = [call EXCEPT ![c].st = "expired"]
    /\ UNCHANGED <<nextId, pending, asked, wire, conn, reader, keepalive, devtools, room>>

\* The entry is removed from the table.
Forget(c) ==
    /\ call[c].st = "expired"
    /\ call' = [call EXCEPT ![c].st = "timeout"]
    /\ pending' = Without(call[c].id)
    /\ UNCHANGED <<nextId, asked, wire, conn, reader, keepalive, devtools, room>>

-----------------------------------------------------------------------------
(* The browser answers in any order, may stop reading, and may go away.    *)

Answer ==
    /\ conn = "open"
    /\ \E m \in asked : asked' = asked \ {m} /\ wire' = Append(wire, m)
    /\ UNCHANGED <<nextId, pending, call, conn, reader, keepalive, devtools, room>>

\* With the connection gone every write ends.
Die ==
    /\ conn = "open" /\ conn' = "dead" /\ asked' = {} /\ room' = TRUE
    /\ UNCHANGED <<nextId, pending, call, wire, reader, keepalive, devtools>>

\* The buffers of the socket are full, until the browser reads on.
Fill ==
    /\ conn = "open" /\ room /\ room' = FALSE
    /\ UNCHANGED <<nextId, pending, call, asked, wire, conn, reader, keepalive, devtools>>

Drain ==
    /\ conn = "open" /\ ~ room /\ room' = TRUE
    /\ UNCHANGED <<nextId, pending, call, asked, wire, conn, reader, keepalive, devtools>>

-----------------------------------------------------------------------------
(* The reader task.                                                        *)

\* What arrives goes to the inspect server first; a negative number is not one
\* of ours; any other is looked up in the table, whoever asked.
Read ==
    /\ reader = "running" /\ wire # <<>>
    /\ wire' = Tail(wire)
    /\ LET m == Head(wire) IN
       /\ devtools' = IF m.owner = "attach" /\ devtools.st = "attaching" THEN [devtools EXCEPT !.st = "on"] ELSE devtools
       /\ IF m.id > 0 /\ m.id \in DOMAIN pending
          THEN /\ pending' = Without(m.id)
               /\ call' = IF call[pending[m.id]].id = m.id
                          THEN [call EXCEPT ![pending[m.id]].got = m] ELSE call
          ELSE UNCHANGED <<pending, call>>
    /\ UNCHANGED <<nextId, asked, conn, reader, keepalive, room>>

\* The connection is closed or fails: the loop ends.
Break ==
    /\ reader = "running" /\ conn = "dead" /\ wire = <<>>
    /\ reader' = "broken"
    /\ UNCHANGED <<nextId, pending, call, asked, wire, conn, keepalive, devtools, room>>

\* Every sender in the table is dropped, then the keepalive task is told.
Exit ==
    /\ reader = "broken" /\ reader' = "exited" /\ pending' = <<>>
    /\ keepalive' = "ended"
    /\ UNCHANGED <<nextId, call, asked, wire, conn, devtools, room>>

\* A ping that cannot be written ends the task.
Ping ==
    /\ keepalive = "running" /\ conn = "dead" /\ keepalive' = "ended"
    /\ UNCHANGED <<nextId, pending, call, asked, wire, conn, reader, devtools, room>>

-----------------------------------------------------------------------------
(* The inspect server: its own requests have negative numbers; those of the *)
(* frontend keep the numbers the frontend gave them, 1, 2, 3 and so on.      *)

Attach ==
    /\ MaxDevTools > 0 /\ devtools.st = "off" /\ conn = "open" /\ room
    /\ devtools' = [devtools EXCEPT !.st = "attaching"]
    /\ asked' = asked \cup {Message(AttachId, "attach", 0)}
    /\ UNCHANGED <<nextId, pending, call, wire, conn, reader, keepalive, room>>

FrontendAsks ==
    /\ devtools.st = "on" /\ devtools.id < MaxDevTools /\ conn = "open" /\ room
    /\ devtools' = [devtools EXCEPT !.id = @ + 1]
    /\ asked' = asked \cup {Message(devtools.id + 1, "devtools", 0)}
    /\ UNCHANGED <<nextId, pending, call, wire, conn, reader, keepalive, room>>

\* The frontend closes, or the attaching takes more than five seconds.
Detach ==
    /\ devtools.st \in {"attaching", "on"} /\ (devtools.st = "on" => room)
    /\ asked' = IF devtools.st = "on" /\ conn = "open"
                THEN asked \cup {Message(AttachId - 1, "attach", 1)} ELSE asked
    /\ devtools' = [devtools EXCEPT !.st = "done"]
    /\ UNCHANGED <<nextId, pending, call, wire, conn, reader, keepalive, room>>

-----------------------------------------------------------------------------
Caller(c) == TakeId(c) \/ Write(c) \/ Return(c) \/ Expire(c) \/ Forget(c)

Next ==
    \/ \E c \in Callers : Caller(c)
    \/ Answer \/ Die \/ Fill \/ Drain
    \/ Read \/ Break \/ Exit
    \/ Ping
    \/ Attach \/ FrontendAsks \/ Detach

\* Every task is scheduled, every timer fires and a write that can end does; the
\* browser need not answer, nor read.
Going(c) == Write(c) \/ Return(c) \/ Expire(c) \/ Forget(c)
Spec ==
    /\ Init /\ [][Next]_vars
    /\ \A c \in Callers : WF_vars(Going(c))
    /\ WF_vars(Read \/ Break \/ Exit)

-----------------------------------------------------------------------------
(* Properties.                                                             *)

\* What a caller returns is the browser's answer to that very call: not to an
\* earlier one of its own that timed out and was answered late, nor to another's.
OwnAnswer ==
    \A c \in Callers : call[c].got # None => call[c].got = Message(call[c].id, c, call[c].n)

\* A DevTools frontend numbers its requests as the callers do; until one asks
\* something through the inspect server, nothing is mistaken.
OwnUnlessInspected == devtools.id = 0 => OwnAnswer

\* A call that is written comes back, whatever becomes of the browser: the timer
\* runs from there.  A call that is not comes back unless, over and over, the
\* browser stays there and does not read.
Written == {"waiting", "expired"}
Back == {"answered", "closed", "timeout", "failed"}
EveryCallReturns ==
    \A c \in Callers :
        /\ (call[c].st \in Written) ~> (call[c].st \in Back)
        /\ <>[]room => ((call[c].st = "inserted") ~> (call[c].st \in Back))

\* The keepalive task does not outlive the connection.
KeepaliveEnds == (conn = "dead") ~> (keepalive = "ended")

=============================================================================

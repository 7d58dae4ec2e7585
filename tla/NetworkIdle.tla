----------------------------- MODULE NetworkIdle -----------------------------
(***************************************************************************)
(* poll_network_idle: a page is idle once no request has been in flight    *)
(* for Quiet.  The loop sees the network only through events; it looks at  *)
(* its timer when an event arrives and when none has arrived for Patience. *)
(***************************************************************************)
EXTENDS Naturals

CONSTANTS
    Requests,
    Quiet,      \* 500 ms
    Patience,   \* 600 ms
    Deadline,   \* the overall timeout, and the bound on the clock
    Late,       \* whether the subscription may begin with requests in flight
    NoTime      \* idle_start is None

ASSUME TimesAssumption == Quiet \in Nat /\ Patience \in Nat /\ Deadline \in Nat

ASSUME NoTimeAssumption == NoTime \notin Nat

VARIABLES
    now,        \* the clock
    flight,     \* requests really in flight
    busy,       \* the last moment at which one was
    pending,    \* requests the loop knows of
    idle,       \* idle_start
    heard,      \* when the last recv ended
    result      \* "none", "ok", "timeout"

vars == <<now, flight, busy, pending, idle, heard, result>>

TypeOK ==
    /\ now \in Nat /\ busy \in Nat /\ heard \in Nat
    /\ flight \subseteq Requests /\ pending \subseteq Requests
    /\ idle \in Nat \cup {NoTime} /\ result \in {"none", "ok", "timeout"}

Init ==
    /\ now = 0 /\ busy = 0 /\ heard = 0 /\ pending = {} /\ idle = NoTime /\ result = "none"
    /\ IF Late THEN flight \in SUBSET Requests ELSE flight = {}

\* idle_start.elapsed() >= 500 ms, looked at after every turn of the loop
Elapsed(start) == start # NoTime /\ now >= start + Quiet

\* One turn ends: the loop has new values and looks at its timer.
Turn(p, start) ==
    /\ pending' = p /\ idle' = start /\ heard' = now
    /\ result' = IF Elapsed(start) THEN "ok" ELSE "none"

\* The mutant does not stop the timer.
RequestStartsIdle(r) ==
    /\ result = "none" /\ r \in Requests \ flight
    /\ flight' = flight \cup {r} /\ busy' = now
    /\ Turn(pending \cup {r}, idle)
    /\ UNCHANGED now
\* Network.requestWillBeSent
RequestStarts(r) ==
    /\ result = "none" /\ r \in Requests \ flight
    /\ flight' = flight \cup {r} /\ busy' = now
    /\ Turn(pending \cup {r}, NoTime)
    /\ UNCHANGED now

\* Network.loadingFinished and loadingFailed, known request or not
RequestEnds(r) ==
    /\ result = "none" /\ r \in flight
    /\ flight' = flight \ {r} /\ busy' = now
    /\ Turn(pending \ {r}, IF pending \ {r} = {} THEN now ELSE idle)
    /\ UNCHANGED now

\* Page.loadEventFired, and any other event
Load ==
    /\ result = "none" /\ Turn(pending, IF pending = {} THEN now ELSE idle)
    /\ UNCHANGED <<now, flight, busy>>
Other ==
    /\ result = "none" /\ Turn(pending, idle)
    /\ UNCHANGED <<now, flight, busy>>

\* No event for Patience: the timer starts when nothing is known to be pending.
Silence ==
    /\ result = "none" /\ now >= heard + Patience
    /\ Turn(pending, IF pending = {} /\ idle = NoTime THEN now ELSE idle)
    /\ UNCHANGED <<now, flight, busy>>

\* Time passes, no further than the next end of recv or the overall timeout.
Tick ==
    /\ result = "none" /\ now < heard + Patience /\ now < Deadline
    /\ now' = now + 1
    /\ busy' = IF flight # {} THEN now + 1 ELSE busy
    /\ UNCHANGED <<flight, pending, idle, heard, result>>

\* The overall timeout
TimesOut ==
    /\ result = "none" /\ now >= Deadline /\ result' = "timeout"
    /\ UNCHANGED <<now, flight, busy, pending, idle, heard>>

Next ==
    \/ \E r \in Requests : RequestStarts(r) \/ RequestEnds(r)
    \/ Load \/ Other \/ Silence \/ Tick \/ TimesOut

\* Time passes and timers fire; nothing makes the page do anything.
Spec == Init /\ [][Next]_vars /\ WF_vars(Tick) /\ WF_vars(Silence) /\ WF_vars(TimesOut)

-----------------------------------------------------------------------------
(* Properties.                                                             *)

\* Ok is returned only when nothing is in flight and nothing has been for Quiet.
OkMeansIdle == result = "ok" => flight = {} /\ now >= busy + Quiet

\* What the loop knows: all of the requests, and a timer that runs only
\* without any and never started before the last of them ended.
Known ==
    /\ pending = flight /\ busy <= now
    /\ idle # NoTime => pending = {} /\ idle >= busy /\ idle <= now
    /\ result = "ok" => Elapsed(idle)

\* The inductive invariant of the proof.
Inv == TypeOK /\ Known

\* The wait comes to an end.
Returns == <>(result # "none")

=============================================================================

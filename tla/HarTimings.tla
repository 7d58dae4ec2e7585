------------------------------ MODULE HarTimings -----------------------------
(***************************************************************************)
(* har_compute_timings: the phases of a request and its total time, from   *)
(* the browser's timing of it, in milliseconds since the request began,    *)
(* with -1 for a phase that did not occur.                                 *)
(***************************************************************************)
EXTENDS Integers, Sequences

CONSTANTS
    MaxTime       \* the latest time of a phase

VARIABLES t, result
vars == <<t, result>>

NotAsked == [total |-> -1]

\* What the browser reports: the phases follow each other; name lookup and
\* connecting may be missing (a connection that is reused), and so may the time
\* of the first header.  Encryption is part of connecting and of no sum.
Times == 0 .. MaxTime
Timings ==
    {x \in [dnsStart : Times \cup {-1}, dnsEnd : Times \cup {-1},
            connectStart : Times \cup {-1}, connectEnd : Times \cup {-1},
            sendStart : Times, sendEnd : Times,
            headersStart : Times \cup {-1}, headersEnd : Times,
            finished : Times] :
       /\ (x.dnsStart = -1) = (x.dnsEnd = -1) /\ x.dnsStart <= x.dnsEnd
       /\ (x.connectStart = -1) = (x.connectEnd = -1) /\ x.connectStart <= x.connectEnd
       /\ x.connectStart = -1 => x.dnsStart = -1
       /\ x.connectStart # -1 => x.dnsEnd <= x.connectStart /\ x.connectEnd <= x.sendStart
       /\ x.sendStart <= x.sendEnd
       /\ x.headersStart # -1 => x.sendEnd <= x.headersStart /\ x.headersStart <= x.headersEnd
       /\ x.sendEnd <= x.headersEnd /\ x.headersEnd <= x.finished}

Init == t \in Timings /\ result = NotAsked

-----------------------------------------------------------------------------
Positive(x) == IF x > 0 THEN x ELSE 0
Phase(from, to) == IF from >= 0 /\ to >= 0 THEN to - from ELSE -1

Wait == LET end == IF t.headersStart >= 0 THEN t.headersStart ELSE t.headersEnd
        IN  IF t.sendEnd >= 0 /\ end >= t.sendEnd THEN end - t.sendEnd ELSE 0

\* What comes before the first phase; a first phase at 0 counts as missing.
Blocked ==
    IF t.dnsStart > 0 THEN t.dnsStart
    ELSE IF t.connectStart > 0 THEN t.connectStart
    ELSE IF t.sendStart > 0 THEN t.sendStart
    ELSE -1

\* har_compute_timings
Compute ==
    /\ result = NotAsked
    /\ LET dns == Phase(t.dnsStart, t.dnsEnd)
           connect == Phase(t.connectStart, t.connectEnd)
           send == Positive(t.sendEnd - t.sendStart)
           receive == Positive(t.finished - t.headersEnd)
       IN  result' = [blocked |-> Blocked, dns |-> dns, connect |-> connect,
                      send |-> send, wait |-> Wait, receive |-> receive,
                      total |-> Positive(Blocked) + Positive(dns) + Positive(connect) + send + Wait + receive]
    /\ UNCHANGED t

Next == Compute
Spec == Init /\ [][Next]_vars

-----------------------------------------------------------------------------
\* No millisecond is counted in two phases: the total is at most the time from
\* the beginning of the request to its end, unless the first of several phases
\* begins at 0, which is taken for a phase that is missing.
WithinElapsed == result.total <= t.finished \/ 0 \in {t.dnsStart, t.connectStart}

=============================================================================

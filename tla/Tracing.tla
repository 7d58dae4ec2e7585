------------------------------- MODULE Tracing -------------------------------
(***************************************************************************)
(* trace start/stop and profiler start/stop.  Both use the browser's one   *)
(* tracing facility and share one flag, TracingState.active, which does    *)
(* not say of which kind it is: a stop of either kind ends what there is.  *)
(* A trace is handed over as a stream, a profile as events; a stop         *)
(* subscribes, ends the tracing and collects until the browser says it is  *)
(* complete, for at most 30 seconds.  The browser may fall silent or be    *)
(* closed at any time.                                                     *)
(***************************************************************************)
EXTENDS Naturals, Sequences

CONSTANTS
    Tabs,
    MaxBatches,   \* batches of events a tracing gathers
    Limit,        \* MAX_PROFILE_EVENTS
    Capacity,     \* of the channel events arrive on (4096 in the code)
    MaxSteps,     \* bound on starts, stops, switches and launches
    MaxNoise,     \* bound on events of other kinds during one stop
    None

VARIABLES
    browser,      \* whether there is one
    tab,          \* the active tab
    tracing,      \* the browser's: None, or the tab, the mode and what it gathered
    active,       \* TracingState.active
    stop,         \* a stop under way, or None
    saved,        \* the last stop that answered ok, or None
    lost,         \* the flag was left as it was when an answer of the browser did
                  \* not come, or the browser went
    steps

vars == <<browser, tab, tracing, active, stop, saved, lost, steps>>

Kinds == {"trace", "profile"}
Modes == {"stream", "events"}

\* A tracing's events are known by their numbers and handed over in batches.
Batch(from, n) == [is |-> "batch", events |-> [i \in 1 .. n |-> from + i]]
Complete == [is |-> "complete"]
Other == [is |-> "other"]

\* A trace is transferred as a stream, a profile as events.
Mode(kind) == IF kind = "trace" THEN "stream" ELSE "events"

Messages == [is : {"batch"}, events : Seq(Nat)] \cup {Complete, Other}
Tracings == [tab : Tabs, mode : Modes, batches : Seq(Messages), count : Nat]
Stops == [kind : Kinds, mode : Modes, all : Seq(Nat), noise : 0 .. MaxNoise,
          left : Seq(Messages), queue : Seq(Messages), lag : BOOLEAN,
          got : Seq(Nat), dropped : BOOLEAN]
Saves == [kind : Kinds, mode : Modes, all : Seq(Nat), events : Seq(Nat), warned : BOOLEAN,
          lagged : BOOLEAN]

Init ==
    /\ browser = TRUE /\ tab \in Tabs /\ tracing = None
    /\ active = FALSE /\ stop = None /\ saved = None /\ lost = FALSE /\ steps = 0

TypeOK ==
    /\ browser \in BOOLEAN /\ active \in BOOLEAN /\ lost \in BOOLEAN
    /\ tab \in Tabs /\ steps \in 0 .. MaxSteps
    /\ tracing \in Tracings \cup {None}
    /\ stop \in Stops \cup {None}
    /\ saved \in Saves \cup {None}
    /\ stop # None => Len(stop.queue) <= Capacity /\ active
    /\ ~ browser => tracing = None /\ stop = None

Step == stop = None /\ steps < MaxSteps /\ steps' = steps + 1

-----------------------------------------------------------------------------
(* The browser and its user.                                               *)

TabSwitch ==
    /\ Step /\ browser /\ tab' \in Tabs \ {tab}
    /\ UNCHANGED <<browser, tracing, active, stop, saved, lost>>

\* Nothing about tracing is reset when the browser goes.
Close ==
    /\ Step /\ browser /\ browser' = FALSE /\ tracing' = None
    /\ lost' = active
    /\ UNCHANGED <<tab, active, stop, saved>>

Launch ==
    /\ Step /\ ~ browser /\ browser' = TRUE
    /\ UNCHANGED <<tab, tracing, active, stop, saved, lost>>

\* The page works and events are gathered, one or two at a time.
Gather ==
    /\ tracing # None /\ stop = None /\ Len(tracing.batches) < MaxBatches
    /\ \E n \in 1 .. 2 :
         tracing' = [tracing EXCEPT !.batches = Append(@, Batch(tracing.count, n)), !.count = @ + n]
    /\ UNCHANGED <<browser, tab, active, stop, saved, lost, steps>>

-----------------------------------------------------------------------------
(* Commands.                                                               *)

\* trace_start and profiler_start; the browser refuses a second tracing, and
\* then the flag stays down.  It stays down too when the answer does not come.
Start(kind) ==
    /\ Step /\ browser /\ ~ active
    /\ IF tracing = None
       THEN /\ tracing' = [tab |-> tab, mode |-> Mode(kind), batches |-> <<>>, count |-> 0]
            /\ \E answered \in BOOLEAN : active' = answered /\ lost' = ~ answered
       ELSE UNCHANGED <<tracing, active, lost>>
    /\ UNCHANGED <<browser, tab, stop, saved>>

\* trace_stop and profiler_stop: subscribe, then Tracing.end for the tab that
\* is active now.  The browser refuses one that is not of that tab; it does not
\* care for the kind.  The stop fails when the answer does not come.
Stop(kind) ==
    /\ Step /\ browser /\ active
    /\ IF tracing # None /\ tracing.tab = tab
       THEN /\ tracing' = None
            /\ \/ stop' = [kind |-> kind, mode |-> tracing.mode,
                           all |-> [i \in 1 .. tracing.count |-> i], noise |-> 0,
                           left |-> Append(IF tracing.mode = "events" THEN tracing.batches ELSE <<>>,
                                           Complete),
                           queue |-> <<>>, lag |-> FALSE, got |-> <<>>, dropped |-> FALSE]
                  /\ UNCHANGED lost
               \/ lost' = TRUE /\ UNCHANGED stop
       ELSE UNCHANGED <<tracing, stop, lost>>
    /\ UNCHANGED <<browser, tab, active, saved>>

\* An event arrives; a full channel loses its oldest and the receiver will
\* be told that it lagged.
Arrives(e) ==
    [queue |-> Append(IF Len(stop.queue) = Capacity THEN Tail(stop.queue) ELSE stop.queue, e),
     lag |-> stop.lag \/ Len(stop.queue) = Capacity]

Emit ==
    /\ stop # None /\ stop.left # <<>>
    /\ LET a == Arrives(Head(stop.left))
       IN  stop' = [stop EXCEPT !.left = Tail(@), !.queue = a.queue, !.lag = a.lag]
    /\ UNCHANGED <<browser, tab, tracing, active, saved, lost, steps>>

\* Events of other sessions and other kinds come on the same channel.
Noise ==
    /\ stop # None /\ stop.noise < MaxNoise
    /\ LET a == Arrives(Other)
       IN  stop' = [stop EXCEPT !.noise = @ + 1, !.queue = a.queue, !.lag = a.lag]
    /\ UNCHANGED <<browser, tab, tracing, active, saved, lost, steps>>

\* A batch: a profile that would grow past the limit goes without it.
Taken(s, events) ==
    IF s.kind = "profile" /\ Len(s.got) + Len(events) > Limit
    THEN [s EXCEPT !.dropped = TRUE, !.queue = Tail(@)]
    ELSE [s EXCEPT !.got = @ \o events, !.queue = Tail(@)]

\* One turn of the collecting loop that does not end it.
Receive ==
    /\ stop # None /\ ~ stop.lag /\ stop.queue # <<>> /\ Head(stop.queue).is # "complete"
    /\ stop' = IF Head(stop.queue).is = "other" THEN [stop EXCEPT !.queue = Tail(@)]
               ELSE Taken(stop, Head(stop.queue).events)
    /\ UNCHANGED <<browser, tab, tracing, active, saved, lost, steps>>

\* What is written: a trace that came without events is read from the stream, which
\* the event of completion names.  A profile is never read from one.
Written(s) ==
    IF s.kind = "trace" /\ s.mode = "stream" /\ ~ s.lag /\ s.got = <<>> THEN s.all ELSE s.got

Saved(s) ==
    [kind |-> s.kind, mode |-> s.mode, all |-> s.all, events |-> Written(s),
     warned |-> s.dropped, lagged |-> s.lag]

\* The loop ends when the browser is complete, and when the receiver lagged.
Collected == stop # None /\ (stop.lag \/ (stop.queue # <<>> /\ Head(stop.queue).is = "complete"))

\* The mutant puts the flag down after the file is written.
FinishFlagLast ==
    /\ Collected
    /\ stop' = None
    /\ \/ active' = FALSE /\ saved' = Saved(stop)
       \/ UNCHANGED <<active, saved>>
    /\ lost' = FALSE
    /\ UNCHANGED <<browser, tab, tracing, steps>>

\* The flag goes down, the file is written or cannot be, and the answer has a
\* warning when batches were left out, but none for what was lost by lagging.
Finish ==
    /\ Collected
    /\ stop' = None /\ active' = FALSE /\ lost' = FALSE
    /\ saved' = Saved(stop) \/ UNCHANGED saved
    /\ UNCHANGED <<browser, tab, tracing, steps>>

\* read_io_stream fails: the answer is its error, with the flag still up.
StreamFails ==
    /\ Collected /\ ~ stop.lag
    /\ stop.kind = "trace" /\ stop.mode = "stream" /\ stop.got = <<>>
    /\ stop' = None /\ lost' = TRUE
    /\ UNCHANGED <<browser, tab, tracing, active, saved, steps>>

\* Thirty seconds without the event of completion: the stop fails, with the flag
\* still up.
Timeout ==
    /\ stop # None /\ stop.left # <<>> /\ stop.queue = <<>> /\ ~ stop.lag
    /\ stop' = None /\ lost' = TRUE
    /\ UNCHANGED <<browser, tab, tracing, active, saved, steps>>

Next ==
    \/ TabSwitch \/ Close \/ Launch \/ Gather
    \/ \E kind \in Kinds : Start(kind) \/ Stop(kind)
    \/ Emit \/ Noise \/ Receive \/ Finish \/ StreamFails \/ Timeout

\* The loop goes on receiving and the deadline comes; nothing is assumed of the
\* browser.
Spec == Init /\ [][Next]_vars /\ WF_vars(Receive \/ Finish) /\ WF_vars(Timeout)

-----------------------------------------------------------------------------
(* Properties.                                                             *)

\* A profile is never larger than the limit, and when batches were left out
\* of it the answer says so.
ProfileWithinLimit ==
    saved # None /\ saved.kind = "profile" =>
        /\ Len(saved.events) <= Limit
        /\ saved.warned => saved.events # saved.all

\* What was gathered is in the file, whole, unless the answer warns or the loop
\* lagged behind the channel, of which the answer says nothing.  The exception is
\* profiler stop after trace start: profiler_stop asks only whether the flag is up,
\* never reads the stream, and answers ok with a file that is always empty.
SavedIsWhole ==
    saved # None /\ ~ saved.warned /\ ~ saved.lagged =>
        saved.events = IF saved.kind = "profile" /\ saved.mode = "stream" THEN <<>> ELSE saved.all

\* The flag is up exactly while the browser traces, or is being stopped, so that
\* "already active" and "no tracing in progress" tell the truth, until an answer
\* of the browser is missing or the browser goes: those leave the flag behind,
\* and nothing puts it right.
FlagIsTrue ==
    /\ stop # None => active
    /\ ~ lost => (active <=> (tracing # None \/ stop # None))

\* A stop ends, whatever the browser does not say.
StopEnds == stop # None ~> stop = None

=============================================================================

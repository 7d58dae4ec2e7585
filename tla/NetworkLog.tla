----------------------------- MODULE NetworkLog -----------------------------
(***************************************************************************)
(* The log of network requests: events of the browser wait in a buffer     *)
(* until the daemon drains it, then fill the entries of a HAR recording    *)
(* and the list behind "network requests".  A request that is redirected    *)
(* is announced again under the same identifier: hop 1, hop 2.              *)
(***************************************************************************)
EXTENDS Naturals, Sequences, SequencesExt, FiniteSets

CONSTANTS
    Ids,        \* the browser's request identifiers
    Hops,       \* 1 .. the most a request is announced
    Sessions,   \* "tab": the active tab; "frame": a cross-origin frame of it; "other": another tab
    BufferSize, \* events the broadcast channel keeps (4096 in the code)
    MaxEvents,  \* bound on the events of a run
    None

VARIABLES
    net,        \* the browser: the hop, the state and the session of each request
    buffer,     \* events not drained yet
    emitted,    \* how many events there were
    lost,       \* whether the buffer ever overflowed
    har,        \* har_recording
    entries,    \* har_entries
    tracking,   \* request_tracking
    tracked,    \* tracked_requests
    file,       \* the last HAR file written
    since,      \* the requests announced while a recording was on
    busy,       \* har_start waits for Network.enable
    shown       \* the last request_detail: the identifier asked for and the entry

vars == <<net, buffer, emitted, lost, har, entries, tracking, tracked, file, since, busy, shown>>

Event(k, i) == [kind |-> k, id |-> i, hop |-> net[i].hop, session |-> net[i].session]
Entry(e) == [id |-> e.id, hop |-> e.hop, status |-> None, done |-> FALSE]

\* There are entries only while a recording is on or about to begin.
TypeOK ==
    /\ Len(buffer) <= BufferSize
    /\ har \in BOOLEAN /\ tracking \in BOOLEAN /\ lost \in BOOLEAN /\ busy \in BOOLEAN
    /\ \A i \in DOMAIN entries : entries[i].id \in Ids /\ entries[i].hop \in Hops
    /\ ~ har /\ ~ busy => entries = <<>>

Init ==
    /\ net = [i \in Ids |-> [hop |-> 0, st |-> "none", session |-> "tab"]]
    /\ buffer = <<>> /\ emitted = 0 /\ lost = FALSE
    /\ har = FALSE /\ entries = <<>> /\ tracking = FALSE /\ tracked = <<>>
    /\ file = None /\ since = <<>> /\ busy = FALSE /\ shown = None

-----------------------------------------------------------------------------
(* The browser.                                                            *)

\* An event enters the buffer; a full buffer drops its oldest.
Emit(e) ==
    /\ emitted < MaxEvents /\ emitted' = emitted + 1
    /\ buffer' = IF Len(buffer) = BufferSize THEN Append(Tail(buffer), e) ELSE Append(buffer, e)
    /\ lost' = (lost \/ Len(buffer) = BufferSize)

Announce ==
    /\ \E i \in Ids, s \in Sessions :
         /\ net[i].st = "none" \/ (net[i].st = "sent" /\ s = net[i].session /\ net[i].hop + 1 \in Hops)
         /\ net' = [net EXCEPT ![i] = [hop |-> @.hop + 1, st |-> "sent", session |-> s]]
         /\ LET e == [kind |-> "sent", id |-> i, hop |-> net[i].hop + 1, session |-> s] IN
            /\ Emit(e)
            /\ since' = IF har /\ s # "other" THEN Append(since, [id |-> i, hop |-> e.hop]) ELSE since
    /\ UNCHANGED <<har, entries, tracking, tracked, file, busy, shown>>

Happens(from, to, kind) ==
    /\ \E i \in Ids : net[i].st \in from /\ net' = [net EXCEPT ![i].st = to] /\ Emit(Event(kind, i))
    /\ UNCHANGED <<har, entries, tracking, tracked, file, since, busy, shown>>

Respond == Happens({"sent"}, "answered", "response")
Finish == Happens({"answered"}, "finished", "finished")
Fail == Happens({"sent", "answered"}, "failed", "failed")

-----------------------------------------------------------------------------
(* Draining.                                                               *)

\* Network.responseReceived, loadingFinished and loadingFailed on an entry.
Updated(x, e) ==
    CASE e.kind = "response" -> [x EXCEPT !.status = e.hop]
      [] e.kind = "finished" -> [x EXCEPT !.done = TRUE]
      [] e.kind = "failed" -> [x EXCEPT !.status = IF @ = None THEN 0 ELSE @, !.done = TRUE]

\* The mutant takes the first entry of the identifier.
FillFirst(log, e) ==
    IF \E k \in DOMAIN log : log[k].id = e.id
    THEN LET k == CHOOSE k \in DOMAIN log : log[k].id = e.id /\ \A j \in DOMAIN log : log[j].id = e.id => k <= j
         IN  [log EXCEPT ![k] = Updated(@, e)]
    ELSE log
\* The last entry of the identifier is the one a later event is about.
Fill(log, e) ==
    IF \E k \in DOMAIN log : log[k].id = e.id
    THEN LET k == CHOOSE k \in DOMAIN log : log[k].id = e.id /\ \A j \in DOMAIN log : log[j].id = e.id => j <= k
         IN  [log EXCEPT ![k] = Updated(@, e)]
    ELSE log

\* drain_cdp_events: events of the active tab and of its frames are taken.
Taken(e) == e.session # "other"
HarAfter(log, e) ==
    IF ~ har \/ ~ Taken(e) THEN log
    ELSE IF e.kind = "sent" THEN Append(log, Entry(e))
    ELSE Fill(log, e)
TrackedAfter(log, e) ==
    IF ~ tracking \/ ~ Taken(e) \/ e.kind \in {"finished", "failed"} THEN log
    ELSE IF e.kind = "sent" THEN Append(log, Entry(e))
    ELSE Fill(log, e)
HarLog == FoldLeft(HarAfter, entries, buffer)
TrackedLog == FoldLeft(TrackedAfter, tracked, buffer)

\* The daemon also drains twice a second, between commands.
Drain ==
    /\ buffer # <<>> /\ ~ busy
    /\ buffer' = <<>> /\ entries' = HarLog /\ tracked' = TrackedLog
    /\ UNCHANGED <<net, emitted, lost, har, tracking, file, since, busy, shown>>

-----------------------------------------------------------------------------
(* The commands; each drains first.                                        *)

\* handle_har_start: Network.enable is awaited, then the recording begins.
HarStart ==
    /\ ~ busy /\ busy' = TRUE
    /\ buffer' = <<>> /\ entries' = HarLog /\ tracked' = TrackedLog
    /\ UNCHANGED <<net, emitted, lost, har, tracking, file, since, shown>>

\* Network.enable is answered.
HarBegins ==
    /\ busy /\ busy' = FALSE /\ har' = TRUE /\ entries' = <<>>
    /\ since' = <<>>
    /\ UNCHANGED <<net, buffer, emitted, lost, tracking, tracked, file, shown>>

\* har_entry_to_json: an entry without a response is exported with status 0.
HarEntryToJson(x) == [id |-> x.id, hop |-> x.hop, status |-> IF x.status = None THEN 0 ELSE x.status]

\* handle_har_stop takes the entries out before it writes them; without a
\* recording it writes a file with no entries.
HarStop ==
    /\ ~ busy /\ har' = FALSE
    /\ buffer' = <<>> /\ tracked' = TrackedLog
    /\ LET log == HarLog IN
         file' \in {file, [log   |-> [k \in DOMAIN log |-> HarEntryToJson(log[k])],
                          since |-> IF har THEN since ELSE <<>>]}
    /\ entries' = <<>>
    /\ UNCHANGED <<net, emitted, lost, tracking, since, busy, shown>>

\* handle_requests: the first call begins the tracking; clear does not.
Requests ==
    /\ ~ busy
    /\ buffer' = <<>> /\ entries' = HarLog
    /\ \/ tracking' = TRUE /\ tracked' = TrackedLog
       \/ UNCHANGED tracking /\ tracked' = <<>>
    /\ UNCHANGED <<net, emitted, lost, har, file, since, busy, shown>>

\* handle_request_detail: the first entry of the identifier, and the body the
\* browser has for it now.
RequestDetail ==
    /\ ~ busy
    /\ buffer' = <<>> /\ entries' = HarLog /\ tracked' = TrackedLog
    /\ \E i \in Ids :
         LET hits == {k \in DOMAIN tracked' : tracked'[k].id = i} IN
         shown' = IF hits = {} THEN None
                  ELSE [entry |-> tracked'[CHOOSE k \in hits : \A j \in hits : k <= j],
                        body |-> IF net[i].st = "finished" THEN [id |-> i, hop |-> net[i].hop] ELSE None]
    /\ UNCHANGED <<net, emitted, lost, har, tracking, file, since, busy>>

Next ==
    \/ Announce \/ Respond \/ Finish \/ Fail
    \/ Drain \/ HarStart \/ HarBegins \/ HarStop \/ Requests \/ RequestDetail

Spec == Init /\ [][Next]_vars

-----------------------------------------------------------------------------
(* Properties.                                                             *)

\* However a request is redirected and whenever the events are drained, the
\* status an entry shows is that of the response to its own announcement, unless
\* the buffer overflowed and the announcement itself was dropped.
StatusOfItsOwn ==
    ~ lost => \A log \in {entries, tracked} : \A k \in DOMAIN log :
                 log[k].status \notin {None, 0} => log[k].status = log[k].hop

\* A HAR file holds, in order, every request the tab and its frames sent while
\* the recording was on, unless the buffer overflowed; besides them only those
\* sent while har_start was waiting for the browser.
HarComplete ==
    file # None /\ ~ lost =>
        IsSuffix(file.since, [k \in DOMAIN file.log |-> [id |-> file.log[k].id, hop |-> file.log[k].hop]])

\* The detail of a request that was not redirected is that of one exchange: the
\* entry it shows and the body it adds belong together.
DetailUnlessRedirected ==
    shown # None /\ shown.body # None =>
        /\ shown.entry.id = shown.body.id
        /\ shown.entry.hop = shown.body.hop \/ net[shown.entry.id].hop > 1

=============================================================================

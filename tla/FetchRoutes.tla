----------------------------- MODULE FetchRoutes -----------------------------
(***************************************************************************)
(* Interception of requests: routes, headers for an origin and the domain   *)
(* filter, the patterns the browser pauses requests for in each tab, and    *)
(* the background task that decides what becomes of a paused request.       *)
(* URLs and patterns are short sequences of letters; "*" is the star.       *)
(***************************************************************************)
EXTENDS SequencesExt, Naturals, FiniteSets

CONSTANTS
    Tabs, Patterns, Urls,
    Allowed,      \* the URLs of domains the filter allows; None: no filter
    Opaque,       \* the URLs whose scheme is not http or https
    HeaderUrls,   \* the URLs of the origin that navigate --headers is used for
    Types,        \* resource types; "document" is that of a page itself
    None,
    MaxRoutes

VARIABLES
    active,    \* the active tab
    routes,    \* DaemonState.routes
    headers,   \* origin_headers holds the origin
    on,        \* the patterns Fetch is enabled for in the session of each tab
    request,   \* a request: its URL and type, and what became of it
    task       \* the background task: "free", or "busy" writing its answer

vars == <<active, routes, headers, on, request, task>>

Wild == <<"*">>
Does == {"abort", "answer", "nothing"}
Route(p, ts, d, t) == [pattern |-> p, types |-> ts, does |-> d, tab |-> t]
NoRequest == [state |-> "none"]

TypeOK ==
    /\ active \in Tabs
    /\ Len(routes) <= MaxRoutes
    /\ \A i \in DOMAIN routes : routes[i].pattern \in Patterns /\ routes[i].tab \in Tabs \cup {None}
    /\ headers \in BOOLEAN
    /\ on \in [Tabs -> SUBSET (Patterns \cup {Wild})]
    /\ request.state \in {"none", "unseen", "paused", "failed", "answered", "continued",
                          "headers", "blocked", "refused", "left"}
    /\ task \in {"free", "busy"}

\* With a filter the launch enables interception of everything in its tab.
Init ==
    /\ active \in Tabs
    /\ routes = <<>> /\ headers = FALSE
    /\ on = [t \in Tabs |-> IF Allowed # None THEN {Wild} ELSE {}]
    /\ request = NoRequest /\ task = "free"

-----------------------------------------------------------------------------
(* Matching.                                                               *)

Stars(p) == {i \in DOMAIN p : p[i] = "*"}

\* The browser's urlPattern: each star stands for any run of letters.
Glob(p, u) ==
    LET g[i \in 1 .. Len(p) + 1, j \in 1 .. Len(u) + 1] ==
          IF i > Len(p) THEN j > Len(u)
          ELSE IF p[i] = "*" THEN g[i + 1, j] \/ (j <= Len(u) /\ g[i, j + 1])
          ELSE j <= Len(u) /\ u[j] = p[i] /\ g[i + 1, j + 1]
    IN  g[1, 1]

OccursIn(p, u) == \E i \in 0 .. Len(u) - Len(p) : SubSeq(u, i + 1, i + Len(p)) = p

\* resolve_fetch_paused: one star splits the pattern into a beginning and an
\* end; any other pattern is looked for as it stands, stars included.
UrlMatches(p, u) ==
    IF p = Wild THEN TRUE
    ELSE IF Cardinality(Stars(p)) = 1
         THEN LET s == CHOOSE i \in Stars(p) : TRUE
              IN  IsPrefix(SubSeq(p, 1, s - 1), u) /\ IsSuffix(SubSeq(p, s + 1, Len(p)), u)
         ELSE OccursIn(p, u)

RouteMatches(r, req) == UrlMatches(r.pattern, req.url) /\ (r.types = {} \/ req.type \in r.types)

\* The loop over the routes: the first that matches and does something.
Decide(req) ==
    LET hits == {i \in DOMAIN routes : RouteMatches(routes[i], req) /\ routes[i].does # "nothing"}
    IN  IF hits = {} THEN "nothing"
        ELSE routes[CHOOSE i \in hits : \A j \in hits : i <= j].does

\* build_fetch_patterns
FetchPatterns(rs, hs) ==
    {rs[i].pattern : i \in DOMAIN rs} \cup (IF hs \/ Allowed # None THEN {Wild} ELSE {})

-----------------------------------------------------------------------------
(* The handlers.  Each that changes the routes or the headers waits for the *)
(* lock that the background task reads them under until its answer is       *)
(* written.                                                                 *)

\* handle_route: the route is in the list before the browser is told of it in
\* the active tab, which may fail.
AddRoute ==
    /\ Len(routes) < MaxRoutes /\ task = "free"
    /\ \E p \in Patterns, ts \in {{}, Types}, d \in Does, ok \in BOOLEAN :
         /\ routes' = Append(routes, Route(p, ts, d, IF ok THEN active ELSE None))
         /\ on' = IF ok THEN [on EXCEPT ![active] = FetchPatterns(routes', headers)] ELSE on
    /\ UNCHANGED <<active, headers, request, task>>

\* handle_unroute: those with the pattern, or all; the browser is told of the
\* rest in the active tab.
Unroute ==
    /\ routes # <<>> /\ task = "free"
    /\ \E p \in Patterns \cup {None} :
         routes' = SelectSeq(routes, LAMBDA r : p # None /\ r.pattern # p)
    /\ on' = [on EXCEPT ![active] = FetchPatterns(routes', headers)]
    /\ UNCHANGED <<active, headers, request, task>>

\* The mutant asks for the requests of the origin only.
NavigateOriginOnly ==
    /\ task = "free" /\ headers' = TRUE
    /\ on' = [on EXCEPT ![active] = IF headers THEN @ ELSE {}]
    /\ UNCHANGED <<active, routes, request, task>>
\* handle_navigate --headers: the first headers enable interception of
\* everything in the active tab.
Navigate ==
    /\ task = "free" /\ headers' = TRUE
    /\ on' = [on EXCEPT ![active] = IF headers THEN @ ELSE {Wild}]
    /\ UNCHANGED <<active, routes, request, task>>

SwitchTab == active' \in Tabs \ {active} /\ UNCHANGED <<routes, headers, on, request, task>>

-----------------------------------------------------------------------------
(* A page asks for something, and the background task decides.             *)

Ask ==
    /\ request.state # "paused"
    /\ \E t \in Tabs, u \in Urls, ty \in Types \cup {"other"} :
         request' = [url |-> u, type |-> ty,
                     state |-> IF \E p \in on[t] : Glob(p, u) THEN "paused" ELSE "unseen"]
    /\ UNCHANGED <<active, routes, headers, on, task>>

\* No route: the request goes on, with the headers of its origin added.
Continued(req) == IF headers /\ req.url \in HeaderUrls THEN "headers" ELSE "continued"

\* What the filter says of a request, before a route is looked at: nothing of
\* one that is allowed; a document of a domain that is not gets a page that says
\* so; and of another scheme, only a document is stopped.
Filtered(req) ==
    CASE Allowed = None -> "nothing"
      [] Allowed # None /\ req.url \in Opaque ->
           IF req.type = "document" THEN "blocked" ELSE "continued"
      [] Allowed # None /\ req.url \notin Allowed \cup Opaque ->
           IF req.type = "document" THEN "refused" ELSE "blocked"
      [] OTHER -> "nothing"

\* resolve_fetch_paused: the filter, then the routes, then the headers.
Resolved(req) ==
    IF Filtered(req) # "nothing" THEN Filtered(req)
    ELSE CASE Decide(req) = "abort" -> "failed"
           [] Decide(req) = "answer" -> "answered"
           [] OTHER -> Continued(req)

\* The mutant returns when a route matches, whatever it does.
ResolveOrReturn ==
    /\ request.state = "paused" /\ task = "free"
    /\ \A i \in DOMAIN routes : RouteMatches(routes[i], request) => routes[i].does # "nothing"
    /\ \E s \in {Resolved(request), "left"} : request' = [request EXCEPT !.state = s]
    /\ task' = "busy"
    /\ UNCHANGED <<active, routes, headers, on>>
\* The task decides and sends its answer.  It drops the error when the answer is
\* not written or the browser does not take it: the request is left as it is.
Resolve ==
    /\ request.state = "paused" /\ task = "free"
    /\ \E s \in {Resolved(request), "left"} : request' = [request EXCEPT !.state = s]
    /\ task' = "busy"
    /\ UNCHANGED <<active, routes, headers, on>>

\* send_command comes back with an answer or an error, and the task goes on to
\* its next event.  A write that never ends keeps it.
Answered ==
    /\ task = "busy" /\ task' = "free"
    /\ UNCHANGED <<active, routes, headers, on, request>>

Next == AddRoute \/ Unroute \/ Navigate \/ SwitchTab \/ Ask \/ Resolve \/ Answered

\* The background task takes every event it gets, one after the other.
Spec == Init /\ [][Next]_vars /\ WF_vars(Resolve)

-----------------------------------------------------------------------------
(* Properties.                                                             *)

\* What the user asked for: the first route, in the order they were made, whose
\* pattern the URL matches, star by star, and which does something.
Wanted(req) ==
    LET hits == {i \in DOMAIN routes :
                   /\ Glob(routes[i].pattern, req.url)
                   /\ routes[i].types = {} \/ req.type \in routes[i].types
                   /\ routes[i].does # "nothing"}
    IN  IF hits = {} THEN "nothing" ELSE routes[CHOOSE i \in hits : \A j \in hits : i <= j].does

Within(req) == Allowed = None \/ req.url \in Allowed

\* What becomes of a paused request when the browser takes the answer.  Outside
\* the filter no route and no headers have a say: a document never loads, and
\* anything else only with a scheme of its own (data:, blob:).  Within it the
\* routes decide, whichever are added or removed before the background task
\* gets to the request, and headers are only for those no route is about.
\* (For URLs at least as long as the fixed parts of the patterns: a shorter one
\* can match the beginning and the end with the same letters.)
DecidedAsAsked(req, after) ==
    \/ after = "left"
    \/ /\ ~ Within(req) /\ req.type = "document"
       /\ after = IF req.url \in Opaque THEN "blocked" ELSE "refused"
    \/ /\ ~ Within(req) /\ req.type # "document"
       /\ after = IF req.url \in Opaque THEN "continued" ELSE "blocked"
    \/ /\ Within(req)
       /\ (\A i \in DOMAIN routes : Len(req.url) >= Len(routes[i].pattern) - 1) =>
            /\ after = "failed" <=> Wanted(req) = "abort"
            /\ after = "answered" <=> Wanted(req) = "answer"
            /\ after = "headers" <=> Wanted(req) = "nothing" /\ headers /\ req.url \in HeaderUrls
            /\ after \in {"failed", "answered", "headers", "continued"}
ResolvedAsRouted ==
    [][(request.state = "paused" /\ request'.state # "paused")
         => DecidedAsAsked(request, request'.state)]_vars

\* As long as a route exists, the tab it was made in pauses what it is about:
\* neither another route, nor its removal, nor headers for an origin replace
\* the patterns by fewer.
RouteStaysOn ==
    \A i \in DOMAIN routes : routes[i].tab # None =>
        \/ Wild \in on[routes[i].tab]
        \/ routes[i].pattern \in on[routes[i].tab]

\* The task takes up every paused request it hears of, and a route that neither
\* aborts nor answers does not make it return without an answer: unless it never
\* gets over the answer to an earlier one.
EveryPausedIsResolved ==
    []<>(task = "free") => ((request.state = "paused") ~> (request.state # "paused"))

=============================================================================

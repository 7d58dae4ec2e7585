---------------------------- MODULE MCWaitSuite -----------------------------
(***************************************************************************)
(* What waits for somebody else: for an idle network, for a web page, for a*)
(* daemon, for Chrome to start and to end, for answers on the CDP          *)
(* connection and for the decision on a paused request, each with the      *)
(* timeout, the count or the event that ends the wait.  The parts share no *)
(* state; a behaviour is one of one part, chosen at the start, so the      *)
(* states of this specification are those of its parts.                    *)
(***************************************************************************)
EXTENDS NetworkIdle

CONSTANTS
    Nothing,
    Hosts, Names, Private,           \* as WebTools has them
    MaxRedirects, MaxBytes, MaxFetches,
    MaxAttempts, MaxTries, MaxLines  \* as ChromeProcess has them

ASSUME FetchAssumption == MaxRedirects \in Nat /\ MaxBytes \in Nat
ASSUME ChromeAssumption ==
    MaxAttempts \in Nat \ {0} /\ MaxTries \in Nat \ {0} /\ MaxLines \in Nat

VARIABLES
    part,   \* the component this behaviour is of
    v1, v2, v3, v4, v5, v6, v7, v8, v9, v10, v11, v12   \* its variables

Off == "off"   \* of a variable the part has no use for
shared == <<v1, v2, v3, v4, v5, v6, v7, v8, v9, v10, v11, v12>>
all == <<vars, part, shared>>

Web == INSTANCE WebTools WITH
    Hosts <- Hosts, Names <- Names, Private <- Private,
    MaxRedirects <- MaxRedirects, MaxBytes <- MaxBytes, MaxCalls <- MaxFetches,
    pc <- v1, args <- v2, url <- v3, hops <- v4, checked <- v5, asked <- v6,
    bytes <- v7, type <- v8, files <- v9, result <- v10, calls <- v11

Daemon == INSTANCE DaemonLifecycle WITH
    Clients <- {"c1"}, Daemons <- {"d1", "d2"}, None <- Nothing,
    MaxRetries <- 3, MaxPolls <- 1, MaxActive <- 2, MaxFaults <- 1,
    MayReuse <- FALSE, sock <- v1, pid <- v2, ver <- v3, st <- v4,
    version <- v5, term <- v6, client <- v7, reqs <- v8, foreign <- v9,
    faults <- v10, raced <- v11

Embedded == INSTANCE EmbeddedBrowser WITH
    Daemons <- {"d1", "d2", "d3"}, None <- Nothing, Extensions <- TRUE,
    MaxTurns <- 1, Sequential <- FALSE, host <- v1, st <- v2, page <- v3,
    sock <- v4, ext <- v5, thread <- v6, turns <- v7, report <- v8

Chrome == INSTANCE ChromeProcess WITH
    MaxAttempts <- MaxAttempts, MaxTries <- MaxTries,
    MaxLines <- MaxLines, pc <- v1, profile <- v2,
    attempt <- v3, late <- v4, dirs <- v5, spared <- v6, port <- v7,
    main <- v8, helpers <- v9, out <- v10, url <- v11, tries <- v12

Cdp == INSTANCE CdpClient WITH
    Callers <- {"c1", "c2"}, MaxCalls <- 2, MaxDevTools <- 0, None <- Nothing,
    nextId <- v1, pending <- v2, call <- v3, asked <- v4, wire <- v5,
    conn <- v6, reader <- v7, keepalive <- v8, devtools <- v9, room <- v10

Inspect == INSTANCE CdpClient WITH
    Callers <- {"c1"}, MaxCalls <- 2, MaxDevTools <- 2, None <- Nothing,
    nextId <- v1, pending <- v2, call <- v3, asked <- v4, wire <- v5,
    conn <- v6, reader <- v7, keepalive <- v8, devtools <- v9, room <- v10

Paused == INSTANCE FetchRoutes WITH
    Tabs <- {"t1"}, Patterns <- {<<"*">>, <<"a", "*">>},
    Urls <- {<<"b">>, <<"a">>, <<"c">>}, Allowed <- {<<"a">>},
    Opaque <- {<<"c">>}, HeaderUrls <- {<<"a">>}, Types <- {"document"},
    None <- Nothing, MaxRoutes <- 1, active <- v1, routes <- v2,
    headers <- v3, on <- v4, request <- v5, task <- v6

SuiteInit ==
    /\ Init
    /\ \/ /\ part = "idle" /\ v1 = Off /\ v2 = Off /\ v3 = Off /\ v4 = Off
          /\ v5 = Off /\ v6 = Off /\ v7 = Off /\ v8 = Off /\ v9 = Off
          /\ v10 = Off /\ v11 = Off /\ v12 = Off
       \/ part = "web" /\ Web!Init /\ v12 = Off
       \/ part = "daemon" /\ Daemon!Init /\ v12 = Off
       \/ /\ part = "embedded" /\ Embedded!Init /\ v9 = Off /\ v10 = Off
          /\ v11 = Off /\ v12 = Off
       \/ part = "chrome" /\ Chrome!Init
       \/ part = "cdp" /\ Cdp!Init /\ v11 = Off /\ v12 = Off
       \/ /\ part = "inspect" /\ Inspect!Init /\ v11 = Off /\ v12 = Off
       \/ /\ part = "paused" /\ Paused!Init /\ v7 = Off
          /\ v8 = Off /\ v9 = Off /\ v10 = Off /\ v11 = Off /\ v12 = Off

NetworkIdleStep == part = "idle" /\ Next /\ UNCHANGED <<part, shared>>

WebOnly == part = "web" /\ UNCHANGED <<part, vars, v12>>
WebStep == WebOnly /\ Web!Next

DaemonOnly == part = "daemon" /\ UNCHANGED <<part, vars, v12>>
DaemonStep == DaemonOnly /\ Daemon!Next

EmbeddedOnly == part = "embedded" /\ UNCHANGED <<part, vars, v9, v10, v11, v12>>
EmbeddedStep == EmbeddedOnly /\ Embedded!Next

ChromeOnly == part = "chrome" /\ UNCHANGED <<part, vars>>
ChromeStep == ChromeOnly /\ Chrome!Next

CdpOnly == part = "cdp" /\ UNCHANGED <<part, vars, v11, v12>>
CdpStep == CdpOnly /\ Cdp!Next

InspectOnly == part = "inspect" /\ UNCHANGED <<part, vars, v11, v12>>
InspectStep == InspectOnly /\ Inspect!Next

PausedOnly == part = "paused" /\ UNCHANGED <<part, vars, v7, v8, v9, v10, v11, v12>>
PausedStep == PausedOnly /\ Paused!Next

SuiteNext ==
    \/ NetworkIdleStep
    \/ WebStep
    \/ DaemonStep
    \/ EmbeddedStep
    \/ ChromeStep
    \/ CdpStep
    \/ InspectStep
    \/ PausedStep

Fairness ==
    /\ WF_all(part = "idle" /\ Tick /\ UNCHANGED <<part, shared>>)
    /\ WF_all(part = "idle" /\ Silence /\ UNCHANGED <<part, shared>>)
    /\ WF_all(part = "idle" /\ TimesOut /\ UNCHANGED <<part, shared>>)
    /\ WF_all(WebOnly /\ Web!Going)
    /\ WF_all(DaemonOnly /\ Daemon!ClientStep("c1"))
    /\ \A d \in {"d1", "d2"} : WF_all(DaemonOnly /\ Daemon!DaemonStep(d))
    /\ WF_all(EmbeddedOnly /\ Embedded!StartupClose)
    /\ \A t \in {"startup", "preview"} : WF_all(EmbeddedOnly /\ Embedded!ThreadStep(t))
    /\ \A d \in {"d1", "d2", "d3"} :
          WF_all(EmbeddedOnly /\ (Embedded!Boot(d) \/ Embedded!Bind(d) \/ Embedded!Leave(d)))
    /\ WF_all(ChromeOnly /\ Chrome!Launching)
    /\ WF_all(ChromeOnly /\ Chrome!Closing)
    /\ WF_all(ChromeOnly /\ Chrome!Tick)
    /\ \A c \in {"c1", "c2"} : WF_all(CdpOnly /\ Cdp!Going(c))
    /\ WF_all(CdpOnly /\ (Cdp!Read \/ Cdp!Break \/ Cdp!Exit))
    /\ WF_all(InspectOnly /\ Inspect!Going("c1"))
    /\ WF_all(InspectOnly /\ (Inspect!Read \/ Inspect!Break \/ Inspect!Exit))
    /\ WF_all(PausedOnly /\ Paused!Resolve)

SuiteSpec == SuiteInit /\ [][SuiteNext]_all /\ Fairness

-----------------------------------------------------------------------------

\* web_fetch.rs: no host is asked, a redirect's as well, before a check of its own
\* found no private address, and none that is a private address itself; no more is
\* held or saved than the limit, whatever length the server announced.  (A name is
\* looked up again for the request, and that address is checked by nothing.)
FetchIsChecked == part = "web" => Web!TypeOK /\ Web!AskedWasChecked /\ Web!WithinLimit

\* chrome.rs: the endpoint a launch returns is that of the Chrome it started; a
\* failed launch and a dropped process leave no directory but those whose removal
\* failed or was never tried, and nothing of its group running.
ChromeIsOurs ==
    part = "chrome" =>
        /\ Chrome!TypeOK
        /\ Chrome!OwnEndpoint
        /\ Chrome!TempDirsGone
        /\ Chrome!DropKillsTree

\* client.rs: what a caller returns is the answer to that very call, not a late
\* one to an earlier call, nor another caller's, until a DevTools frontend that
\* numbers its requests itself asks something on the same connection.
OwnAnswer ==
    /\ part = "cdp" => Cdp!TypeOK /\ Cdp!OwnAnswer
    /\ part = "inspect" => Inspect!TypeOK /\ Inspect!OwnUnlessInspected

\* Whoever waits for somebody else comes to an end: the wait for an idle network
\* (actions.rs) although the page never stops asking; a fetch (web_fetch.rs)
\* although the server redirects for ever or never stops sending; a client
\* (connection.rs), whatever the daemon does, and a daemon that answered close
\* (daemon.rs); a refresh of the preview (rpc_server.rs), with a report unless the
\* process is gone; closing a Chrome (chrome.rs); send_command (client.rs), with a
\* DevTools frontend on the connection (one caller of two that are alike), once its
\* request is written, whatever becomes of the browser, and before that unless the
\* browser stays there and does not read, for then no write ends; the keepalive task
\* of a connection that is gone; the wait of a paused request (actions.rs) for a
\* decision, whatever its route does not say, unless the background task never gets
\* over the answer to an earlier one.
EveryWaitEnds ==
    /\ (part = "idle" /\ result = "none") ~> (part = "idle" /\ result # "none")
    /\ (part = "web" /\ v1 = "check") ~> (part = "web" /\ v1 = "idle")
    /\ (part = "daemon" /\ v7["c1"].pc = "probe") ~> (part = "daemon" /\ v7["c1"].pc = "done")
    /\ (part = "daemon" /\ v7["c1"].cmd = "close" /\ v7["c1"].res = "ok" /\ v7["c1"].conn # Nothing)
         ~> (part = "daemon" /\ \A d \in {"d1", "d2"} : v7["c1"].conn = d => ~Daemon!Alive(d))
    /\ (part = "embedded" /\ v6["preview"].pc = "ensure")
         ~> (part = "embedded" /\ (v6["preview"].pc = "idle" \/ v1 = "exited"))
    /\ (part = "chrome" /\ v1 = "waiting") ~> (part = "chrome" /\ v1 = "dropped")
    /\ (part \in {"cdp", "inspect"} /\ v3["c1"].st \in Cdp!Written)
         ~> (part \in {"cdp", "inspect"} /\ v3["c1"].st \in Cdp!Back)
    /\ <>[](part \in {"cdp", "inspect"} /\ v10)
         => ((part \in {"cdp", "inspect"} /\ v3["c1"].st = "inserted")
               ~> (part \in {"cdp", "inspect"} /\ v3["c1"].st \in Cdp!Back))
    /\ (part = "cdp" /\ v6 = "dead") ~> (part = "cdp" /\ v8 = "ended")
    /\ []<>(part = "paused" /\ v6 = "free")
         => ((part = "paused" /\ v5.state = "paused") ~> (part = "paused" /\ v5.state # "paused"))

=============================================================================

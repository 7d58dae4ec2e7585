-------------------------- MODULE NetworkIdleProofs --------------------------
(***************************************************************************)
(* Theorems about the parts of MCWaitSuite: poll_network_idle, subscribed  *)
(* before the navigation, for every set of requests and every choice of the*)
(* times; and, below, fetching a page and starting and ending Chrome.      *)
(***************************************************************************)
EXTENDS MCWaitSuite, Sequences, TLAPS

\* A turn of the loop that is given the true set of requests, and a timer that
\* does not start before the last of them ended, keeps what the loop knows.
LEMMA TurnKeepsKnown ==
    ASSUME NEW p, NEW start, TypeOK, TypeOK', Turn(p, start), now' = now,
           p = flight', busy' <= now, start # NoTime => p = {} /\ start >= busy' /\ start <= now
    PROVE  Known'
<1>1. pending' = flight' /\ idle' = start /\ result' = IF Elapsed(start) THEN "ok" ELSE "none"
    BY DEF Turn
<1>2. result' = "ok" => Elapsed(idle)'
    BY <1>1 DEF Elapsed
<1>. QED  BY <1>1, <1>2 DEF Known

\* The invariant is kept by every step.
LEMMA InvStep ==
    ASSUME Inv, [Next]_vars
    PROVE  Inv'
<1>. USE TimesAssumption, NoTimeAssumption
<1>. USE DEF Inv, TypeOK
<1>1. CASE UNCHANGED vars
    BY <1>1 DEF vars, Known, Elapsed
<1>2. ASSUME NEW r \in Requests, RequestStarts(r)
      PROVE  Inv'
    <2>1. TypeOK'
        BY <1>2 DEF RequestStarts, Turn
    <2>2. Turn(pending \cup {r}, NoTime) /\ now' = now /\ pending \cup {r} = flight' /\ busy' <= now
        BY <1>2 DEF RequestStarts, Known
    <2>. QED  BY <2>1, <2>2, TurnKeepsKnown
<1>3. ASSUME NEW r \in Requests, RequestEnds(r)
      PROVE  Inv'
    <2>. DEFINE p == pending \ {r}
                start == IF p = {} THEN now ELSE idle
    <2>1. TypeOK'
        BY <1>3 DEF RequestEnds, Turn
    <2>2. Turn(p, start) /\ now' = now /\ p = flight' /\ busy' = now
        BY <1>3 DEF RequestEnds, Known
    <2>3. pending # {}
        BY <1>3 DEF RequestEnds, Known
    <2>4. start # NoTime => p = {} /\ start >= busy' /\ start <= now
        BY <2>2, <2>3 DEF Known
    <2>. QED  BY <2>1, <2>2, <2>4, TurnKeepsKnown
<1>4. ASSUME Load \/ Other \/ Silence
      PROVE  Inv'
    <2>1. PICK start \in {now, idle} :
            Turn(pending, start) /\ now' = now /\ busy' = busy /\ flight' = flight /\ (start = now => pending = {} \/ idle = now)
        BY <1>4 DEF Load, Other, Silence
    <2>2. TypeOK'
        BY <2>1 DEF Turn
    <2>. QED  BY <2>1, <2>2, TurnKeepsKnown DEF Known
<1>5. CASE Tick
    BY <1>5 DEF Tick, Known, Elapsed
<1>6. CASE TimesOut
    BY <1>6 DEF TimesOut, Known, Elapsed
<1>. QED  BY <1>1, <1>2, <1>3, <1>4, <1>5, <1>6 DEF Next

\* A subscription that begins before the navigation knows every request, and
\* its timer runs only while there is none.
THEOREM LoopKnows ==
    ASSUME ~ Late
    PROVE  Spec => []Inv
<1>1. Init => Inv
    BY NoTimeAssumption DEF Init, Inv, TypeOK, Known, Elapsed
<1>. QED  BY <1>1, InvStep, PTL DEF Spec

\* So poll_network_idle says ok only when no request is in flight and none has
\* been for Quiet, whatever the page does and however the times are chosen.
THEOREM IdleIsIdle ==
    ASSUME ~ Late
    PROVE  Spec => []OkMeansIdle
<1>1. Inv => OkMeansIdle
    BY TimesAssumption, NoTimeAssumption DEF Inv, TypeOK, Known, Elapsed, OkMeansIdle
<1>. QED  BY <1>1, LoopKnows, PTL

(***************************************************************************)
(* WebTools, part "web": for any addresses and any limits.                 *)
(***************************************************************************)

\* The variables of the part, named as the component names them; fetched is its
\* result.

pc == v1
args == v2
url == v3
hops == v4
checked == v5
asked == v6
bytes == v7
type == v8
files == v9
fetched == v10
calls == v11
USE DEF pc, args, url, hops, checked, asked, bytes, type, files,
        fetched, calls

\* Between the check of a host and the end of its response it was let pass in this
\* round; the limits leave room for what is under way.
WebInv ==
    /\ Web!TypeOK /\ Web!AskedWasChecked
    /\ url \in Hosts
    /\ pc = "request" =>
         \E v \in checked : v.round = hops /\ v.host = url /\ v.address \notin Private
                          /\ (url \notin Names => v.address = url)
    /\ pc # "idle" => hops <= MaxRedirects
    /\ bytes \in 0 .. MaxBytes

\* A lookup of a host finds an address; that of an address finds it.
LEMMA WebLooksUp ==
    ASSUME NEW h \in Hosts, NEW a \in Web!Lookup(h)
    PROVE  a \in Web!Addresses /\ (h \notin Names => a = h)
    BY DEF Web!Lookup, Web!Addresses

\* web_fetch.rs: what is asked in this round is the host that was checked in it.
LEMMA WebAsks ==
    ASSUME WebInv, pc = "request", Web!Asks, UNCHANGED checked
    PROVE  asked' \subseteq Web!Visits /\ Web!AskedWasChecked'
<1>1. PICK a \in Web!Lookup(url) : asked' = asked \cup {Web!Visit(hops, url, a)}
    BY DEF Web!Asks
<1>2. a \in Web!Addresses /\ (url \notin Names => a = url)
    BY <1>1, WebLooksUp DEF WebInv
<1>. DEFINE new == Web!Visit(hops, url, a)
<1>3. new.round = hops /\ new.host = url /\ new.address = a
    BY DEF Web!Visit
<1>4. new \in Web!Visits
    BY <1>2, FetchAssumption DEF WebInv, Web!TypeOK, Web!Visits, Web!Visit
<1>5. PICK v \in checked : /\ v.round = hops /\ v.host = url /\ v.address \notin Private
                           /\ (url \notin Names => v.address = url)
    BY DEF WebInv
<1>6. v \in Web!CheckedFor(new) /\ (new.host \notin Names => new.address \notin Private)
    BY <1>2, <1>3, <1>5 DEF Web!CheckedFor
<1>. HIDE DEF new
<1>7. asked' \subseteq Web!Visits
    BY <1>1, <1>4 DEF WebInv, Web!TypeOK, new
<1>8. ASSUME NEW x \in asked'
      PROVE  Web!CheckedFor(x)' # {} /\ (x.host \notin Names => x.address \notin Private)
    <2>1. Web!CheckedFor(x)' = Web!CheckedFor(x)
        BY DEF Web!CheckedFor
    <2>2. x \in asked \/ x = new
        BY <1>1, <1>8 DEF new
    <2>3. x \in asked => Web!CheckedFor(x) # {} /\ (x.host \notin Names => x.address \notin Private)
        BY DEF WebInv, Web!AskedWasChecked
    <2>. QED  BY <1>6, <2>1, <2>2, <2>3
<1>. QED  BY <1>7, <1>8 DEF Web!AskedWasChecked

\* web_fetch.rs: a check that passes leaves its mark for the request.
LEMMA WebChecks ==
    ASSUME WebInv, Web!Check
    PROVE  WebInv'
<1>. USE DEF WebInv, Web!TypeOK, Web!Results, Web!End
<1>1. PICK a \in Web!Lookup(url) :
         IF a \in Private THEN Web!End("request_failed") /\ UNCHANGED checked
         ELSE /\ pc' = "request" /\ UNCHANGED fetched
              /\ checked' = checked \cup {Web!Visit(hops, url, a)}
    BY DEF Web!Check
<1>2. a \in Web!Addresses /\ (url \notin Names => a = url)
    BY <1>1, WebLooksUp
<1>3. UNCHANGED <<url, hops, asked, bytes>> /\ pc = "check"
    BY DEF Web!Check
<1>4. CASE a \in Private
    BY <1>1, <1>3, <1>4 DEF Web!AskedWasChecked, Web!CheckedFor
<1>5. CASE a \notin Private
    <2>. DEFINE new == Web!Visit(hops, url, a)
    <2>1. /\ new.round = hops /\ new.host = url /\ new.address = a
          /\ checked' = checked \cup {new} /\ pc' = "request" /\ UNCHANGED fetched
        BY <1>1, <1>5 DEF Web!Visit
    <2>2. new \in Web!Visits
        BY <1>2, <1>3, FetchAssumption DEF Web!Visits, Web!Visit
    <2>. HIDE DEF new
    <2>3. \A x \in asked : Web!CheckedFor(x) \subseteq Web!CheckedFor(x)'
        BY <2>1 DEF Web!CheckedFor
    <2>4. Web!AskedWasChecked'
        BY <1>3, <2>3 DEF Web!AskedWasChecked
    <2>. QED  BY <1>2, <1>3, <1>5, <2>1, <2>2, <2>4
<1>. QED  BY <1>4, <1>5

\* web_fetch.rs: each step, redirects and late answers included, keeps it.
LEMMA WebKeeps ==
    ASSUME WebInv, [Web!Next]_(Web!vars)
    PROVE  WebInv'
<1>. USE FetchAssumption DEF WebInv, Web!TypeOK, Web!Results, Web!End
<1>1. CASE UNCHANGED Web!vars
    BY <1>1 DEF Web!vars, Web!AskedWasChecked, Web!CheckedFor
<1>2. CASE Web!Fetch
    BY <1>2 DEF Web!Fetch, Web!AskedWasChecked
<1>3. CASE Web!Check
    BY <1>3, WebChecks
<1>4. CASE Web!RequestFails
    <2>1. asked' \subseteq Web!Visits /\ Web!AskedWasChecked'
        BY <1>4, WebAsks DEF Web!RequestFails
    <2>. QED  BY <1>4, <2>1 DEF Web!RequestFails
<1>5. CASE Web!Redirect
    <2>1. asked' \subseteq Web!Visits /\ Web!AskedWasChecked'
        BY <1>5, WebAsks DEF Web!Redirect
    <2>. QED  BY <1>5, <2>1 DEF Web!Redirect
<1>6. CASE Web!Headers
    <2>1. asked' \subseteq Web!Visits /\ Web!AskedWasChecked'
        BY <1>6, WebAsks DEF Web!Headers
    <2>. QED  BY <1>6, <2>1 DEF Web!Headers
<1>7. CASE Web!Chunk
    BY <1>7 DEF Web!Chunk, Web!AskedWasChecked, Web!CheckedFor
<1>8. CASE Web!Validate
    BY <1>8 DEF Web!Validate, Web!AskedWasChecked, Web!CheckedFor
<1>9. CASE Web!Save
    BY <1>9 DEF Web!Save, Web!AskedWasChecked, Web!CheckedFor
<1>10. CASE Web!Search
    BY <1>10 DEF Web!Search, Web!AskedWasChecked, Web!CheckedFor
<1>11. CASE Web!LookupFails \/ Web!BodyFails
    BY <1>11 DEF Web!LookupFails, Web!BodyFails, Web!AskedWasChecked, Web!CheckedFor
<1>. QED  BY <1>1, <1>2, <1>3, <1>4, <1>5, <1>6, <1>7, <1>8, <1>9, <1>10, <1>11 DEF Web!Next

\* web_fetch.rs: before the first call nothing has been asked for.
LEMMA WebStart == Web!Init => WebInv
    BY FetchAssumption DEF Web!Init, WebInv, Web!TypeOK, Web!AskedWasChecked, Web!Results

(***************************************************************************)
(* ChromeProcess, part "chrome": for any number of attempts, removals and  *)
(* lines.                                                                  *)
(***************************************************************************)

\* The variables of the part, named as the component names them; endpoint is its url.

profile == v2
attempt == v3
late == v4
dirs == v5
spared == v6
port == v7
main == v8
helpers == v9
out == v10
endpoint == v11
tries == v12
USE DEF profile, attempt, late, dirs, spared, port, main, helpers,
        out, endpoint, tries

ChrTypes ==
    /\ Chrome!TypeOK
    /\ out \in [Chrome!Attempts -> Seq({"url", "text"})]
    /\ pc \notin {"idle", "failed"} => attempt \in Chrome!Attempts
    /\ pc = "idle" => attempt = 0
    /\ pc # "dropped" => tries < MaxTries

\* Only the Chrome of this attempt may run, and only once it was spawned, so
\* that nobody else writes the port file; after a kill its group is going.
ChrOwn ==
    /\ \A a \in Chrome!Attempts : main[a] = "alive" =>
          a = attempt /\ pc \in {"port", "stderr", "up", "waiting", "drop"}
    /\ pc = "port" => port[Chrome!UserDataDir(attempt)] \in {0, attempt}
    /\ endpoint # 0 => pc \in {"up", "waiting", "drop", "remove", "dropped"} /\ endpoint = attempt
    /\ pc \in {"remove", "dropped"} => main[attempt] = "reaped" /\ helpers[attempt] # "alive"

\* The directories that are there and were not given up are those of the
\* attempt under way; later attempts have none yet.
ChrDirs ==
    /\ pc = "idle" => dirs = {}
    /\ profile # "name" => Chrome!Copy \notin dirs
    /\ pc \in {"build", "fail"} => dirs \subseteq spared \cup {Chrome!Copy}
    /\ pc \in {"spawn", "port", "stderr", "up", "waiting", "drop", "remove"} =>
          dirs \subseteq spared \cup {Chrome!UserDataDir(attempt)} /\ Chrome!UserDataDir(attempt) \notin spared
    /\ pc \in {"failed", "dropped"} => dirs \subseteq spared
    /\ pc \in {"build", "fail"} => Chrome!Copy \notin spared
    /\ \A a \in Chrome!Attempts : a > attempt \/ (a = attempt /\ pc = "build") => Chrome!Temp(a) \notin dirs

ChrInv == ChrTypes /\ ChrOwn /\ ChrDirs

\* The directories have different names.
LEMMA ChrNames ==
    /\ Chrome!Copy # Chrome!User
    /\ \A a : Chrome!Temp(a) # Chrome!Copy /\ Chrome!Temp(a) # Chrome!User
    /\ \A a, b : Chrome!Temp(a) = Chrome!Temp(b) => a = b
    BY DEF Chrome!Copy, Chrome!User, Chrome!Temp

\* Every attempt has a directory, its own, the copy or that of the user.
LEMMA ChrPlaces ==
    ASSUME NEW a \in Chrome!Attempts, profile \in {"none", "path", "name"}
    PROVE  Chrome!UserDataDir(a) \in Chrome!Dirs /\ Chrome!Temp(a) \in Chrome!Dirs \ {Chrome!User}
           /\ Chrome!Copy \in Chrome!Dirs \ {Chrome!User}
    BY ChrNames DEF Chrome!UserDataDir, Chrome!Dirs

\* chrome.rs: every step of a launch, a close and of Chrome itself keeps the counts
\* within their bounds and the directories known.
LEMMA ChrTypesStep ==
    ASSUME ChrTypes, ChrDirs, [Chrome!Next]_(Chrome!vars)
    PROVE  ChrTypes'
<1>. USE ChrPlaces, ChromeAssumption DEF ChrTypes, Chrome!TypeOK, Chrome!Attempts, Chrome!Stale
<1>0. /\ Chrome!Copy \in Chrome!Dirs \ {Chrome!User}
      /\ \A a \in Chrome!Attempts : Chrome!UserDataDir(a) \in Chrome!Dirs
    BY ChrNames, ChrPlaces DEF Chrome!Dirs
<1>1. CASE UNCHANGED Chrome!vars
    BY <1>1 DEF Chrome!vars, Chrome!chrome
<1>2. CASE Chrome!Launching
    <2>. USE DEF Chrome!chrome
    <2>1. CASE Chrome!LaunchChrome
        <3>1. dirs = {} /\ spared = {} /\ dirs' \subseteq Chrome!Dirs \ {Chrome!User}
            BY <1>0, <2>1 DEF Chrome!LaunchChrome, ChrDirs
        <3>. QED  BY <2>1, <3>1 DEF Chrome!LaunchChrome
    <2>2. CASE Chrome!LaunchRefused
        BY <2>2 DEF Chrome!LaunchRefused
    <2>3. CASE Chrome!BuildArgs
        BY <2>3 DEF Chrome!BuildArgs
    <2>4. CASE Chrome!BuildArgsFails
        BY <2>4 DEF Chrome!BuildArgsFails
    <2>5. CASE Chrome!Spawn
        <3>1. port' \in [Chrome!Dirs -> 0..Chrome!Stale]
            BY <1>0, <2>5 DEF Chrome!Spawn
        <3>2. main' \in [Chrome!Attempts -> {"none", "alive", "dead", "reaped"}]
            BY <2>5 DEF Chrome!Spawn
        <3>. QED  BY <2>5, <3>1, <3>2 DEF Chrome!Spawn
    <2>6. CASE Chrome!SpawnFails
        BY <2>6 DEF Chrome!SpawnFails, Chrome!Remove
    <2>7. CASE Chrome!PortFound
        BY <2>7 DEF Chrome!PortFound
    <2>8. CASE Chrome!PortExited
        BY <2>8 DEF Chrome!PortExited
    <2>9. CASE Chrome!PortTimesOut
        BY <2>9 DEF Chrome!PortTimesOut
    <2>10. CASE Chrome!StderrUrl
        BY <2>10 DEF Chrome!StderrUrl
    <2>11. CASE Chrome!StderrText
        <3>1. /\ attempt \in Chrome!Attempts /\ out[attempt] # <<>>
              /\ out' = [out EXCEPT ![attempt] = Tail(@)]
              /\ UNCHANGED <<pc, profile, attempt, late, dirs, spared, port, main, helpers, endpoint, tries>>
            BY <2>11 DEF Chrome!StderrText
        <3>2. /\ out[attempt] \in Seq({"url", "text"}) /\ Len(out[attempt]) <= MaxLines
              /\ Tail(out[attempt]) \in Seq({"url", "text"})
              /\ Len(Tail(out[attempt])) <= MaxLines
            BY <3>1
        <3>3. /\ out' \in [Chrome!Attempts -> Seq({"url", "text"})]
              /\ \A a \in Chrome!Attempts : Len(out'[a]) <= MaxLines
            BY <3>1, <3>2
        <3>. QED  BY <3>1, <3>3
    <2>12. CASE Chrome!StderrFails
        BY <2>12 DEF Chrome!StderrFails, Chrome!Remove
    <2>13. CASE Chrome!Retry
        BY <2>13 DEF Chrome!Retry
    <2>14. CASE Chrome!GiveUp
        BY <2>14 DEF Chrome!GiveUp, Chrome!Remove
    <2>. QED  BY <1>2, <2>1, <2>2, <2>3, <2>4, <2>5, <2>6, <2>7, <2>8, <2>9, <2>10, <2>11, <2>12, <2>13, <2>14
              DEF Chrome!Launching
<1>3. CASE Chrome!Closing
    <2>. USE DEF Chrome!chrome, Chrome!Kill
    <2>1. CASE Chrome!WaitSeesExit
        BY <2>1 DEF Chrome!WaitSeesExit
    <2>2. CASE Chrome!WaitKills
        BY <2>2 DEF Chrome!WaitKills
    <2>3. CASE Chrome!DropKills
        BY <2>3 DEF Chrome!DropKills
    <2>4. CASE Chrome!DropRemoves
        BY <2>4 DEF Chrome!DropRemoves, ChrDirs
    <2>5. CASE Chrome!DropFailsToRemove
        BY <2>5 DEF Chrome!DropFailsToRemove
    <2>. QED  BY <1>3, <2>1, <2>2, <2>3, <2>4, <2>5 DEF Chrome!Closing
<1>4. CASE Chrome!Tick \/ Chrome!HasExited \/ Chrome!Close \/ Chrome!DropUnclosed
    BY <1>4 DEF Chrome!Tick, Chrome!HasExited, Chrome!Close, Chrome!DropUnclosed, Chrome!chrome
<1>5. ASSUME NEW a \in Chrome!Attempts,
             Chrome!ChromeStartsHelpers(a) \/ Chrome!ChromeWritesPort(a) \/ Chrome!ChromeExits(a) \/ Chrome!HelpersGo(a)
      PROVE  ChrTypes'
    <2>. USE DEF Chrome!chrome
    <2>1. CASE Chrome!ChromeStartsHelpers(a)
        BY <2>1 DEF Chrome!ChromeStartsHelpers
    <2>2. CASE Chrome!ChromeWritesPort(a)
        <3>1. port' \in [Chrome!Dirs -> 0..Chrome!Stale]
            BY <1>0, <2>2 DEF Chrome!ChromeWritesPort
        <3>. QED  BY <2>2, <3>1 DEF Chrome!ChromeWritesPort
    <2>3. CASE Chrome!ChromeExits(a)
        BY <2>3 DEF Chrome!ChromeExits
    <2>4. CASE Chrome!HelpersGo(a)
        BY <2>4 DEF Chrome!HelpersGo
    <2>. QED  BY <1>5, <2>1, <2>2, <2>3, <2>4
<1>6. ASSUME NEW a \in Chrome!Attempts, NEW line \in {"url", "text"}, Chrome!ChromePrints(a, line)
      PROVE  ChrTypes'
    BY <1>6 DEF Chrome!ChromePrints
<1>. QED  BY <1>1, <1>2, <1>3, <1>4, <1>5, <1>6 DEF Chrome!Next

\* chrome.rs: no Chrome but that of this attempt runs while it waits for an
\* endpoint, so that a port it reads, or a line, comes from that one.
LEMMA ChrOwnStep ==
    ASSUME ChrTypes, ChrTypes', ChrOwn, [Chrome!Next]_(Chrome!vars)
    PROVE  ChrOwn'
<1>. USE ChrPlaces, ChromeAssumption DEF ChrTypes, Chrome!TypeOK, Chrome!Attempts, Chrome!UserDataDir, ChrOwn
<1>1. CASE UNCHANGED Chrome!vars
    BY <1>1 DEF Chrome!vars, Chrome!chrome
<1>2. CASE Chrome!Launching
    <2>. USE DEF Chrome!chrome
    <2>1. CASE Chrome!LaunchChrome
        BY <2>1 DEF Chrome!LaunchChrome
    <2>2. CASE Chrome!LaunchRefused
        BY <2>2 DEF Chrome!LaunchRefused
    <2>3. CASE Chrome!BuildArgs
        BY <2>3 DEF Chrome!BuildArgs
    <2>4. CASE Chrome!BuildArgsFails
        BY <2>4 DEF Chrome!BuildArgsFails
    <2>5. CASE Chrome!Spawn
        BY <2>5 DEF Chrome!Spawn
    <2>6. CASE Chrome!SpawnFails
        BY <2>6 DEF Chrome!SpawnFails
    <2>7. CASE Chrome!PortFound
        BY <2>7 DEF Chrome!PortFound
    <2>8. CASE Chrome!PortExited
        BY <2>8 DEF Chrome!PortExited
    <2>9. CASE Chrome!PortTimesOut
        BY <2>9 DEF Chrome!PortTimesOut
    <2>10. CASE Chrome!StderrUrl
        BY <2>10 DEF Chrome!StderrUrl
    <2>11. CASE Chrome!StderrText
        BY <2>11 DEF Chrome!StderrText
    <2>12. CASE Chrome!StderrFails
        BY <2>12 DEF Chrome!StderrFails
    <2>13. CASE Chrome!Retry
        BY <2>13 DEF Chrome!Retry
    <2>14. CASE Chrome!GiveUp
        BY <2>14 DEF Chrome!GiveUp
    <2>. QED  BY <1>2, <2>1, <2>2, <2>3, <2>4, <2>5, <2>6, <2>7, <2>8, <2>9, <2>10, <2>11, <2>12, <2>13, <2>14
              DEF Chrome!Launching
<1>3. CASE Chrome!Closing
    <2>. USE DEF Chrome!chrome, Chrome!Kill
    <2>1. CASE Chrome!WaitSeesExit
        BY <2>1 DEF Chrome!WaitSeesExit
    <2>2. CASE Chrome!WaitKills
        BY <2>2 DEF Chrome!WaitKills
    <2>3. CASE Chrome!DropKills
        BY <2>3 DEF Chrome!DropKills
    <2>4. CASE Chrome!DropRemoves
        BY <2>4 DEF Chrome!DropRemoves
    <2>5. CASE Chrome!DropFailsToRemove
        BY <2>5 DEF Chrome!DropFailsToRemove
    <2>. QED  BY <1>3, <2>1, <2>2, <2>3, <2>4, <2>5 DEF Chrome!Closing
<1>4. CASE Chrome!Tick \/ Chrome!HasExited \/ Chrome!Close \/ Chrome!DropUnclosed
    BY <1>4 DEF Chrome!Tick, Chrome!HasExited, Chrome!Close, Chrome!DropUnclosed, Chrome!chrome
<1>5. ASSUME NEW a \in Chrome!Attempts,
             Chrome!ChromeStartsHelpers(a) \/ Chrome!ChromeWritesPort(a) \/ Chrome!ChromeExits(a) \/ Chrome!HelpersGo(a)
      PROVE  ChrOwn'
    BY <1>5 DEF Chrome!ChromeStartsHelpers, Chrome!ChromeWritesPort, Chrome!ChromeExits, Chrome!HelpersGo, Chrome!chrome
<1>6. ASSUME NEW a \in Chrome!Attempts, NEW line \in {"url", "text"}, Chrome!ChromePrints(a, line)
      PROVE  ChrOwn'
    BY <1>6 DEF Chrome!ChromePrints
<1>. QED  BY <1>1, <1>2, <1>3, <1>4, <1>5, <1>6 DEF Chrome!Next

\* chrome.rs: an attempt that fails removes its directory before the next makes
\* one, or gives it up; and Drop does so with the last.
LEMMA ChrDirsStep ==
    ASSUME ChrTypes, ChrTypes', ChrDirs, [Chrome!Next]_(Chrome!vars)
    PROVE  ChrDirs'
<1>. USE ChromeAssumption DEF ChrTypes, Chrome!TypeOK, Chrome!Attempts, Chrome!UserDataDir, ChrDirs
<1>0. Chrome!Copy # Chrome!User /\ Chrome!User \notin dirs /\ Chrome!User \notin spared
    BY ChrNames
<1>1. CASE UNCHANGED Chrome!vars
    BY <1>1 DEF Chrome!vars, Chrome!chrome
<1>2. CASE Chrome!Launching
    <2>. USE ChrNames, <1>0 DEF Chrome!chrome, Chrome!Remove
    <2>1. CASE Chrome!LaunchChrome
        BY <2>1 DEF Chrome!LaunchChrome
    <2>2. CASE Chrome!LaunchRefused
        BY <2>2 DEF Chrome!LaunchRefused
    <2>3. CASE Chrome!BuildArgs
        BY <2>3 DEF Chrome!BuildArgs
    <2>4. CASE Chrome!BuildArgsFails
        BY <2>4 DEF Chrome!BuildArgsFails
    <2>5. CASE Chrome!Spawn
        BY <2>5 DEF Chrome!Spawn
    <2>6. CASE Chrome!SpawnFails
        BY <2>6 DEF Chrome!SpawnFails
    <2>7. CASE Chrome!PortFound
        BY <2>7 DEF Chrome!PortFound
    <2>8. CASE Chrome!PortExited
        BY <2>8 DEF Chrome!PortExited
    <2>9. CASE Chrome!PortTimesOut
        BY <2>9 DEF Chrome!PortTimesOut
    <2>10. CASE Chrome!StderrUrl
        BY <2>10 DEF Chrome!StderrUrl
    <2>11. CASE Chrome!StderrText
        BY <2>11 DEF Chrome!StderrText
    <2>12. CASE Chrome!StderrFails
        BY <2>12 DEF Chrome!StderrFails
    <2>13. CASE Chrome!Retry
        BY <2>13 DEF Chrome!Retry
    <2>14. CASE Chrome!GiveUp
        BY <2>14 DEF Chrome!GiveUp
    <2>. QED  BY <1>2, <2>1, <2>2, <2>3, <2>4, <2>5, <2>6, <2>7, <2>8, <2>9, <2>10, <2>11, <2>12, <2>13, <2>14
              DEF Chrome!Launching
<1>3. CASE Chrome!Closing
    <2>. USE <1>0, ChrNames DEF Chrome!chrome, Chrome!Kill
    <2>1. CASE Chrome!WaitSeesExit
        BY <2>1 DEF Chrome!WaitSeesExit
    <2>2. CASE Chrome!WaitKills
        BY <2>2 DEF Chrome!WaitKills
    <2>3. CASE Chrome!DropKills
        BY <2>3 DEF Chrome!DropKills
    <2>4. CASE Chrome!DropRemoves
        BY <2>4 DEF Chrome!DropRemoves
    <2>5. CASE Chrome!DropFailsToRemove
        BY <2>5 DEF Chrome!DropFailsToRemove
    <2>. QED  BY <1>3, <2>1, <2>2, <2>3, <2>4, <2>5 DEF Chrome!Closing
<1>4. CASE Chrome!Tick \/ Chrome!HasExited \/ Chrome!Close \/ Chrome!DropUnclosed
    BY <1>4 DEF Chrome!Tick, Chrome!HasExited, Chrome!Close, Chrome!DropUnclosed, Chrome!chrome
<1>5. ASSUME NEW a \in Chrome!Attempts,
             Chrome!ChromeStartsHelpers(a) \/ Chrome!ChromeWritesPort(a) \/ Chrome!ChromeExits(a) \/ Chrome!HelpersGo(a)
      PROVE  ChrDirs'
    BY <1>5 DEF Chrome!ChromeStartsHelpers, Chrome!ChromeWritesPort, Chrome!ChromeExits, Chrome!HelpersGo, Chrome!chrome
<1>6. ASSUME NEW a \in Chrome!Attempts, NEW line \in {"url", "text"}, Chrome!ChromePrints(a, line)
      PROVE  ChrDirs'
    BY <1>6 DEF Chrome!ChromePrints
<1>. QED  BY <1>1, <1>2, <1>3, <1>4, <1>5, <1>6 DEF Chrome!Next

\* chrome.rs: before a launch nothing runs and no directory is there.
LEMMA ChrStart == Chrome!Init => ChrInv
<1>. SUFFICES ASSUME Chrome!Init  PROVE ChrInv
    OBVIOUS
<1>. USE ChromeAssumption DEF Chrome!Init, Chrome!Attempts, Chrome!Stale
<1>1. port \in [Chrome!Dirs -> 0..Chrome!Stale]
    OBVIOUS
<1>2. out \in [Chrome!Attempts -> Seq({"url", "text"})] /\ \A a \in Chrome!Attempts : Len(out[a]) <= MaxLines
    OBVIOUS
<1>3. main \in [Chrome!Attempts -> {"none", "alive", "dead", "reaped"}]
      /\ helpers \in [Chrome!Attempts -> {"none", "alive", "dying", "gone"}]
    OBVIOUS
<1>4. attempt \in 0..MaxAttempts /\ endpoint \in 0..Chrome!Stale /\ tries \in 0..MaxTries /\ tries < MaxTries
    OBVIOUS
<1>5. ChrTypes
    BY ONLY <1>1, <1>2, <1>3, <1>4, Chrome!Init DEF Chrome!Init, ChrTypes, Chrome!TypeOK
<1>6. ChrOwn
    BY DEF ChrOwn
<1>7. ChrDirs
    BY ChrNames DEF ChrDirs
<1>. QED  BY <1>5, <1>6, <1>7 DEF ChrInv

\* The invariant is kept by every step.
LEMMA ChrStep == ChrInv /\ [Chrome!Next]_(Chrome!vars) => ChrInv'
    BY ChrTypesStep, ChrOwnStep, ChrDirsStep DEF ChrInv

\* chrome.rs: the endpoint is that of the Chrome that was started, and what a failed
\* launch or a dropped process leaves behind is what could not be removed.
LEMMA ChrPromise ==
    ChrInv => Chrome!TypeOK /\ Chrome!OwnEndpoint /\ Chrome!TempDirsGone /\ Chrome!DropKillsTree
    BY DEF ChrInv, ChrTypes, ChrOwn, ChrDirs, Chrome!OwnEndpoint, Chrome!TempDirsGone, Chrome!DropKillsTree

(***************************************************************************)
(* CdpClient, parts "cdp" and "inspect": what CdpClientProofs shows of every*)
(* client holds of these two.                                              *)
(***************************************************************************)

Client == INSTANCE CdpClientProofs WITH
    Callers <- {"c1", "c2"}, MaxCalls <- 2, MaxDevTools <- 0, None <- Nothing,
    nextId <- v1, pending <- v2, call <- v3, asked <- v4, wire <- v5,
    conn <- v6, reader <- v7, keepalive <- v8, devtools <- v9, room <- v10

Inspected == INSTANCE CdpClientProofs WITH
    Callers <- {"c1"}, MaxCalls <- 2, MaxDevTools <- 2, None <- Nothing,
    nextId <- v1, pending <- v2, call <- v3, asked <- v4, wire <- v5,
    conn <- v6, reader <- v7, keepalive <- v8, devtools <- v9, room <- v10

\* client.rs: the steps of the part are those of the client proved about.
LEMMA CdpIsClient ==
    /\ Cdp!Init => Client!Init
    /\ Cdp!Next => Client!Next
    /\ UNCHANGED Cdp!vars => UNCHANGED Client!vars
    /\ Client!TypeOK => Cdp!TypeOK
    /\ Client!OwnUnlessInspected => Cdp!OwnUnlessInspected
<1>1. Cdp!Init => Client!Init
    BY DEF Cdp!Init, Client!Init, Cdp!Idle, Client!Idle
<1>2. Cdp!Next => Client!Next
    BY DEF Cdp!Next, Client!Next, Cdp!Caller, Client!Caller, Cdp!TakeId, Client!TakeId,
        Cdp!Write, Client!Write, Cdp!Return, Client!Return, Cdp!Expire, Client!Expire,
        Cdp!Forget, Client!Forget, Cdp!Answer, Client!Answer, Cdp!Die, Client!Die, Cdp!Fill, Client!Fill, Cdp!Drain, Client!Drain,
        Cdp!Read, Client!Read, Cdp!Break, Client!Break, Cdp!Exit, Client!Exit, Cdp!Ping,
        Client!Ping, Cdp!Attach, Client!Attach, Cdp!FrontendAsks, Client!FrontendAsks,
        Cdp!Detach, Client!Detach, Cdp!Idle, Client!Idle, Cdp!Message, Client!Message,
        Cdp!Without, Client!Without, Cdp!AttachId, Client!AttachId
<1>3. UNCHANGED Cdp!vars => UNCHANGED Client!vars
    BY DEF Cdp!vars, Client!vars
<1>4. Client!TypeOK => Cdp!TypeOK
    BY DEF Cdp!TypeOK, Client!TypeOK
<1>5. Client!OwnUnlessInspected => Cdp!OwnUnlessInspected
    BY DEF Cdp!OwnUnlessInspected, Client!OwnUnlessInspected, Cdp!OwnAnswer,
        Client!OwnAnswer, Cdp!Message, Client!Message
<1>. QED  BY <1>1, <1>2, <1>3, <1>4, <1>5

\* client.rs: the steps of the part are those of the client proved about.
LEMMA InspectIsClient ==
    /\ Inspect!Init => Inspected!Init
    /\ Inspect!Next => Inspected!Next
    /\ UNCHANGED Inspect!vars => UNCHANGED Inspected!vars
    /\ Inspected!TypeOK => Inspect!TypeOK
    /\ Inspected!OwnUnlessInspected => Inspect!OwnUnlessInspected
<1>1. Inspect!Init => Inspected!Init
    BY DEF Inspect!Init, Inspected!Init, Inspect!Idle, Inspected!Idle
<1>2. Inspect!Next => Inspected!Next
    BY DEF Inspect!Next, Inspected!Next, Inspect!Caller, Inspected!Caller,
        Inspect!TakeId, Inspected!TakeId, Inspect!Write, Inspected!Write,
        Inspect!Return, Inspected!Return, Inspect!Expire, Inspected!Expire,
        Inspect!Forget, Inspected!Forget, Inspect!Answer, Inspected!Answer, Inspect!Die,
        Inspected!Die, Inspect!Fill, Inspected!Fill, Inspect!Drain, Inspected!Drain, Inspect!Read, Inspected!Read, Inspect!Break, Inspected!Break,
        Inspect!Exit, Inspected!Exit, Inspect!Ping, Inspected!Ping, Inspect!Attach,
        Inspected!Attach, Inspect!FrontendAsks, Inspected!FrontendAsks, Inspect!Detach,
        Inspected!Detach, Inspect!Idle, Inspected!Idle, Inspect!Message,
        Inspected!Message, Inspect!Without, Inspected!Without, Inspect!AttachId,
        Inspected!AttachId
<1>3. UNCHANGED Inspect!vars => UNCHANGED Inspected!vars
    BY DEF Inspect!vars, Inspected!vars
<1>4. Inspected!TypeOK => Inspect!TypeOK
    BY DEF Inspect!TypeOK, Inspected!TypeOK
<1>5. Inspected!OwnUnlessInspected => Inspect!OwnUnlessInspected
    BY DEF Inspect!OwnUnlessInspected, Inspected!OwnUnlessInspected, Inspect!OwnAnswer,
        Inspected!OwnAnswer, Inspect!Message, Inspected!Message
<1>. QED  BY <1>1, <1>2, <1>3, <1>4, <1>5

(***************************************************************************)
(* The parts together.                                                     *)
(***************************************************************************)

\* A behaviour is of one part, and its steps are those of that part's component.
LEMMA SuiteParts ==
    ASSUME [SuiteNext]_all
    PROVE  /\ part' = part
           /\ part = "web" => [Web!Next]_(Web!vars)
           /\ part = "chrome" => [Chrome!Next]_(Chrome!vars)
           /\ part = "cdp" => [Cdp!Next]_(Cdp!vars)
           /\ part = "inspect" => [Inspect!Next]_(Inspect!vars)
<1>1. CASE UNCHANGED all
    BY <1>1 DEF all, shared, Web!vars, Chrome!vars, Chrome!chrome, Cdp!vars, Inspect!vars
<1>2. CASE SuiteNext
    BY <1>2 DEF SuiteNext, NetworkIdleStep, WebStep, WebOnly, DaemonStep, DaemonOnly,
        EmbeddedStep, EmbeddedOnly, ChromeStep, ChromeOnly, CdpStep, CdpOnly,
        InspectStep, InspectOnly, PausedStep, PausedOnly
<1>. QED  BY <1>1, <1>2

\* web_fetch.rs: for any hosts, names, addresses and limits, and however often a
\* name changes its address: no host is asked, a redirect's as well, before a check
\* of its own in that round found no private address, no private address that a URL
\* gives is asked, and no more is held or saved than the limit.
THEOREM OnlyCheckedIsAsked == SuiteSpec => []FetchIsChecked
<1>. DEFINE I == part = "web" => WebInv
<1>1. SuiteInit => I
    BY WebStart DEF SuiteInit
<1>2. I /\ [SuiteNext]_all => I'
    BY SuiteParts, WebKeeps
<1>3. I => FetchIsChecked
    BY DEF FetchIsChecked, WebInv, Web!WithinLimit
<1>. QED  BY <1>1, <1>2, <1>3, PTL DEF SuiteSpec

\* chrome.rs: for any number of attempts, removals and lines of stderr, the endpoint
\* is that of the Chrome that was started, no directory stays behind whose removal
\* did not fail, and nothing of its group runs once it is dropped.
THEOREM OwnChromeOnly == SuiteSpec => []ChromeIsOurs
<1>. DEFINE I == part = "chrome" => ChrInv
<1>1. SuiteInit => I
    BY ChrStart DEF SuiteInit
<1>2. I /\ [SuiteNext]_all => I'
    BY SuiteParts, ChrStep
<1>3. I => ChromeIsOurs
    BY ChrPromise DEF ChromeIsOurs
<1>. QED  BY <1>1, <1>2, <1>3, PTL DEF SuiteSpec

\* client.rs: what a caller of either part returns is the answer to that very call,
\* until a DevTools frontend that numbers its requests itself asks something.
THEOREM CallersOfThePart == SuiteSpec => []OwnAnswer
<1>. DEFINE I == /\ part = "cdp" => Client!ConnectionInv
                 /\ part = "inspect" => Inspected!ConnectionInv
<1>1. SuiteInit => I
    BY CdpIsClient, InspectIsClient, Client!ConnectionKeeps, Inspected!ConnectionKeeps DEF SuiteInit
<1>2. I /\ [SuiteNext]_all => I'
    BY SuiteParts, CdpIsClient, InspectIsClient, Client!ConnectionKeeps, Inspected!ConnectionKeeps
<1>3. Client!ConnectionInv => Cdp!TypeOK /\ Cdp!OwnAnswer
    <2>1. Client!ConnectionInv => Client!TypeOK /\ Client!OwnUnlessInspected /\ v9.id = 0
        BY DEF Client!ConnectionInv, Client!ClientInv, Client!Uninspected
    <2>. QED  BY <2>1, CdpIsClient DEF Cdp!OwnUnlessInspected
<1>4. Inspected!ConnectionInv => Inspect!TypeOK /\ Inspect!OwnUnlessInspected
    BY InspectIsClient DEF Inspected!ConnectionInv, Inspected!ClientInv
<1>5. I => OwnAnswer
    BY <1>3, <1>4 DEF OwnAnswer
<1>. QED  BY <1>1, <1>2, <1>5, PTL DEF SuiteSpec

=============================================================================

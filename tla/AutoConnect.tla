----------------------------- MODULE AutoConnect -----------------------------
(***************************************************************************)
(* auto_connect_cdp: look for a running Chrome through the port files of   *)
(* the known user data directories, then on the usual ports.  A file whose *)
(* port does not answer is removed.  Chromes start and quit meanwhile.     *)
(***************************************************************************)
EXTENDS Naturals, Sequences

CONSTANTS
    Profiles,  \* the user data directories, in the order they are tried
    Ports,     \* the usual ports, in the order they are tried
    MaySlow    \* a running Chrome may fail to answer within 2 s

Range(s) == {s[i] : i \in 1..Len(s)}
Places == Range(Profiles) \cup Range(Ports)

\* The exact path of the port file, /json/version, /json/list and /devtools/browser
Methods == <<"exact", "version", "list", "devtools">>

VARIABLES
    serves,  \* what the Chrome of each place answers to, {} when none runs
    file,    \* the directories with a DevToolsActivePort
    pc,      \* "idle", "read", "ask", "remove"
    at,      \* the place the scan has come to
    method,  \* the way that is tried
    steady,  \* places with a Chrome that could be found ever since the scan began
    result   \* "none", "ok", "err"

vars == <<serves, file, pc, at, method, steady, result>>

Kinds == {{}, {"exact", "version", "list"}, {"exact", "devtools"}, {"devtools"}}
Order == Profiles \o Ports

TypeOK ==
    /\ serves \in [Places -> Kinds] /\ file \subseteq Range(Profiles)
    /\ pc \in {"idle", "read", "ask", "remove"} /\ at \in 1..Len(Order) + 1
    /\ method \in 1..Len(Methods) + 1 /\ steady \subseteq Places
    /\ result \in {"none", "ok", "err"}

\* A Chrome that has quit may have left its file.
Init ==
    /\ serves \in [Places -> Kinds] /\ file \in SUBSET Range(Profiles)
    /\ {p \in Range(Profiles) : serves[p] # {}} \subseteq file
    /\ pc = "idle" /\ at = 1 /\ method = 1 /\ steady = {} /\ result = "none"

ChromeStarts(p) ==
    /\ serves[p] = {} /\ \E k \in Kinds \ {{}} : serves' = [serves EXCEPT ![p] = k]
    /\ file' = IF p \in Range(Profiles) THEN file \cup {p} ELSE file
    /\ UNCHANGED <<pc, at, method, steady, result>>

ChromeQuits(p) ==
    /\ serves[p] # {} /\ serves' = [serves EXCEPT ![p] = {}] /\ steady' = steady \ {p}
    /\ UNCHANGED <<file, pc, at, method, result>>

Scan ==
    /\ pc = "idle" /\ pc' = "read" /\ at' = 1 /\ method' = 1 /\ result' = "none"
    /\ steady' = {p \in Places : serves[p] # {} /\ (p \in Range(Profiles) => p \in file)}
    /\ UNCHANGED <<serves, file>>

\* read_devtools_active_port; the usual ports are asked without a file.
Read ==
    /\ pc = "read" /\ at <= Len(Order)
    /\ LET p == Order[at]
       IN  IF p \in Range(Profiles) /\ p \notin file
           THEN at' = at + 1 /\ UNCHANGED <<pc, method>>
           ELSE /\ pc' = "ask" /\ UNCHANGED at
                /\ method' = IF p \in Range(Profiles) THEN 1 ELSE 2
    /\ UNCHANGED <<serves, file, steady, result>>

\* verify_ws_endpoint and the methods of discover_cdp_url, one after the other
Answers ==
    /\ pc = "ask" /\ method <= Len(Methods) /\ Methods[method] \in serves[Order[at]]
    /\ result' = "ok" /\ pc' = "idle"
    /\ UNCHANGED <<serves, file, at, method, steady>>
NoAnswer ==
    /\ pc = "ask" /\ method <= Len(Methods)
    /\ MaySlow \/ Methods[method] \notin serves[Order[at]]
    /\ method' = method + 1 /\ steady' = IF MaySlow THEN steady \ {Order[at]} ELSE steady
    /\ UNCHANGED <<serves, file, pc, at, result>>

\* The mutant stops at the first dead port.
DeadStops ==
    /\ pc = "ask" /\ method > Len(Methods) /\ pc' = "idle" /\ result' = "err"
    /\ UNCHANGED <<serves, file, at, method, steady>>
\* A port that does not answer: the file that named it goes.
Dead ==
    /\ pc = "ask" /\ method > Len(Methods)
    /\ IF Order[at] \in Range(Profiles)
       THEN pc' = "remove" /\ UNCHANGED at
       ELSE pc' = "read" /\ at' = at + 1
    /\ UNCHANGED <<serves, file, method, steady, result>>
RemoveFile ==
    /\ pc = "remove" /\ file' = file \ {Order[at]} /\ pc' = "read" /\ at' = at + 1
    /\ UNCHANGED <<serves, method, steady, result>>

NotFound ==
    /\ pc = "read" /\ at > Len(Order) /\ pc' = "idle" /\ result' = "err"
    /\ UNCHANGED <<serves, file, at, method, steady>>

Next ==
    \/ Scan \/ Read \/ Answers \/ NoAnswer \/ Dead \/ RemoveFile \/ NotFound
    \/ \E p \in Places : ChromeStarts(p) \/ ChromeQuits(p)

Spec == Init /\ [][Next]_vars

-----------------------------------------------------------------------------
(* Properties.                                                             *)

\* "No running Chrome instance found" is said only when every Chrome that
\* could be found at the start of the scan has quit since, or was too slow.
FindsRunning == result = "err" => pc # "idle" \/ steady = {}

=============================================================================

------------------------------ MODULE WebTools ------------------------------
(***************************************************************************)
(* web_fetch and web_search (reshape-core/src/tools): a download follows    *)
(* redirects up to a limit, checks every host before it asks it for         *)
(* anything, looking its name up for the check and again for the request,   *)
(* reads the body chunk by chunk up to a size, checks its type and writes   *)
(* it into the workspace.  A search is one request with one answer.         *)
(***************************************************************************)
EXTENDS Naturals, FiniteSets

CONSTANTS
    Hosts,           \* what a URL may name: addresses, and the names of hosts
    Names,           \* those that are names
    Private,         \* the addresses check_ssrf refuses
    MaxRedirects,    \* of the configuration
    MaxBytes,        \* of the arguments or the configuration
    MaxCalls         \* bound: calls

VARIABLES
    pc, args,      \* of the call: [path, overwrite]
    url, hops,     \* where the download is, and the redirects so far
    checked,       \* what check_ssrf let pass: round, host and address
    asked,         \* what was asked: round, host and address
    bytes, type,   \* of the response
    files,         \* workspace files with their owner: "user" or "fetch"
    result, calls

vars == <<pc, args, url, hops, checked, asked, bytes, type, files, result, calls>>
Types == {"png", "html"}
Results == {"none", "saved", "request_failed", "unexpected_type",
            "extension_mismatch", "file_exists", "error", "searched", "search_failed"}

\* Where the file goes: by default a name made from the address, the type and
\* the hash, so never that of the user's file; or the user's file, spelled as
\* list_files spells it, with a leading "./", or with an extension of its own.
Paths == {"default", "plain", "dotted", "other"}
File(p) == CASE p = "default" -> "download" [] p = "other" -> "page" [] OTHER -> "picture"
Ext(p) == IF p = "other" THEN "html" ELSE "png"

Addresses == Hosts \ Names
\* A lookup: a name may have any address, and another one the next time.
Lookup(h) == IF h \in Names THEN Addresses ELSE {h}
Visit(n, h, a) == [round |-> n, host |-> h, address |-> a]
Visits == [round : 0 .. MaxRedirects, host : Hosts, address : Addresses]

Init ==
    /\ pc = "idle" /\ args = [path |-> "default", overwrite |-> FALSE]
    /\ url \in Hosts /\ hops = 0 /\ checked = {} /\ asked = {}
    /\ bytes = 0 /\ type = "png"
    /\ files \in [{"picture", "download", "page"} -> {"none", "user"}]
    /\ files["download"] = "none"
    /\ result = "none" /\ calls = 0

End(r) ==
    /\ pc' = "idle"
    /\ result' = r

\* parse_args passed; the download starts.
Fetch ==
    /\ pc = "idle" /\ calls < MaxCalls
    /\ \E p \in Paths, o \in BOOLEAN, u \in Hosts :
         args' = [path |-> p, overwrite |-> o] /\ url' = u
    /\ pc' = "check" /\ hops' = 0 /\ checked' = {} /\ asked' = {} /\ bytes' = 0
    /\ result' = "none" /\ calls' = calls + 1
    /\ UNCHANGED <<type, files>>

Asks == \E a \in Lookup(url) : asked' = asked \cup {Visit(hops, url, a)}

\* The mutant checks the first host only.
CheckFirst ==
    /\ pc = "check"
    /\ \E a \in Lookup(url) :
         IF a \in Private /\ hops = 0 THEN End("request_failed") /\ UNCHANGED checked
         ELSE /\ pc' = "request" /\ UNCHANGED result
              /\ checked' = IF hops = 0 THEN checked \cup {Visit(hops, url, a)} ELSE checked
    /\ UNCHANGED <<args, url, hops, asked, bytes, type, files, calls>>
\* check_ssrf, for the first host and for that of every redirect.
Check ==
    /\ pc = "check"
    /\ \E a \in Lookup(url) :
         IF a \in Private THEN End("request_failed") /\ UNCHANGED checked
         ELSE /\ pc' = "request" /\ UNCHANGED result
              /\ checked' = checked \cup {Visit(hops, url, a)}
    /\ UNCHANGED <<args, url, hops, asked, bytes, type, files, calls>>

\* A name is not found, for the check or for the request.
LookupFails ==
    /\ pc \in {"check", "request"} /\ url \in Names
    /\ End("request_failed")
    /\ UNCHANGED <<args, url, hops, checked, asked, bytes, type, files, calls>>

\* The request fails, or the status is neither a redirect nor a success.
RequestFails ==
    /\ pc = "request" /\ End("request_failed") /\ Asks
    /\ UNCHANGED <<args, url, hops, checked, bytes, type, files, calls>>

\* The body breaks off.
BodyFails ==
    /\ pc = "body" /\ End("request_failed")
    /\ UNCHANGED <<args, url, hops, checked, asked, bytes, type, files, calls>>

\* One round of 0..=max_redirects: the last one may not redirect.
Redirect ==
    /\ pc = "request" /\ Asks
    /\ \E u \in Hosts : url' = u
    /\ hops' = hops + 1
    /\ IF hops = MaxRedirects THEN End("request_failed") ELSE pc' = "check" /\ UNCHANGED result
    /\ UNCHANGED <<args, checked, bytes, type, files, calls>>

\* A success; a Content-Length above the limit is refused, none is not.
Headers ==
    /\ pc = "request" /\ Asks
    /\ type' \in Types
    /\ \/ pc' = "body" /\ UNCHANGED result
       \/ End("request_failed")
    /\ UNCHANGED <<args, url, hops, checked, bytes, files, calls>>

Chunk ==
    /\ pc = "body"
    /\ \E n \in 1 .. MaxBytes :
         IF bytes + n > MaxBytes THEN End("request_failed") /\ UNCHANGED bytes
         ELSE bytes' = bytes + n /\ UNCHANGED <<pc, result>>
    /\ UNCHANGED <<args, url, hops, checked, asked, type, files, calls>>

\* validate_content_type: allowed, and the one expected if one is named.
Validate ==
    /\ pc = "body"
    /\ \E expected \in Types \cup {"any"} :
         IF type = "html" \/ expected \notin {"any", type} THEN End("unexpected_type")
         ELSE IF Ext(args.path) # type THEN End("extension_mismatch")
         ELSE pc' = "save" /\ UNCHANGED result
    /\ UNCHANGED <<args, url, hops, checked, asked, bytes, type, files, calls>>

\* The file is looked for among list_files by its path, component for
\* component, so that "./picture.png" is not found.
Exists == args.path # "dotted" /\ files[File(args.path)] # "none"

Save ==
    /\ pc = "save"
    /\ IF ~args.overwrite /\ Exists THEN End("file_exists") /\ UNCHANGED files
       ELSE \/ End("saved") /\ files' = [files EXCEPT ![File(args.path)] = "fetch"]
            \/ End("error") /\ UNCHANGED files     \* write_bytes failed
    /\ UNCHANGED <<args, url, hops, checked, asked, bytes, type, calls>>

\* web_search: each failure is an answer of its own kind to the model.
Search ==
    /\ pc = "idle" /\ calls < MaxCalls
    /\ \E r \in {"searched", "search_failed"} : result' = r
    /\ calls' = calls + 1
    /\ UNCHANGED <<pc, args, url, hops, checked, asked, bytes, type, files>>

Next ==
    \/ Fetch \/ Check \/ LookupFails \/ RequestFails \/ BodyFails \/ Redirect
    \/ Headers \/ Chunk \/ Validate \/ Save \/ Search

\* A lookup is answered or given up by the resolver, and the timeout of the HTTP
\* client ends a request, its body included, that gets no answer.
Going == Check \/ RequestFails \/ BodyFails \/ Redirect \/ Headers \/ Validate \/ Save
Spec == Init /\ [][Next]_vars /\ WF_vars(Going)

-----------------------------------------------------------------------------

TypeOK ==
    /\ pc \in {"idle", "check", "request", "body", "save"}
    /\ result \in Results
    /\ asked \subseteq Visits /\ checked \subseteq Visits
    /\ hops \in 0 .. MaxRedirects + 1

\* No host is asked before a check of its own, in the same round of the loop,
\* that found no private address; and a host that is an address is asked at the
\* one that was checked.  A name may have another address by the time of the
\* request, a private one as well: nothing checks that.
CheckedFor(v) == {c \in checked : c.round = v.round /\ c.host = v.host /\ c.address \notin Private}
AskedWasChecked ==
    \A v \in asked :
        /\ CheckedFor(v) # {}
        /\ v.host \notin Names => v.address \notin Private

\* What is held or saved is never more than the limit, whatever length the
\* server announced.
WithinLimit == bytes <= MaxBytes

\* A server that redirects for ever, or never stops sending, does not keep
\* the call: it ends.
FetchEnds == (pc = "check") ~> (pc = "idle")

=============================================================================

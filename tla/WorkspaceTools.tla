--------------------------- MODULE WorkspaceTools ---------------------------
(***************************************************************************)
(* The workspace during one agent turn: the tools list_files, read_file,    *)
(* write_file, delete_file and map_workspace (reshape-core/src/tools, over  *)
(* workspace/local.rs) and the changedFiles of the turn (rpc_server.rs),    *)
(* while the user may edit the same directory.                              *)
(*                                                                         *)
(* Content is abstracted to what the tools look at: whether a page links    *)
(* the default stylesheet, and the files it links.  A stamp stands for the  *)
(* length and modification time of a file.                                  *)
(***************************************************************************)
EXTENDS Naturals, Sequences, FiniteSets

CONSTANTS
    UserEdits,    \* bound: edits of the user during the turn
    MaxCalls,     \* bound: tool calls of the turn
    Names,        \* the file names that occur
    Lines         \* lines of every file

VARIABLES
    disk,     \* [Names -> content or None]
    stamp,    \* [Names -> stamp of the last write]
    clock,    \* the last stamp given
    turn,     \* [pc, before, wrote, reported]
    tool,     \* the call in progress: [name, left, links, ok, next, seen]
    edits,    \* edits of the user so far
    calls

vars == <<disk, stamp, clock, turn, tool, edits, calls>>

None == [page |-> FALSE]

\* is_html_path is case sensitive, is_markdown_path is not, and relative_path
\* supports lower case extensions, svg not among them.
Html == {"index.html", "topic.html"}
Markdown == {"note.md", "README.MD"}
Supported == {"index.html", "topic.html", "note.md"}
Pages == Html \cup Markdown

\* What a caller may write: a fragment, a document with a head, or one whose
\* only "<head" is that of a <header>.
Shapes == {"fragment", "document", "headless"}
Contents == [page : {TRUE}, shape : Shapes, css : BOOLEAN, links : {{}, {"topic.html"}}]

NoTool == [name |-> "none", left |-> {}, links |-> {}, ok |-> TRUE, next |-> 0, seen |-> <<>>]
Listed == {f \in Names : disk[f] # None}

Init ==
    /\ disk \in [Names -> {None, [page |-> TRUE, shape |-> "document", css |-> TRUE, links |-> {}]}]
    /\ stamp = [f \in Names |-> 0]
    /\ clock = 0
    /\ turn = [pc |-> "idle", before |-> {}, wrote |-> {}, reported |-> {}]
    /\ tool = NoTool
    /\ edits = 0
    /\ calls = 0

\* workspace_fingerprint: names with their stamps.  A file that goes away
\* between read_dir and metadata makes the walk fail, which counts as empty.
Fingerprints ==
    {{<<f, stamp[f]>> : f \in Listed}} \cup IF edits > 0 THEN {{}} ELSE {}

TurnBegin ==
    /\ turn.pc = "idle"
    /\ \E fp \in Fingerprints : turn' = [turn EXCEPT !.pc = "tools", !.before = fp]
    /\ UNCHANGED <<disk, stamp, clock, tool, edits, calls>>

\* The mutant compares names only.
NewNames ==
    /\ turn.pc = "tools" /\ tool = NoTool
    /\ \E fp \in Fingerprints :
         turn' = [turn EXCEPT !.pc = "done",
                    !.reported = {e[1] : e \in fp} \ {e[1] : e \in turn.before}]
    /\ UNCHANGED <<disk, stamp, clock, tool, edits, calls>>

\* changed_workspace_files: what is there now with another stamp than before.
TurnEnd ==
    /\ turn.pc = "tools" /\ tool = NoTool
    /\ \E fp \in Fingerprints :
         turn' = [turn EXCEPT !.pc = "done", !.reported = {e[1] : e \in fp \ turn.before}]
    /\ UNCHANGED <<disk, stamp, clock, tool, edits, calls>>

Call(name, t) ==
    /\ turn.pc = "tools" /\ tool = NoTool /\ calls < MaxCalls
    /\ calls' = calls + 1
    /\ tool' = [t EXCEPT !.name = name]

Put(f, content) ==
    /\ disk' = [disk EXCEPT ![f] = content]
    /\ clock' = clock + 1
    /\ stamp' = [stamp EXCEPT ![f] = clock + 1]

\* normalize_html_write: a fragment becomes a document with the stylesheet, a
\* document gets the link appended to its head, if it has one.
Normalize(f, c) ==
    IF f \in Html /\ c.shape # "headless"
      THEN [c EXCEPT !.css = TRUE, !.shape = "document"]
      ELSE c

\* write_file; an unsupported name is an error and writes nothing.
WriteFile ==
    /\ Call("none", NoTool)
    /\ \E f \in Names, c \in Contents :
         IF f \in Supported
           THEN /\ Put(f, Normalize(f, c))
                /\ turn' = [turn EXCEPT !.wrote = @ \cup {f}]
           ELSE UNCHANGED <<disk, stamp, clock, turn>>
    /\ UNCHANGED edits

DeleteFile ==
    /\ Call("none", NoTool)
    /\ \E f \in Names :
         /\ IF f \in Supported THEN disk' = [disk EXCEPT ![f] = None] ELSE UNCHANGED disk
         /\ turn' = [turn EXCEPT !.wrote = @ \ {f}]
    /\ UNCHANGED <<stamp, clock, edits>>

-----------------------------------------------------------------------------
(* read_file with offset and limit; the model follows next_offset.          *)

\* The lines selected from offset on.
Page(offset, limit) ==
    [i \in 1 .. (IF offset > Lines THEN 0
                 ELSE IF offset + limit - 1 > Lines THEN Lines - offset + 1 ELSE limit)
       |-> offset + i - 1]

\* next_offset, when the page is truncated.
NextOffset(offset, limit) == offset + Len(Page(offset, limit))

ReadFile ==
    /\ \E f \in Listed, offset \in 1 .. Lines + 1 :
         IF f \in Supported
           THEN Call("read", [NoTool EXCEPT !.next = offset, !.left = {f}])
           ELSE Call("refused", [NoTool EXCEPT !.ok = FALSE, !.left = {f}])
    /\ UNCHANGED <<disk, stamp, clock, turn, edits>>

ReadPage ==
    /\ tool.name = "read"
    /\ tool.next # 0
    /\ \E limit \in 1 .. Lines + 1 :
         LET next == NextOffset(tool.next, limit)
         IN tool' = [tool EXCEPT !.seen = @ \o Page(tool.next, limit),
                                 !.next = IF next <= Lines THEN next ELSE 0]
    /\ UNCHANGED <<disk, stamp, clock, turn, edits, calls>>

-----------------------------------------------------------------------------
(* map_workspace lists the files, then reads every page.                    *)

Map ==
    /\ Call("map", [NoTool EXCEPT !.left = Listed \cap Pages])
    /\ UNCHANGED <<disk, stamp, clock, turn, edits>>

\* extract_links of one page.  read_text fails on an unsupported name and on
\* a file that has gone, and then the whole call fails.
MapRead ==
    /\ tool.name = "map"
    /\ \E f \in tool.left :
         tool' = IF f \in Supported /\ disk[f] # None
                   THEN [tool EXCEPT !.left = @ \ {f},
                           !.links = @ \cup {<<f, t>> : t \in disk[f].links}]
                   ELSE [tool EXCEPT !.name = "refused", !.left = {}, !.ok = FALSE]
    /\ UNCHANGED <<disk, stamp, clock, turn, edits, calls>>

\* Links to files that are not there are missing, the others backlinks.
Backlinks == {t \in Listed : \E l \in tool.links : l[2] = t}

\* orphans: pages nothing links, but for the entry page.
Orphans == {f \in (Listed \cap Pages) \ {"index.html"} : f \notin Backlinks}

ToolDone ==
    /\ \/ tool.name = "read" /\ tool.next = 0
       \/ tool.name = "map" /\ tool.left = {}
       \/ tool.name = "refused"
    /\ tool' = NoTool
    /\ UNCHANGED <<disk, stamp, clock, turn, edits, calls>>

\* The user writes or deletes a file, whatever its name.
UserEdit ==
    /\ edits < UserEdits
    /\ edits' = edits + 1
    /\ \E f \in Names :
         \/ Put(f, [page |-> TRUE, shape |-> "document", css |-> TRUE, links |-> {}])
         \/ disk' = [disk EXCEPT ![f] = None] /\ UNCHANGED <<stamp, clock>>
    /\ UNCHANGED <<turn, tool, calls>>

Next ==
    \/ TurnBegin \/ TurnEnd \/ WriteFile \/ DeleteFile \/ ReadFile \/ ReadPage
    \/ Map \/ MapRead \/ ToolDone \/ UserEdit

Spec == Init /\ [][Next]_vars

-----------------------------------------------------------------------------

TypeOK ==
    /\ DOMAIN disk = Names
    /\ turn.pc \in {"idle", "tools", "done"}
    /\ turn.reported \subseteq Names
    /\ tool.left \subseteq Names /\ tool.next \in 0 .. Lines + 1
    /\ Len(tool.seen) <= Lines

\* While nobody else edits, changedFiles names exactly the files the turn
\* wrote and left there, whatever order of writes and deletions led there.
ReportedIsExact ==
    turn.pc = "done" /\ edits = 0 => turn.reported = turn.wrote

\* Following next_offset reads every line from the first offset on once and
\* in order, whatever limits are chosen (file.rs, validate_read_window).
PagesCoverFile ==
    tool.name = "read" /\ tool.next = 0 =>
        \A i \in 1 .. Len(tool.seen) : tool.seen[i] = Lines - Len(tool.seen) + i

\* An orphan of a complete map is reachable from no page of the workspace,
\* and the page the agent starts from is none.
OrphansAreUnlinked ==
    tool.name = "map" /\ tool.left = {} /\ edits = 0 =>
        /\ "index.html" \notin Orphans
        /\ \A f \in Pages \cap Listed :
             f \in Orphans <=> f # "index.html" /\
                               ~ \E g \in Pages \cap Listed : f \in disk[g].links

=============================================================================

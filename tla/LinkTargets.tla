----------------------------- MODULE LinkTargets -----------------------------
(***************************************************************************)
(* How map_workspace (tools/map.rs) finds the file a link names: the href   *)
(* of a page is joined with the directory of the page and normalised        *)
(* component by component, then looked up, also with ".md" appended.        *)
(* Components are "a" and "b" (names), "." and "..".                        *)
(***************************************************************************)
EXTENDS Naturals, Sequences, SequencesExt, FiniteSets

CONSTANTS
    MaxDepth,      \* bound: directories above the page
    MaxLength,     \* bound: components of the href
    Unsupported    \* no target

VARIABLES dir, href, parts, done
vars == <<dir, href, parts, done>>

Names == {"a", "b"}
Components == Names \cup {".", ".."}

Init ==
    /\ dir \in UNION {[1 .. n -> Names] : n \in 0 .. MaxDepth}
    /\ href = <<>>
    /\ parts = dir
    /\ done = FALSE

\* One component of normalize_workspace_path: parts.pop()? on an empty list
\* ends the function without a target.
Push(p, c) ==
    CASE c \in Names -> Append(p, c)
      [] c = "." -> p
      [] c = ".." -> IF p = <<>> THEN <<Unsupported>> ELSE Front(p)

Gone == parts = <<Unsupported>>

\* resolve_relative_target of a longer href.
Component ==
    /\ ~done /\ ~Gone
    /\ Len(href) < MaxLength
    /\ \E c \in Components : href' = Append(href, c) /\ parts' = Push(parts, c)
    /\ UNCHANGED <<dir, done>>

\* classify_href: no path at all is an anchor, the root no target.
Target == IF parts = <<>> THEN <<Unsupported>> ELSE parts

Classify ==
    /\ ~done
    /\ href # <<>>
    /\ parts' = Target
    /\ done' = TRUE
    /\ UNCHANGED <<dir, href>>

Next == Component \/ Classify
Spec == Init /\ [][Next]_vars

-----------------------------------------------------------------------------

TypeOK ==
    /\ dir \in Seq(Names) /\ href \in Seq(Components)
    /\ parts \in Seq(Names) \cup {<<Unsupported>>}
    /\ done => parts # <<>>

Path == dir \o href
Ups(i, j) == Cardinality({k \in i .. j : Path[k] = ".."})
Downs(i, j) == Cardinality({k \in i .. j : Path[k] \in Names})

\* The reference: a name stays when nothing after it climbs above it, and a
\* path that climbs above the workspace at any point has no target.
Survives(i) ==
    Path[i] \in Names /\ \A j \in i + 1 .. Len(Path) : Ups(i + 1, j) <= Downs(i + 1, j)
Escapes == \E j \in 1 .. Len(Path) : Ups(1, j) > Downs(1, j)

\* A classified link names the file the reference names: in particular no
\* link leads out of the workspace and back into it.
TargetIsReference ==
    done =>
        LET kept == SelectSeq([i \in 1 .. Len(Path) |-> i], Survives)
            names == [i \in 1 .. Len(kept) |-> Path[kept[i]]]
        IN parts = IF Escapes \/ names = <<>> THEN <<Unsupported>> ELSE names

=============================================================================

----------------------------- MODULE BrowserTabs -----------------------------
(***************************************************************************)
(* The tabs of a browser as the daemon of agent-browser tracks them: the    *)
(* pages of BrowserManager (native/browser.rs), the element references of   *)
(* DaemonState, and the target events drained before every command and by   *)
(* the background tick (native/actions.rs).  A target is a page of the      *)
(* browser; its events wait in a queue while a command runs.                *)
(***************************************************************************)
EXTENDS Naturals, Sequences, SequencesExt, FiniteSets

CONSTANTS
    Targets,     \* pages the browser may open
    None,
    MaxEvents,   \* bound: unread events
    MaxIds       \* bound: the id from which no title changes any more

VARIABLES
    target,      \* of each target: "none", "open", "closing" or "gone"
    pages,       \* BrowserManager.pages: [tab, target, label]
    active,      \* active_page_index, counted from 0
    next,        \* next_tab_id
    refs,        \* the target the ref_map was taken from, or None
    events,      \* unread target events: [kind, target]
    pc,          \* "idle", or "command" after the drain of a command
    given        \* every [tab, target] there has been

vars == <<target, pages, active, next, refs, events, pc, given>>

\* Labels a user may choose: is_valid_label accepts a name of the form t<N>.
Labels == {"docs", "t1"}
NoLabel == "none"

Page(tab, t, label) == [tab |-> tab, target |-> t, label |-> label]
Tracked(ps) == {p.target : p \in Range(ps)}
Here == IF active < Len(pages) THEN pages[active + 1].target ELSE None

\* discover_and_attach_targets found one page.
Init ==
    \E t \in Targets :
        /\ target = [u \in Targets |-> IF u = t THEN "open" ELSE "none"]
        /\ pages = <<Page(1, t, NoLabel)>>
        /\ active = 0 /\ next = 2
        /\ refs = None
        /\ events = <<>> /\ pc = "idle"
        /\ given = {[tab |-> 1, target |-> t]}

\* The mutant keeps the index whatever was removed.
IndexKept(index, removed, remaining) ==
    IF index >= remaining THEN (IF remaining = 0 THEN 0 ELSE remaining - 1) ELSE index

active_page_index_after_removal(index, removed, remaining) ==
    CASE remaining = 0 -> 0
      [] remaining > 0 /\ removed < index -> index - 1
      [] remaining > 0 /\ removed >= index /\ index >= remaining -> remaining - 1
      [] OTHER -> index

\* remove_page_by_target_id, on [pages, active].
RemovePage(tabs, t) ==
    IF t \notin Tracked(tabs.pages) THEN tabs
    ELSE LET i == CHOOSE i \in 1 .. Len(tabs.pages) : tabs.pages[i].target = t
         IN [tabs EXCEPT !.pages = RemoveAt(@, i),
               !.active = active_page_index_after_removal(@, i - 1, Len(tabs.pages) - 1)]

\* assign_tab_id counts up for the life of the manager.
AssignId(tabs) == tabs.next

\* add_page makes a new page the active one.
Add(tabs, t, label) ==
    [pages |-> Append(tabs.pages, Page(AssignId(tabs), t, label)),
     active |-> Len(tabs.pages),
     next |-> tabs.next + 1]

List == [pages |-> pages, active |-> active, next |-> next]
SetTabs(tabs) ==
    /\ pages' = tabs.pages /\ active' = tabs.active /\ next' = tabs.next
    /\ given' = given \cup {[tab |-> p.tab, target |-> p.target] : p \in Range(tabs.pages)}

\* drain_cdp_events: a target created and not tracked, or changed and neither
\* tracked nor already to be attached.
Promote(known, new, e) ==
    IF \/ e.kind = "created" /\ e.target \notin known
       \/ e.kind = "changed" /\ e.target \notin known \cup Range(new)
      THEN Append(new, e.target) ELSE new

NewTargets == FoldLeft(LAMBDA new, e : Promote(Tracked(pages), new, e), <<>>, events)

\* apply_drained_events: destroyed targets go first, then new ones are
\* attached, which fails for one that has gone meanwhile.
Drained ==
    LET destroyed == SelectSeq(events, LAMBDA e : e.kind = "destroyed")
        left == FoldLeft(LAMBDA tabs, e : RemovePage(tabs, e.target), List, destroyed)
        there == SelectSeq(NewTargets, LAMBDA t : target[t] \in {"open", "closing"})
    IN FoldLeft(LAMBDA tabs, t : Add(tabs, t, NoLabel), left, there)

\* The background tick, and the start of a command.  Neither touches the
\* references.
Drain ==
    /\ pc = "idle"
    /\ SetTabs(Drained)
    /\ events' = <<>>
    /\ pc' \in {"idle", "command"}
    /\ UNCHANGED <<target, refs>>

-----------------------------------------------------------------------------
(* Commands.                                                               *)

Unused == {t \in Targets : target[t] = "none"}
Forget == refs' = None
Announce(kind, t) == events' = Append(events, [kind |-> kind, target |-> t])
Done == pc' = "idle"

\* Target.createTarget, attach, and the page at the end of the list; the
\* browser announces the target as well.
Create(label) ==
    \E t \in Unused :
        /\ target' = [target EXCEPT ![t] = "open"]
        /\ SetTabs(Add(List, t, label))
        /\ Announce("created", t)

\* execute_command calls ensure_page when the last page has gone; its error
\* is ignored, and every command then finds no active page.
EnsurePage ==
    /\ pc = "command" /\ pages = <<>>
    /\ Create(NoLabel)
    /\ UNCHANGED <<refs, pc>>

TabNew ==
    /\ pc = "command"
    /\ \E label \in Labels \cup {NoLabel} :
         IF label # NoLabel /\ \E p \in Range(pages) : p.label = label
           THEN UNCHANGED <<target, pages, active, next, given, events>>
           ELSE Create(label)
    /\ Forget /\ Done

\* click --new-tab.
ClickNewTab ==
    /\ pc = "command" /\ pages # <<>>
    /\ Create(NoLabel)
    /\ Forget /\ Done

\* TabRef::parse and resolve_tab_ref: t<N> is always an id.
Resolve(name) ==
    IF name \in {"t1", "t2", "t3"}
      THEN LET id == CASE name = "t1" -> 1 [] name = "t2" -> 2 [] OTHER -> 3
           IN {i \in 1 .. Len(pages) : pages[i].tab = id}
      ELSE {i \in 1 .. Len(pages) : pages[i].label = name}

TabSwitch(name) ==
    /\ pc = "command"
    /\ IF Resolve(name) = {} THEN UNCHANGED <<active, refs>>
       ELSE \E i \in Resolve(name) : active' = i - 1 /\ Forget
    /\ Done
    /\ UNCHANGED <<target, pages, next, events, given>>

\* The page is removed at once, the target is asked to close.
TabClose ==
    /\ pc = "command" /\ pages # <<>>
    /\ Forget /\ Done
    /\ IF Len(pages) = 1 THEN UNCHANGED <<pages, active, next, given, target>>
       ELSE \E t \in Tracked(pages) :
              /\ SetTabs(RemovePage(List, t))
              /\ target' = [target EXCEPT ![t] = IF @ = "open" THEN "closing" ELSE @]
    /\ UNCHANGED <<events>>

\* navigate, back, forward and reload stay in the tab.
Navigate ==
    /\ pc = "command" /\ Here # None /\ target[Here] = "open"
    /\ Forget /\ Done
    /\ UNCHANGED <<target, pages, active, next, events, given>>

Snapshot ==
    /\ pc = "command" /\ Here # None /\ target[Here] = "open"
    /\ refs' = Here /\ Done
    /\ UNCHANGED <<target, pages, active, next, events, given>>

-----------------------------------------------------------------------------
(* The browser, at any time.                                               *)

Popup ==
    /\ Len(events) < MaxEvents
    /\ \E t \in Unused : target' = [target EXCEPT ![t] = "open"] /\ Announce("created", t)
    /\ UNCHANGED <<pages, active, next, refs, pc, given>>

TitleChanged ==
    /\ Len(events) < MaxEvents /\ next <= MaxIds
    /\ \E t \in Targets : target[t] \in {"open", "closing"} /\ Announce("changed", t)
    /\ UNCHANGED <<target, pages, active, next, refs, pc, given>>

Destroyed ==
    /\ Len(events) < MaxEvents
    /\ \E t \in Targets :
         /\ target[t] \in {"open", "closing"}
         /\ target' = [target EXCEPT ![t] = "gone"]
         /\ Announce("destroyed", t)
    /\ UNCHANGED <<pages, active, next, refs, pc, given>>

Next ==
    \/ Drain \/ EnsurePage \/ TabNew \/ ClickNewTab \/ TabClose \/ Navigate
    \/ Snapshot \/ Popup \/ TitleChanged \/ Destroyed
    \/ \E name \in Labels \cup {"t2"} : TabSwitch(name)

Spec == Init /\ [][Next]_vars

-----------------------------------------------------------------------------

TypeOK ==
    /\ \A p \in Range(pages) : p.target \in Targets /\ p.label \in Labels \cup {NoLabel}
    /\ active = 0 \/ active < Len(pages)
    /\ pc \in {"idle", "command"}

\* docs/design/agent-browser-native-browser.md calls a tab id stable: it
\* names one target for ever, and no target is in the list twice.
IdsAreStable ==
    /\ \A g, h \in given : g.tab = h.tab => g = h
    /\ \A i, j \in 1 .. Len(pages) : i # j => pages[i].target # pages[j].target

\* Labels are unique, so that a name that is no id finds at most one tab.
LabelsAreUnique ==
    \A i, j \in 1 .. Len(pages) :
        i # j /\ pages[i].label = pages[j].label => pages[i].label = NoLabel

\* When every event has been read, the list is what the browser shows: no
\* open page is missed and none that has gone is kept, whatever order the
\* events came in and whatever commands ran in between.
ListIsBrowser ==
    events = <<>> =>
        /\ {t \in Targets : target[t] = "open"} \subseteq Tracked(pages)
        /\ \A t \in Tracked(pages) : target[t] \in {"open", "closing"}

\* When a tab other than the active one goes, by a command or by itself, and
\* none comes, the active tab stays the active one.
ActiveTabStays ==
    [][/\ Tracked(pages') \subseteq Tracked(pages) /\ Len(pages') < Len(pages)
       /\ Here \in Tracked(pages')
       => Here' = Here]_vars

=============================================================================

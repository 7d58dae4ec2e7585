---------------------------- MODULE PendingContext ----------------------------
(***************************************************************************)
(* The captured selection on its way through the extension: the context     *)
(* menu and the messages of background.ts, the stored copy of storage.ts,   *)
(* and the popup of popup.tsx that shows it, sends it or removes it.        *)
(*                                                                         *)
(* The background is a service worker: the browser may stop it, which loses *)
(* its memory and its connection, and starts it again for the next message. *)
(* Storage calls and messages each keep their order, and do not fail.  A    *)
(* popup closes when it loses the focus; a reply goes to the popup that     *)
(* asked (its number is `from`, 0 where nobody waits).  The manager of the  *)
(* connection (ExtensionConnection) is reduced to its status and isWorking. *)
(***************************************************************************)
EXTENDS Naturals, Sequences

CONSTANTS
    Contexts,      \* captured selections, each captured once
    None,          \* null
    Unset,         \* undefined: not loaded since the worker started
    MaxOpens,      \* bound: times the popup is opened
    MaxRestarts    \* bound: times the service worker is stopped

VARIABLES
    mem,       \* pendingContext of background.ts
    store,     \* what the storage holds
    calls,     \* storage calls in flight: [op, ctx, from]
    link,      \* status of the manager: "idle" or "connected"
    working,   \* isWorking of the manager
    toBg,      \* messages of popups the worker has not handled: [t, ctx, from]
    toPopup,   \* replies and notifications the popup has not handled
    popup,     \* the popup: [pc, ctx, sending, canChat, working]
    captured, opens, restarts,
    last,      \* the context most recently set or cleared in the worker
    sent,      \* contexts the manager has accepted
    raced      \* a context was set or cleared while a load was in flight

bgVars == <<mem, store, calls, link, working, last, sent, raced>>
bounds == <<captured, opens, restarts>>
vars == <<bgVars, toBg, toPopup, popup, bounds>>

Closed == [pc |-> "closed", ctx |-> None, sending |-> None, canChat |-> FALSE,
           working |-> FALSE]

Init ==
    /\ mem = Unset
    /\ store \in {None} \cup Contexts
    /\ calls = <<>> /\ toBg = <<>> /\ toPopup = <<>>
    /\ link = "idle" /\ working = FALSE
    /\ popup = Closed
    /\ captured = {store} \ {None} /\ opens = 0 /\ restarts = 0
    /\ last = store
    /\ sent = {}
    /\ raced = FALSE

Loading == \E i \in DOMAIN calls : calls[i].op = "load"
Status(ctx) == [t |-> "status", ctx |-> ctx, canChat |-> link = "connected",
                working |-> working]
Ok == [t |-> "ok", ctx |-> None, canChat |-> link = "connected",
            working |-> working]
Refused(restore) == [t |-> IF restore THEN "disconnected" ELSE "refused",
                     ctx |-> None, canChat |-> FALSE, working |-> FALSE]
Notify(ctx) == [t |-> "pendingContext", ctx |-> ctx, canChat |-> FALSE,
                working |-> FALSE]
Changed == [t |-> "statusChanged", ctx |-> None, canChat |-> link = "connected",
            working |-> FALSE]
Told(ms) == IF popup.pc = "closed" THEN <<>> ELSE ms
Answer(from, m) == IF from = opens THEN Told(<<m>>) ELSE <<>>
Tell(ms) == toPopup' = toPopup \o ms

-----------------------------------------------------------------------------
(* The worker: background.ts and storage.ts.                               *)

\* setPendingContext and clearPendingContext up to their await.
Assign(ctx, op, from) ==
    /\ mem' = ctx
    /\ last' = ctx
    /\ raced' = (raced \/ Loading)
    /\ calls' = Append(calls, [op |-> op, ctx |-> ctx, from |-> from])

\* handleSelectionContextMenuClick: the popup is opened afterwards.
Capture(ctx) ==
    /\ ctx \notin captured
    /\ captured' = captured \cup {ctx}
    /\ Assign(ctx, "save", 0)
    /\ UNCHANGED <<store, sent, link, working, toBg, toPopup, popup, opens, restarts>>

\* getPendingContext: what is in memory, or else what the storage holds.
HandleStatus ==
    /\ toBg # <<>> /\ Head(toBg).t = "status"
    /\ toBg' = Tail(toBg)
    /\ IF mem # Unset
         THEN Tell(Answer(Head(toBg).from, Status(mem))) /\ UNCHANGED calls
         ELSE /\ calls' = Append(calls, [op |-> "load", ctx |-> None,
                                         from |-> Head(toBg).from])
              /\ UNCHANGED toPopup
    /\ UNCHANGED <<mem, store, link, working, last, sent, raced, popup, bounds>>

HandleAssign ==
    /\ toBg # <<>> /\ Head(toBg).t \in {"clear", "set"}
    /\ toBg' = Tail(toBg)
    /\ Assign(Head(toBg).ctx, IF Head(toBg).t = "set" THEN "save" ELSE "remove",
              Head(toBg).from)
    /\ UNCHANGED <<store, link, working, sent, toPopup, popup, bounds>>

\* The mutant answers that the connection is down after it has sent.
HandleSendTwice ==
    /\ toBg # <<>> /\ Head(toBg).t = "send"
    /\ toBg' = Tail(toBg)
    /\ working' = TRUE
    /\ sent' = sent \cup ({Head(toBg).ctx} \ {None})
    /\ Tell(Answer(Head(toBg).from, Refused(TRUE)))
    /\ UNCHANGED <<mem, store, calls, link, last, raced, popup, bounds>>

\* reshape.send: refused, or handed to the manager without waiting for it.
HandleSend ==
    /\ toBg # <<>> /\ Head(toBg).t = "send"
    /\ toBg' = Tail(toBg)
    /\ IF link = "connected" /\ ~working
         THEN /\ working' = TRUE
              /\ sent' = sent \cup ({Head(toBg).ctx} \ {None})
              /\ Tell(Answer(Head(toBg).from, [Ok EXCEPT !.working = TRUE]))
         ELSE /\ Tell(Answer(Head(toBg).from, Refused(link # "connected")))
              /\ UNCHANGED <<working, sent>>
    /\ UNCHANGED <<mem, store, calls, link, last, raced, popup, bounds>>

\* manager.connect, which may fail, and manager.disconnect.
HandleConnect ==
    /\ toBg # <<>> /\ Head(toBg).t \in {"connect", "disconnect"}
    /\ toBg' = Tail(toBg)
    /\ link' \in {"idle"} \cup {l \in {"connected"} : Head(toBg).t = "connect"}
    /\ working' = FALSE
    /\ Tell(Answer(Head(toBg).from, [Ok EXCEPT !.canChat = link' = "connected",
                                                   !.working = FALSE]))
    /\ UNCHANGED <<mem, store, calls, last, sent, raced, popup, bounds>>

\* The promise of manager.send settles; the socket may be gone by then.
TurnEnds ==
    /\ working
    /\ working' = FALSE
    /\ link' \in {"idle", "connected"}
    /\ Tell(Told(<<[Changed EXCEPT !.canChat = link' = "connected"]>>))
    /\ UNCHANGED <<mem, store, calls, last, sent, raced, toBg, popup, bounds>>

\* The first storage call completes, and what awaited it goes on.
StoreDone ==
    /\ calls # <<>>
    /\ calls' = Tail(calls)
    /\ LET c == Head(calls)
       IN  IF c.op = "load"
             THEN /\ mem' = store
                  /\ Tell(Answer(c.from, Status(store)))
                  /\ UNCHANGED store
             ELSE /\ store' = c.ctx
                  /\ Tell(Told(<<Notify(c.ctx)>>) \o Answer(c.from, Ok))
                  /\ UNCHANGED mem
    /\ UNCHANGED <<link, working, last, sent, raced, toBg, popup, bounds>>

\* The browser stops a service worker that has had nothing to do for a while.
Restart ==
    /\ restarts < MaxRestarts
    /\ restarts' = restarts + 1
    /\ calls = <<>>
    /\ mem' = Unset
    /\ link' = "idle" /\ working' = FALSE
    /\ UNCHANGED <<store, calls, last, sent, raced, toBg, toPopup, popup, captured,
                   opens>>

-----------------------------------------------------------------------------
(* The popup.                                                              *)

Post(m) == toBg' = Append(toBg, m)
Msg(t, ctx, from) == [t |-> t, ctx |-> ctx, from |-> from]

\* initializeConnection: ask for the status, later connect if there is none.
Open ==
    /\ popup.pc = "closed"
    /\ opens < MaxOpens
    /\ opens' = opens + 1
    /\ popup' = [Closed EXCEPT !.pc = "init"]
    /\ Post(Msg("status", None, opens + 1))
    /\ UNCHANGED <<bgVars, toPopup, captured, restarts>>

\* The popup closes as soon as it loses the focus; its requests stay.
ClosePopup ==
    /\ popup.pc # "closed"
    /\ popup' = Closed
    /\ toPopup' = <<>>
    /\ UNCHANGED <<bgVars, toBg, bounds>>

\* sendMessage up to its first await.
SendClicked ==
    /\ popup.pc = "ready" /\ popup.canChat /\ ~popup.working
    /\ IF popup.ctx # None
         THEN /\ popup' = [popup EXCEPT !.pc = "clearing", !.ctx = None,
                                        !.sending = popup.ctx, !.working = TRUE]
              /\ Post(Msg("clear", None, opens))
         ELSE /\ popup' = [popup EXCEPT !.pc = "sending", !.working = TRUE]
              /\ Post(Msg("send", None, opens))
    /\ UNCHANGED <<bgVars, toPopup, bounds>>

\* handleConnectionAction: connect, or disconnect.
ConnectClicked ==
    /\ popup.pc = "ready"
    /\ popup' = [popup EXCEPT !.pc = "connecting", !.canChat = FALSE]
    /\ Post(Msg(IF popup.canChat THEN "disconnect" ELSE "connect", None, opens))
    /\ UNCHANGED <<bgVars, toPopup, bounds>>

\* The chip's button: nobody waits for the reply.
RemoveClicked ==
    /\ popup.pc = "ready" /\ popup.ctx # None
    /\ popup' = [popup EXCEPT !.ctx = None]
    /\ Post(Msg("clear", None, 0))
    /\ UNCHANGED <<bgVars, toPopup, bounds>>

\* The listener, in any state of the popup.
Listen ==
    /\ toPopup # <<>> /\ popup.pc # "closed"
    /\ Head(toPopup).t \in {"pendingContext", "statusChanged"}
    /\ toPopup' = Tail(toPopup)
    /\ popup' = IF Head(toPopup).t = "pendingContext"
                  THEN [popup EXCEPT !.ctx = Head(toPopup).ctx]
                  ELSE [popup EXCEPT !.canChat = Head(toPopup).canChat,
                                     !.working = FALSE]
    /\ UNCHANGED <<bgVars, toBg, bounds>>

Reply == toPopup # <<>> /\ Head(toPopup).t \notin {"pendingContext", "statusChanged"}
Apply(p) == [p EXCEPT !.canChat = Head(toPopup).canChat,
                      !.working = Head(toPopup).working]

StatusReply ==
    /\ popup.pc = "init" /\ Reply
    /\ toPopup' = Tail(toPopup)
    /\ LET known == IF Head(toPopup).t = "status"
                      THEN [Apply(popup) EXCEPT !.ctx = Head(toPopup).ctx]
                      ELSE popup
       IN  IF known.canChat
             THEN popup' = [known EXCEPT !.pc = "ready"] /\ UNCHANGED toBg
             ELSE /\ popup' = [known EXCEPT !.pc = "connecting"]
                  /\ Post(Msg("connect", None, opens))
    /\ UNCHANGED <<bgVars, bounds>>

ConnectReply ==
    /\ popup.pc = "connecting" /\ Reply
    /\ toPopup' = Tail(toPopup)
    /\ popup' = [Apply(popup) EXCEPT !.pc = "ready"]
    /\ UNCHANGED <<bgVars, toBg, bounds>>

\* The context is cleared, or that failed: send either way.
ClearReply ==
    /\ popup.pc = "clearing" /\ Reply
    /\ toPopup' = Tail(toPopup)
    /\ popup' = [popup EXCEPT !.pc = "sending"]
    /\ Post(Msg("send", popup.sending, opens))
    /\ UNCHANGED <<bgVars, bounds>>

\* shouldRestorePendingContext: only a lost connection brings the context back.
SendReply ==
    /\ popup.pc = "sending" /\ Reply
    /\ toPopup' = Tail(toPopup)
    /\ IF Head(toPopup).t = "disconnected" /\ popup.sending # None
         THEN /\ popup' = [Apply(popup) EXCEPT !.pc = "restoring",
                             !.ctx = popup.sending, !.sending = None]
              /\ Post(Msg("set", popup.sending, opens))
         ELSE /\ popup' = [Apply(popup) EXCEPT !.pc = "ready", !.sending = None,
                             !.canChat = IF Head(toPopup).t = "refused"
                                         THEN popup.canChat ELSE @]
              /\ UNCHANGED toBg
    /\ UNCHANGED <<bgVars, bounds>>

RestoreReply ==
    /\ popup.pc = "restoring" /\ Reply
    /\ toPopup' = Tail(toPopup)
    /\ popup' = [popup EXCEPT !.pc = "ready"]
    /\ UNCHANGED <<bgVars, toBg, bounds>>

Next ==
    \/ \E ctx \in Contexts : Capture(ctx)
    \/ HandleStatus \/ HandleAssign \/ HandleSend \/ HandleConnect \/ TurnEnds
    \/ StoreDone
    \/ Restart
    \/ Open \/ ClosePopup \/ SendClicked \/ ConnectClicked
    \/ RemoveClicked \/ Listen
    \/ StatusReply \/ ConnectReply \/ ClearReply \/ SendReply \/ RestoreReply

Spec == Init /\ [][Next]_vars

-----------------------------------------------------------------------------

\* Memory, storage and popup hold contexts, and requests are few.
TypeOK ==
    /\ mem \in Contexts \cup {None, Unset}
    /\ {store, last, popup.ctx, popup.sending} \subseteq Contexts \cup {None}
    /\ sent \subseteq Contexts
    /\ {link} \subseteq {"idle", "connected"}

Quiet == calls = <<>> /\ toBg = <<>> /\ toPopup = <<>>

\* Whatever the worker holds, or will load, is the context last set or
\* cleared, unless a load was in flight when that happened.
PendingIsLastUnlessRaced ==
    raced \/ /\ mem \in {Unset, last}
             /\ calls = <<>> => store = last

\* When nothing is in flight, an open popup shows what is pending.
ChipShowsPending ==
    Quiet /\ popup.pc = "ready" /\ ~raced => popup.ctx = last

\* A selection that was handed to the agent does not come back by itself: it is
\* neither pending nor shown again unless it is captured again.
SentOnce ==
    raced \/ \A ctx \in sent : ctx # mem /\ ctx # last /\ ctx # popup.ctx

=============================================================================

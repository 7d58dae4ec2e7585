----------------------------- MODULE CommandGate -----------------------------
(***************************************************************************)
(* The gate in front of execute_command: the policy file, re-read with      *)
(* every command, the categories of AGENT_BROWSER_CONFIRM_ACTIONS, the one  *)
(* slot for a command that waits for approval, and clients that run with    *)
(* --confirm-interactive and ask their user.                                *)
(***************************************************************************)
EXTENDS Integers

CONSTANTS
    Clients,
    Actions,      \* ordinary actions; the answers "confirm" and "deny" are commands too
    Policies,     \* what the policy file may hold: [allow, deny, confirm, default]
    Categories,   \* AGENT_BROWSER_CONFIRM_ACTIONS
    None,
    MaxAsked      \* bound on the commands that are sent

ASSUME GateAssumption ==
    /\ Actions \cap {"confirm", "deny"} = {}
    /\ MaxAsked \in Nat

VARIABLES
    file,      \* the policy file; None: it cannot be read or parsed
    policy,    \* DaemonState.policy
    pending,   \* pending_confirmation: a command, or None
    pc,        \* what each client does
    cmd,       \* the command of each client: its number, and what it sends now
    asked,     \* how many commands were sent
    ran,       \* the last command that ran: its number and action, who had it
               \* run, and whether by a confirmation; or None
    done,      \* the numbers of the commands that ran
    denied,    \* the numbers of those whose client had a deny handled
    permitted  \* the actions that the deny list of some policy in force did not name

vars == <<file, policy, pending, pc, cmd, asked, ran, done, denied, permitted>>

AllActions == Actions \cup {"confirm", "deny"}
Commands == [id : 0 .. MaxAsked, action : AllActions]

TypeOK ==
    /\ file \in Policies \cup {None}
    /\ policy \in Policies /\ permitted \subseteq Actions
    /\ pending \in Commands \cup {None}
    /\ pc \in [Clients -> {"idle", "sent", "prompt", "answered", "refused"}]
    /\ cmd \in [Clients -> Commands]
    /\ asked \in 0 .. MaxAsked
    /\ done \subseteq 1 .. MaxAsked /\ denied \subseteq 1 .. MaxAsked

Init ==
    /\ policy \in Policies /\ file = policy /\ permitted = Actions \ policy.deny
    /\ pending = None /\ ran = None
    /\ pc = [c \in Clients |-> "idle"]
    /\ cmd = [c \in Clients |-> [id |-> 0, action |-> "deny"]]
    /\ asked = 0 /\ done = {} /\ denied = {}

-----------------------------------------------------------------------------
(* The policy.                                                             *)

\* ActionPolicy::check.  An allow list that is not empty refuses what it does
\* not name, unless the default says otherwise; without a list the default
\* decides, and without a default everything is allowed.
check(p, a) ==
    CASE a \in p.deny -> "deny"
      [] a \notin p.deny /\ a \in p.confirm -> "confirm"
      [] OTHER ->
           LET unlisted == p.allow # None /\ p.allow # {} /\ a \notin p.allow
           IN  IF (unlisted /\ p.default \in {"deny", "none"}) \/ (p.allow = None /\ p.default = "deny")
               THEN "deny" ELSE "allow"

\* ActionPolicy::reload: a file that cannot be read or parsed changes nothing.
Reload == policy' = IF file = None THEN policy ELSE file
\* What the gate says of an action, with the policy just read.
Verdict(a) == check(policy', a)
NeedsConfirmation(a) == Verdict(a) = "confirm" \/ (a \notin {"confirm", "deny"} /\ a \in Categories)

\* Someone edits, breaks or repairs the policy file.
Edit ==
    /\ file' \in (Policies \cup {None}) \ {file}
    /\ UNCHANGED <<policy, pending, pc, cmd, asked, ran, done, denied, permitted>>

-----------------------------------------------------------------------------
(* The clients.                                                            *)

Send(c) ==
    /\ pc[c] = "idle" /\ asked < MaxAsked
    /\ \E a \in Actions : cmd' = [cmd EXCEPT ![c] = [id |-> asked + 1, action |-> a]]
    /\ pc' = [pc EXCEPT ![c] = "sent"]
    /\ asked' = asked + 1
    /\ UNCHANGED <<file, policy, pending, ran, done, denied, permitted>>

\* main asks its user and sends what the user says; without a terminal it is no.
Ask(c) ==
    /\ pc[c] = "prompt"
    /\ \E said \in {"confirm", "deny"} : cmd' = [cmd EXCEPT ![c].action = said]
    /\ pc' = [pc EXCEPT ![c] = "answered"]
    /\ UNCHANGED <<file, policy, pending, asked, ran, done, denied, permitted>>

-----------------------------------------------------------------------------
(* execute_command, up to the handler.                                     *)

\* The command waits in the slot, whoever waited there before.
Hold(c) ==
    /\ pending' = cmd[c]
    /\ pc' = [pc EXCEPT ![c] = IF pc[c] = "sent" THEN "prompt" ELSE "idle"]
    /\ UNCHANGED <<ran, done, denied>>

Refuse(c) ==
    /\ pc' = [pc EXCEPT ![c] = IF pc[c] = "answered" THEN "refused" ELSE "idle"]
    /\ UNCHANGED <<pending, ran, done, denied>>

Handler(command, c, confirmed) ==
    /\ ran' = [id |-> command.id, action |-> command.action, for |-> cmd[c].id, confirmed |-> confirmed]
    /\ done' = done \cup {command.id}

\* handle_confirm: whatever is in the slot runs, with policy and categories
\* taken away meanwhile; the confirmation id is not looked at.  A confirm or
\* deny found in the slot finds it empty in turn.
handle_confirm(c) ==
    /\ pending' = None
    /\ IF pending # None /\ pending.action \in Actions
         THEN Handler(pending, c, TRUE) ELSE UNCHANGED <<ran, done>>
    /\ UNCHANGED denied

\* The mutant leaves the command in the slot.
DenyKeeps(c) == denied' = denied \cup {cmd[c].id} /\ UNCHANGED <<pending, ran, done>>
handle_deny(c) ==
    /\ pending' = None
    /\ denied' = denied \cup {cmd[c].id}
    /\ UNCHANGED <<ran, done>>

Handle(c) ==
    /\ CASE cmd[c].action = "confirm" -> handle_confirm(c)
         [] cmd[c].action = "deny" -> handle_deny(c)
         [] OTHER -> Handler(cmd[c], c, FALSE) /\ UNCHANGED <<pending, denied>>
    /\ pc' = [pc EXCEPT ![c] = "idle"]

Execute(c) ==
    /\ pc[c] \in {"sent", "answered"}
    /\ Reload
    /\ permitted' = permitted \cup (Actions \ policy'.deny)
    /\ LET a == cmd[c].action
       IN  CASE Verdict(a) = "deny" -> Refuse(c)
             [] Verdict(a) # "deny" /\ NeedsConfirmation(a) -> Hold(c)
             [] OTHER -> Handle(c)
    /\ UNCHANGED <<file, cmd, asked>>

\* The client ends with the error.
GiveUp(c) ==
    /\ pc[c] = "refused"
    /\ pc' = [pc EXCEPT ![c] = "idle"]
    /\ UNCHANGED <<file, policy, pending, cmd, asked, ran, done, denied, permitted>>

Next == Edit \/ \E c \in Clients : Send(c) \/ Ask(c) \/ Execute(c) \/ GiveUp(c)

\* The daemon answers what it is sent; no user has to.
Spec == Init /\ [][Next]_vars /\ \A c \in Clients : WF_vars(Execute(c)) /\ WF_vars(GiveUp(c))

-----------------------------------------------------------------------------
(* Properties.                                                             *)

\* deny > confirm > allow: what the deny list of every policy in force so far
\* names has never run, neither at once nor by confirmation.
DenyPrevails == ran # None => ran.action \in permitted

\* A command of a category that needs confirmation never runs without one.
CategoriesAreConfirmed == (ran # None /\ ~ ran.confirmed) => ran.action \notin Categories

\* A step that runs a command runs one that has not run before and whose client
\* has had no deny handled.
RunsWhatIsLeft == ran' # ran => ran'.id \notin done \cup denied

\* policy.rs and actions.rs: what the deny list of every policy so far names has
\* never run, a command of a category that needs confirmation runs only by one,
\* no approval runs a command that has run, and none runs one whose client had
\* it denied, whoever confirms something later.
GateHolds ==
    /\ [](TypeOK /\ DenyPrevails /\ CategoriesAreConfirmed)
    /\ [][RunsWhatIsLeft]_vars

=============================================================================

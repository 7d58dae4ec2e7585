-------------------------- MODULE CommandGateProofs --------------------------
(***************************************************************************)
(* Theorems about the parts of MCCommandSuite: policy and confirmation     *)
(* (CommandGate), for any clients, actions, policies, categories and number*)
(* of commands; and, below, daemons and their clients, the daemons of      *)
(* reshape, launch and close, downloads, traces and profiles.              *)
(***************************************************************************)
EXTENDS MCCommandSuite, TLAPS

(***************************************************************************)
(* The inductive invariant.                                                *)
(***************************************************************************)

\* Every client has a command of its own, numbered when it was sent.
NumbersInv ==
    /\ \A c \in Clients : cmd[c].id <= asked
    /\ \A c \in Clients : pc[c] # "idle" => cmd[c].id # 0
    /\ \A c, d \in Clients : cmd[c].id = cmd[d].id /\ cmd[c].id # 0 => c = d
    /\ done \subseteq 1 .. asked /\ denied \subseteq 1 .. asked

\* A command that was just sent has neither run nor been denied, and is not in
\* the slot; what an asked client sends is its answer.
SentInv ==
    \A c \in Clients :
        /\ pc[c] = "sent" => /\ cmd[c].action \in Actions
                             /\ cmd[c].id \notin done \cup denied
                             /\ pending # None => pending.id # cmd[c].id
        /\ pc[c] = "answered" => cmd[c].action \in {"confirm", "deny"}

\* A command that waits in the slot has neither run nor been denied, and some
\* policy in force let it pass.  (The slot may also hold an answer.)
SlotInv ==
    pending # None =>
        /\ pending.id \in 1 .. asked
        /\ pending.action \in Actions =>
              pending.id \notin done \cup denied /\ pending.action \in permitted

GateInv == TypeOK /\ NumbersInv /\ SentInv /\ SlotInv /\ DenyPrevails /\ CategoriesAreConfirmed

(***************************************************************************)
(* The steps.                                                              *)
(***************************************************************************)

\* Nothing was sent.
LEMMA InitGate == Init => GateInv
<1>. SUFFICES ASSUME Init PROVE GateInv
  OBVIOUS
<1>1. TypeOK
  <2>1. [id |-> 0, action |-> "deny"] \in Commands
    BY GateAssumption DEF Commands, AllActions
  <2>. QED  BY <2>1, GateAssumption DEF Init, TypeOK
<1>2. NumbersInv /\ SentInv /\ SlotInv /\ DenyPrevails /\ CategoriesAreConfirmed
  BY DEF Init, NumbersInv, SentInv, SlotInv, DenyPrevails, CategoriesAreConfirmed
<1>. QED  BY <1>1, <1>2 DEF GateInv

\* The policy file is not the policy in force.
LEMMA EditGate ==
    ASSUME GateInv, Edit
    PROVE  GateInv'
<1>1. file' \in Policies \cup {None}
      /\ UNCHANGED <<policy, pending, pc, cmd, asked, ran, done, denied, permitted>>
  BY DEF Edit
<1>2. TypeOK'
  BY <1>1 DEF GateInv, TypeOK
<1>3. (NumbersInv /\ SentInv /\ SlotInv /\ DenyPrevails /\ CategoriesAreConfirmed)'
  BY <1>1 DEF GateInv, NumbersInv, SentInv, SlotInv, DenyPrevails, CategoriesAreConfirmed
<1>. QED  BY <1>2, <1>3 DEF GateInv

\* A new command has a number that no other has, in the slot or elsewhere.
LEMMA SendGate ==
    ASSUME GateInv, NEW c \in Clients, Send(c)
    PROVE  GateInv'
<1>. DEFINE n == asked + 1
<1>1. PICK a \in Actions : cmd' = [cmd EXCEPT ![c] = [id |-> n, action |-> a]]
  BY DEF Send
<1>2. /\ pc' = [pc EXCEPT ![c] = "sent"] /\ asked' = n /\ asked < MaxAsked
      /\ UNCHANGED <<file, policy, pending, ran, done, denied, permitted>>
  BY DEF Send
<1>3. TypeOK
  BY DEF GateInv
<1>4. /\ asked \in Nat /\ n \in 1 .. MaxAsked /\ n \in 0 .. MaxAsked /\ n # 0
      /\ 1 .. asked \subseteq 1 .. n /\ n \notin 1 .. asked
      /\ \A i \in 0 .. MaxAsked : i <= asked => i <= n /\ i # n
  BY <1>2, <1>3, GateAssumption DEF TypeOK
<1>. HIDE DEF n
<1>5. \A d \in Clients : cmd[d].id \in 0 .. MaxAsked
  BY <1>3 DEF TypeOK, Commands
<1>6. /\ cmd'[c].id = n /\ cmd'[c].action = a /\ pc'[c] = "sent"
      /\ \A d \in Clients : d # c => cmd'[d] = cmd[d] /\ pc'[d] = pc[d]
  BY <1>1, <1>2, <1>3 DEF TypeOK
<1>7. TypeOK'
  <2>1. [id |-> n, action |-> a] \in Commands
    BY <1>4 DEF Commands, AllActions
  <2>. QED  BY <1>1, <1>2, <1>3, <1>4, <2>1 DEF TypeOK
<1>8. NumbersInv'
  BY <1>2, <1>4, <1>5, <1>6 DEF GateInv, NumbersInv
<1>9. pending # None => pending.id \in 1 .. n /\ pending.id # n
  BY <1>4 DEF GateInv, SlotInv
<1>10. SentInv'
  <2>1. n \notin done \cup denied
    BY <1>4 DEF GateInv, NumbersInv
  <2>. QED  BY <1>2, <1>6, <1>9, <2>1 DEF GateInv, SentInv
<1>11. SlotInv'
  BY <1>2, <1>9 DEF GateInv, SlotInv
<1>12. DenyPrevails' /\ CategoriesAreConfirmed'
  BY <1>2 DEF GateInv, DenyPrevails, CategoriesAreConfirmed
<1>. QED  BY <1>7, <1>8, <1>10, <1>11, <1>12 DEF GateInv

\* The answer keeps the number of the command it is about.
LEMMA AskGate ==
    ASSUME GateInv, NEW c \in Clients, Ask(c)
    PROVE  GateInv'
<1>1. PICK said \in {"confirm", "deny"} : cmd' = [cmd EXCEPT ![c].action = said]
  BY DEF Ask
<1>2. /\ pc' = [pc EXCEPT ![c] = "answered"] /\ pc[c] = "prompt"
      /\ UNCHANGED <<file, policy, pending, asked, ran, done, denied, permitted>>
  BY DEF Ask
<1>3. TypeOK
  BY DEF GateInv
<1>4. /\ cmd'[c].id = cmd[c].id /\ cmd'[c].action = said /\ pc'[c] = "answered"
      /\ \A d \in Clients : d # c => cmd'[d] = cmd[d] /\ pc'[d] = pc[d]
  BY <1>1, <1>2, <1>3 DEF TypeOK, Commands
<1>5. TypeOK'
  <2>1. cmd' \in [Clients -> Commands]
    BY <1>1, <1>3 DEF TypeOK, Commands, AllActions
  <2>. QED  BY <1>2, <1>3, <2>1 DEF TypeOK
<1>6. NumbersInv'
  BY <1>2, <1>4 DEF GateInv, NumbersInv
<1>7. SentInv' /\ SlotInv'
  BY <1>2, <1>4 DEF GateInv, SentInv, SlotInv
<1>8. DenyPrevails' /\ CategoriesAreConfirmed'
  BY <1>2 DEF GateInv, DenyPrevails, CategoriesAreConfirmed
<1>. QED  BY <1>5, <1>6, <1>7, <1>8 DEF GateInv

\* The client of a refused answer ends.
LEMMA GiveUpGate ==
    ASSUME GateInv, NEW c \in Clients, GiveUp(c)
    PROVE  GateInv'
<1>1. /\ pc' = [pc EXCEPT ![c] = "idle"]
      /\ UNCHANGED <<file, policy, pending, cmd, asked, ran, done, denied, permitted>>
  BY DEF GiveUp
<1>2. /\ pc'[c] = "idle" /\ \A d \in Clients : d # c => pc'[d] = pc[d]
      /\ TypeOK'
  BY <1>1 DEF GateInv, TypeOK
<1>3. (NumbersInv /\ SentInv /\ SlotInv)'
  BY <1>1, <1>2 DEF GateInv, NumbersInv, SentInv, SlotInv
<1>4. DenyPrevails' /\ CategoriesAreConfirmed'
  BY <1>1 DEF GateInv, DenyPrevails, CategoriesAreConfirmed
<1>. QED  BY <1>2, <1>3, <1>4 DEF GateInv

(***************************************************************************)
(* execute_command.                                                        *)
(***************************************************************************)

\* What execute_command does whatever it decides: the policy in force is one of
\* the policies, and what it does not name is permitted from now on.
LEMMA ExecuteReads ==
    ASSUME GateInv, NEW c \in Clients, Execute(c)
    PROVE  /\ policy' \in Policies
           /\ permitted \subseteq permitted' /\ permitted' \subseteq Actions
           /\ \A a \in Actions : Verdict(a) # "deny" => a \in permitted'
           /\ UNCHANGED <<file, cmd, asked>> /\ pc[c] \in {"sent", "answered"}
           /\ \/ Verdict(cmd[c].action) = "deny" /\ Refuse(c)
              \/ Verdict(cmd[c].action) # "deny" /\ Hold(c)
              \/ /\ Verdict(cmd[c].action) # "deny" /\ ~NeedsConfirmation(cmd[c].action)
                 /\ Handle(c)
<1>1. TypeOK
  BY DEF GateInv
<1>2. policy' \in Policies
  BY <1>1 DEF Execute, Reload, TypeOK
<1>3. permitted' = permitted \cup (Actions \ policy'.deny)
  BY DEF Execute
<1>4. \A a : a \in policy'.deny => Verdict(a) = "deny"
  BY DEF Verdict, check
<1>5. /\ UNCHANGED <<file, cmd, asked>> /\ pc[c] \in {"sent", "answered"}
      /\ LET a == cmd[c].action
         IN  CASE Verdict(a) = "deny" -> Refuse(c)
               [] Verdict(a) # "deny" /\ NeedsConfirmation(a) -> Hold(c)
               [] OTHER -> Handle(c)
  BY DEF Execute
<1>6. permitted' \subseteq Actions
  BY <1>1, <1>3 DEF TypeOK
<1>. QED  BY <1>2, <1>3, <1>4, <1>5, <1>6

\* Facts that no decision changes: numbers, and what has run so far.
LEMMA SameCommands ==
    ASSUME GateInv, NEW c \in Clients, Execute(c), NEW x, pc' = [pc EXCEPT ![c] = x],
           x \in {"prompt", "refused", "idle"}
    PROVE  /\ pc' \in [Clients -> {"idle", "sent", "prompt", "answered", "refused"}]
           /\ pc'[c] = x /\ \A d \in Clients : d # c => pc'[d] = pc[d]
           /\ \A d \in Clients : cmd'[d].id = cmd[d].id /\ cmd'[d].id <= asked'
           /\ \A d \in Clients : pc'[d] # "idle" => cmd'[d].id # 0
           /\ \A d, e \in Clients : cmd'[d].id = cmd'[e].id /\ cmd'[d].id # 0 => d = e
           /\ cmd[c].id \in 1 .. asked' /\ cmd[c] \in Commands /\ cmd[c].id # 0
<1>1. cmd' = cmd /\ asked' = asked /\ pc[c] \in {"sent", "answered"}
  BY ExecuteReads
<1>2. TypeOK /\ NumbersInv
  BY DEF GateInv
<1>3. /\ pc' \in [Clients -> {"idle", "sent", "prompt", "answered", "refused"}]
      /\ pc'[c] = x /\ \A d \in Clients : d # c => pc'[d] = pc[d]
  BY <1>2 DEF TypeOK
<1>4. cmd[c] \in Commands /\ cmd[c].id # 0
  BY <1>1, <1>2 DEF TypeOK, NumbersInv
<1>5. cmd[c].id \in 1 .. asked
  BY <1>2, <1>4, GateAssumption DEF TypeOK, NumbersInv, Commands
<1>. QED  BY <1>1, <1>2, <1>3, <1>4, <1>5 DEF NumbersInv

\* A refused command leaves everything as it was; an answer that is refused
\* leaves the command in the slot.
LEMMA RefuseGate ==
    ASSUME GateInv, NEW c \in Clients, Execute(c), Refuse(c)
    PROVE  GateInv' /\ RunsWhatIsLeft
<1>. DEFINE x == IF pc[c] = "answered" THEN "refused" ELSE "idle"
<1>1. pc' = [pc EXCEPT ![c] = x] /\ UNCHANGED <<pending, ran, done, denied>>
  BY DEF Refuse
<1>2. x \in {"prompt", "refused", "idle"}
  OBVIOUS
<1>. HIDE DEF x
<1>3. /\ policy' \in Policies /\ permitted \subseteq permitted' /\ permitted' \subseteq Actions
      /\ UNCHANGED <<file, cmd, asked>>
  BY ExecuteReads
<1>4. /\ pc' \in [Clients -> {"idle", "sent", "prompt", "answered", "refused"}]
      /\ pc'[c] = x /\ \A d \in Clients : d # c => pc'[d] = pc[d]
      /\ \A d \in Clients : pc'[d] # "idle" => cmd'[d].id # 0
  BY <1>1, <1>2, SameCommands
<1>5. TypeOK'
  BY <1>1, <1>3, <1>4 DEF GateInv, TypeOK
<1>6. (NumbersInv /\ SentInv)'
  BY <1>1, <1>2, <1>3, <1>4 DEF GateInv, NumbersInv, SentInv
<1>7. (SlotInv /\ DenyPrevails /\ CategoriesAreConfirmed)'
  BY <1>1, <1>3 DEF GateInv, SlotInv, DenyPrevails, CategoriesAreConfirmed
<1>. QED  BY <1>1, <1>5, <1>6, <1>7 DEF GateInv, RunsWhatIsLeft

\* A command that was just sent goes into the slot as one that may still run;
\* an answer is none that a confirmation runs.
LEMMA HoldGate ==
    ASSUME GateInv, NEW c \in Clients, Execute(c), Hold(c), Verdict(cmd[c].action) # "deny"
    PROVE  GateInv' /\ RunsWhatIsLeft
<1>. DEFINE x == IF pc[c] = "sent" THEN "prompt" ELSE "idle"
<1>1. /\ pc' = [pc EXCEPT ![c] = x] /\ pending' = cmd[c]
      /\ UNCHANGED <<ran, done, denied>>
  BY DEF Hold
<1>2. x \in {"prompt", "refused", "idle"}
  OBVIOUS
<1>. HIDE DEF x
<1>3. /\ policy' \in Policies /\ permitted \subseteq permitted' /\ permitted' \subseteq Actions
      /\ \A a \in Actions : Verdict(a) # "deny" => a \in permitted'
      /\ UNCHANGED <<file, cmd, asked>> /\ pc[c] \in {"sent", "answered"}
  BY ExecuteReads
<1>4. /\ pc' \in [Clients -> {"idle", "sent", "prompt", "answered", "refused"}]
      /\ pc'[c] = x /\ \A d \in Clients : d # c => pc'[d] = pc[d]
      /\ \A d \in Clients : pc'[d] # "idle" => cmd'[d].id # 0
      /\ \A d, e \in Clients : cmd'[d].id = cmd'[e].id /\ cmd'[d].id # 0 => d = e
      /\ cmd[c] \in Commands /\ cmd[c].id # 0
  BY <1>1, <1>2, SameCommands
<1>5. TypeOK'
  BY <1>1, <1>3, <1>4 DEF GateInv, TypeOK
<1>6. NumbersInv'
  BY <1>1, <1>3, <1>4 DEF GateInv, NumbersInv
<1>7. SentInv'
  BY <1>1, <1>2, <1>3, <1>4 DEF GateInv, SentInv
<1>8. SlotInv'
  <2>1. cmd[c].id \in 1 .. asked
    BY <1>1, <1>2, <1>3, SameCommands
  <2>2. CASE pc[c] = "sent"
    BY <1>1, <1>3, <2>1, <2>2 DEF GateInv, SentInv, SlotInv
  <2>3. CASE pc[c] = "answered"
    <3>1. cmd[c].action \notin Actions
      BY <2>3, GateAssumption DEF GateInv, SentInv
    <3>. QED  BY <1>1, <1>3, <2>1, <3>1 DEF SlotInv
  <2>. QED  BY <1>3, <2>2, <2>3
<1>9. (DenyPrevails /\ CategoriesAreConfirmed)'
  BY <1>1, <1>3 DEF GateInv, DenyPrevails, CategoriesAreConfirmed
<1>. QED  BY <1>1, <1>5, <1>6, <1>7, <1>8, <1>9 DEF GateInv, RunsWhatIsLeft

\* An ordinary command runs at once: it was just sent, so it is not the one in
\* the slot.
LEMMA RunGate ==
    ASSUME GateInv, NEW c \in Clients, Execute(c), Handle(c), cmd[c].action \in Actions,
           Verdict(cmd[c].action) # "deny", ~NeedsConfirmation(cmd[c].action)
    PROVE  GateInv' /\ RunsWhatIsLeft
<1>. DEFINE i == cmd[c].id
            a == cmd[c].action
<1>1. a \notin {"confirm", "deny"}
  BY GateAssumption
<1>2. /\ pc' = [pc EXCEPT ![c] = "idle"] /\ UNCHANGED <<pending, denied>>
      /\ ran' = [id |-> i, action |-> a, for |-> i, confirmed |-> FALSE]
      /\ done' = done \cup {i}
  BY <1>1 DEF Handle, Handler
<1>3. /\ policy' \in Policies /\ permitted \subseteq permitted' /\ permitted' \subseteq Actions
      /\ a \in permitted' /\ UNCHANGED <<file, cmd, asked>> /\ pc[c] \in {"sent", "answered"}
  BY ExecuteReads
<1>4. /\ pc' \in [Clients -> {"idle", "sent", "prompt", "answered", "refused"}]
      /\ pc'[c] = "idle" /\ \A d \in Clients : d # c => pc'[d] = pc[d]
      /\ \A d \in Clients : pc'[d] # "idle" => cmd'[d].id # 0
      /\ \A d, e \in Clients : cmd'[d].id = cmd'[e].id /\ cmd'[d].id # 0 => d = e
      /\ i \in 1 .. asked' /\ i # 0
  BY <1>2, SameCommands
<1>5. pc[c] = "sent" /\ i \notin done \cup denied /\ (pending # None => pending.id # i)
  BY <1>1, <1>3 DEF GateInv, SentInv
<1>6. a \notin Categories
  BY <1>1 DEF NeedsConfirmation
<1>. HIDE DEF a, i
<1>7. 1 .. asked' \subseteq 1 .. MaxAsked
  BY <1>3, GateAssumption DEF GateInv, TypeOK
<1>8. TypeOK'
  BY <1>2, <1>3, <1>4, <1>7 DEF GateInv, TypeOK
<1>9. NumbersInv'
  BY <1>2, <1>3, <1>4 DEF GateInv, NumbersInv
<1>10. SentInv'
  <2>1. \A d \in Clients : d # c => cmd[d].id # i \/ cmd[d].id = 0
    BY <1>3, <1>4 DEF i
  <2>2. \A d \in Clients : pc[d] = "sent" => cmd[d].id # 0
    BY DEF GateInv, NumbersInv
  <2>. QED  BY <1>2, <1>3, <1>4, <2>1, <2>2 DEF GateInv, SentInv
<1>11. SlotInv'
  BY <1>2, <1>3, <1>5 DEF GateInv, SlotInv
<1>12. (DenyPrevails /\ CategoriesAreConfirmed)'
  BY <1>2, <1>3, <1>6 DEF DenyPrevails, CategoriesAreConfirmed
<1>13. RunsWhatIsLeft
  BY <1>2, <1>5 DEF RunsWhatIsLeft
<1>. QED  BY <1>8, <1>9, <1>10, <1>11, <1>12, <1>13 DEF GateInv

\* A confirmation empties the slot and runs what was in it, unless that is an
\* answer itself.
LEMMA ConfirmGate ==
    ASSUME GateInv, NEW c \in Clients, Execute(c), Handle(c), cmd[c].action = "confirm"
    PROVE  GateInv' /\ RunsWhatIsLeft
<1>1. /\ pc' = [pc EXCEPT ![c] = "idle"] /\ pending' = None /\ denied' = denied
      /\ IF pending # None /\ pending.action \in Actions
         THEN Handler(pending, c, TRUE) ELSE UNCHANGED <<ran, done>>
  BY DEF Handle, handle_confirm
<1>2. /\ policy' \in Policies /\ permitted \subseteq permitted' /\ permitted' \subseteq Actions
      /\ UNCHANGED <<file, cmd, asked>> /\ pc[c] \in {"sent", "answered"}
  BY ExecuteReads
<1>3. /\ pc' \in [Clients -> {"idle", "sent", "prompt", "answered", "refused"}]
      /\ pc'[c] = "idle" /\ \A d \in Clients : d # c => pc'[d] = pc[d]
      /\ \A d \in Clients : pc'[d] # "idle" => cmd'[d].id # 0
  BY <1>1, SameCommands
<1>4. CASE pending # None /\ pending.action \in Actions
  <2>. DEFINE i == pending.id
              a == pending.action
  <2>1. /\ ran' = [id |-> i, action |-> a, for |-> cmd[c].id, confirmed |-> TRUE]
        /\ done' = done \cup {i}
    BY <1>1, <1>4 DEF Handler
  <2>2. i \notin done \cup denied /\ a \in permitted /\ i \in 1 .. asked
    BY <1>4 DEF GateInv, SlotInv
  <2>. HIDE DEF i, a
  <2>3. 1 .. asked \subseteq 1 .. MaxAsked
    BY GateAssumption DEF GateInv, TypeOK
  <2>4. TypeOK'
    BY <1>1, <1>2, <1>3, <2>1, <2>2, <2>3 DEF GateInv, TypeOK
  <2>5. NumbersInv'
    BY <1>1, <1>2, <1>3, <2>1, <2>2 DEF GateInv, NumbersInv
  <2>6. SentInv'
    BY <1>1, <1>2, <1>3, <1>4, <2>1 DEF GateInv, SentInv, i
  <2>7. SlotInv'
    BY <1>1 DEF SlotInv
  <2>8. (DenyPrevails /\ CategoriesAreConfirmed)'
    BY <1>2, <2>1, <2>2 DEF DenyPrevails, CategoriesAreConfirmed
  <2>9. RunsWhatIsLeft
    BY <2>1, <2>2 DEF RunsWhatIsLeft
  <2>. QED  BY <2>4, <2>5, <2>6, <2>7, <2>8, <2>9 DEF GateInv
<1>5. CASE ~(pending # None /\ pending.action \in Actions)
  <2>1. ran' = ran /\ done' = done
    BY <1>1, <1>5
  <2>2. TypeOK'
    BY <1>1, <1>2, <1>3, <2>1 DEF GateInv, TypeOK
  <2>3. NumbersInv' /\ SentInv' /\ SlotInv'
    BY <1>1, <1>2, <1>3, <2>1 DEF GateInv, NumbersInv, SentInv, SlotInv
  <2>4. (DenyPrevails /\ CategoriesAreConfirmed)'
    BY <1>2, <2>1 DEF GateInv, DenyPrevails, CategoriesAreConfirmed
  <2>. QED  BY <2>1, <2>2, <2>3, <2>4 DEF GateInv, RunsWhatIsLeft
<1>. QED  BY <1>4, <1>5

\* A denial empties the slot, whosever command is in it, so that none waits
\* there that was denied.
LEMMA DenyGate ==
    ASSUME GateInv, NEW c \in Clients, Execute(c), Handle(c), cmd[c].action = "deny"
    PROVE  GateInv' /\ RunsWhatIsLeft
<1>. DEFINE i == cmd[c].id
<1>1. /\ pc' = [pc EXCEPT ![c] = "idle"] /\ pending' = None /\ denied' = denied \cup {i}
      /\ ran' = ran /\ done' = done
  BY DEF Handle, handle_deny
<1>2. /\ policy' \in Policies /\ permitted \subseteq permitted' /\ permitted' \subseteq Actions
      /\ UNCHANGED <<file, cmd, asked>> /\ pc[c] \in {"sent", "answered"}
  BY ExecuteReads
<1>3. /\ pc' \in [Clients -> {"idle", "sent", "prompt", "answered", "refused"}]
      /\ pc'[c] = "idle" /\ \A d \in Clients : d # c => pc'[d] = pc[d]
      /\ \A d \in Clients : pc'[d] # "idle" => cmd'[d].id # 0
      /\ \A d, e \in Clients : cmd'[d].id = cmd'[e].id /\ cmd'[d].id # 0 => d = e
      /\ i \in 1 .. asked'
  BY <1>1, SameCommands
<1>. HIDE DEF i
<1>4. 1 .. asked' \subseteq 1 .. MaxAsked
  BY <1>2, GateAssumption DEF GateInv, TypeOK
<1>5. TypeOK'
  BY <1>1, <1>2, <1>3, <1>4 DEF GateInv, TypeOK
<1>6. NumbersInv' /\ SlotInv'
  BY <1>1, <1>2, <1>3 DEF GateInv, NumbersInv, SlotInv
<1>7. SentInv'
  <2>1. \A d \in Clients : d # c => cmd[d].id # i \/ cmd[d].id = 0
    BY <1>2, <1>3 DEF i
  <2>2. \A d \in Clients : pc[d] = "sent" => cmd[d].id # 0
    BY DEF GateInv, NumbersInv
  <2>. QED  BY <1>1, <1>2, <1>3, <2>1, <2>2 DEF GateInv, SentInv
<1>8. (DenyPrevails /\ CategoriesAreConfirmed)'
  BY <1>1, <1>2 DEF GateInv, DenyPrevails, CategoriesAreConfirmed
<1>. QED  BY <1>1, <1>5, <1>6, <1>7, <1>8 DEF GateInv, RunsWhatIsLeft

\* Whatever execute_command decides.
LEMMA ExecuteGate ==
    ASSUME GateInv, NEW c \in Clients, Execute(c)
    PROVE  GateInv' /\ RunsWhatIsLeft
<1>1. cmd[c].action \in Actions \/ cmd[c].action = "confirm" \/ cmd[c].action = "deny"
  BY DEF GateInv, TypeOK, Commands, AllActions
<1>2. \/ Refuse(c)
      \/ Verdict(cmd[c].action) # "deny" /\ Hold(c)
      \/ /\ Verdict(cmd[c].action) # "deny" /\ ~NeedsConfirmation(cmd[c].action)
         /\ Handle(c)
  BY ExecuteReads
<1>. QED  BY <1>1, <1>2, RefuseGate, HoldGate, RunGate, ConfirmGate, DenyGate

(***************************************************************************)
(* The theorem.                                                            *)
(***************************************************************************)

\* Every step keeps the invariant and runs only what may still run.
LEMMA NextGate == GateInv /\ [Next]_vars => GateInv' /\ [RunsWhatIsLeft]_vars
<1>. SUFFICES ASSUME GateInv, [Next]_vars PROVE GateInv' /\ [RunsWhatIsLeft]_vars
  OBVIOUS
<1>1. CASE Edit
  BY <1>1, EditGate DEF Edit, RunsWhatIsLeft
<1>2. ASSUME NEW c \in Clients, Send(c)
      PROVE  GateInv' /\ RunsWhatIsLeft
  BY <1>2, SendGate DEF Send, RunsWhatIsLeft
<1>3. ASSUME NEW c \in Clients, Ask(c)
      PROVE  GateInv' /\ RunsWhatIsLeft
  BY <1>3, AskGate DEF Ask, RunsWhatIsLeft
<1>4. ASSUME NEW c \in Clients, Execute(c)
      PROVE  GateInv' /\ RunsWhatIsLeft
  BY <1>4, ExecuteGate
<1>5. ASSUME NEW c \in Clients, GiveUp(c)
      PROVE  GateInv' /\ RunsWhatIsLeft
  BY <1>5, GiveUpGate DEF GiveUp, RunsWhatIsLeft
<1>6. CASE UNCHANGED vars
  BY <1>6 DEF vars, GateInv, TypeOK, NumbersInv, SentInv, SlotInv, DenyPrevails,
              CategoriesAreConfirmed
<1>. QED  BY <1>1, <1>2, <1>3, <1>4, <1>5, <1>6 DEF Next

(***************************************************************************)
(* Whatever policies the file goes through and however the commands and    *)
(* answers of the clients interleave in the one slot: the deny list        *)
(* prevails, categories are confirmed, and no command runs twice or after  *)
(* its client's deny.                                                      *)
(***************************************************************************)
THEOREM GateIsKept == Spec => GateHolds
<1>1. Init /\ [][Next]_vars => []GateInv /\ [][RunsWhatIsLeft]_vars
  BY InitGate, NextGate, PTL
<1>2. GateInv => TypeOK /\ DenyPrevails /\ CategoriesAreConfirmed
  BY DEF GateInv
<1>. QED  BY <1>1, <1>2, PTL DEF Spec, GateHolds

(***************************************************************************)
(* DaemonLifecycle, part "daemon": for any clients and daemons and any     *)
(* number of retries and polls.                                            *)
(***************************************************************************)

\* The variables of the part, named as the component names them.

sock == v1
pid == v2
ver == v3
st == v4
version == v5
term == v6
client == v7
reqs == v8
foreign == v9
faults == v10
raced == v11
USE DEF sock, pid, ver, st, version, term, client, reqs, foreign,
        faults, raced

DlPlaces == {"idle", "probe", "reprobe", "kill", "wait", "clean", "unlink", "spawn", "poll", "walk",
             "send", "await", "force", "done"}
DlClient == [pc : DlPlaces, cmd : Daemon!Commands, child : Daemon!Pids, victim : Daemon!Pids, conn : Daemon!Pids,
             n : Nat, res : {"none", "ok", "exited", "late", "unreachable"}]
DlStates == {"none", "boot", "named", "unlinked", "listening", "closing", "leaving", "unlinking", "dead"}

DlFiles ==
    /\ sock \in Daemon!Pids /\ pid \in Daemon!Pids /\ ver \in {None, Daemon!Current, "old"}
    /\ st \in [Daemons -> DlStates] /\ version \in [Daemons -> {Daemon!Current, "old"}]
    /\ term \subseteq Daemons /\ foreign \subseteq Daemons /\ raced \in BOOLEAN
    /\ reqs \subseteq [d : Daemons, c : Clients, n : Nat]

\* Polls and retries are counted: n starts from 0 for both.
DlCountOf(c) ==
    /\ client[c].pc = "poll" => client[c].n <= ClientPolls
    /\ client[c].pc \in {"send", "await", "force"} => client[c].n < MaxRetries
    /\ client[c].pc \notin {"poll", "send", "await", "force", "done"} => client[c].n = 0
    /\ client[c].pc = "done" => client[c].n <= ClientPolls
    /\ client[c].pc = "force" => client[c].cmd = "closeAll"
    /\ client[c].pc \in {"probe", "reprobe", "kill", "wait", "clean", "unlink", "spawn", "poll"}
         => client[c].cmd # "closeAll"
DlCounts == \A c \in Clients : DlCountOf(c)

DlTypes == DlFiles /\ client \in [Clients -> DlClient] /\ DlCounts

\* What holds of the daemons as long as no two clients looked for one at a time
\* and nobody looked while one was coming or going.
DlCalm ==
    /\ \A c, e \in Clients : Daemon!Looking(c) /\ Daemon!Looking(e) => c = e
    /\ \A d, e \in Daemons : Daemon!Alive(d) /\ Daemon!Alive(e) => d = e
    /\ \A d \in Daemons : Daemon!Alive(d) /\ st[d] # "boot" => pid = d /\ ver = version[d]
    /\ \A d \in Daemons : st[d] \in {"listening", "closing"} => sock = d \/ Daemon!BeingKilled(d)
    /\ \A c \in Clients, d \in Daemons : Daemon!Alive(d) =>
          /\ client[c].pc \notin {"clean", "unlink", "spawn"}
          /\ client[c].pc = "wait" => client[c].victim = d
          /\ client[c].pc = "kill" => st[d] \in {"listening", "closing", "leaving", "unlinking"}
          /\ client[c].cmd = "closeAll" /\ client[c].pc \in {"send", "await", "force"}
               => client[c].victim = d

DlInv == DlTypes /\ (~raced => DlCalm)

\* The records of the other clients stay as they are.
DlOthers(c) == \A e \in Clients : e # c => client'[e] = client[e]

\* connection.rs: a client that moves on changes nothing but where it is.
LEMMA DlGoto ==
    ASSUME client \in [Clients -> DlClient], NEW c \in Clients, NEW p \in DlPlaces, Daemon!Goto(c, p)
    PROVE  /\ client' \in [Clients -> DlClient] /\ DlOthers(c)
           /\ client'[c] = [client[c] EXCEPT !.pc = p]
    BY DEF Daemon!Goto, DlClient, DlOthers

\* connection.rs: a client that is done keeps its command and forgets the rest.
LEMMA DlFinish ==
    ASSUME client \in [Clients -> DlClient], NEW c \in Clients,
           NEW r \in {"ok", "unreachable"}, Daemon!Finish(c, r)
    PROVE  /\ client' \in [Clients -> DlClient] /\ DlOthers(c)
           /\ client'[c].pc = "done" /\ client'[c].n = 0 /\ client'[c].cmd = client[c].cmd
<1>1. DlOthers(c) /\ client'[c].pc = "done" /\ client'[c].n = 0 /\ client'[c].cmd = client[c].cmd
    BY DEF Daemon!Finish, DlClient, DlOthers
<1>2. None \in Daemon!Pids /\ client[c] \in DlClient
    BY DEF Daemon!Pids
<1>3. [client[c] EXCEPT !.pc = "done"] \in DlClient
    BY <1>2 DEF DlClient, DlPlaces
<1>4. \A q \in DlClient : [q EXCEPT !.res = r] \in DlClient
    BY DEF DlClient
<1>5. \A q \in DlClient : [q EXCEPT !.n = 0] \in DlClient
    BY DEF DlClient
<1>6. \A q \in DlClient : [q EXCEPT !.victim = None] \in DlClient
    BY <1>2 DEF DlClient
<1>7. client'[c] = [[[[client[c] EXCEPT !.pc = "done"] EXCEPT !.res = r] EXCEPT !.n = 0] EXCEPT !.victim = None]
    BY DEF Daemon!Finish, DlClient
<1>8. client'[c] \in DlClient
    BY <1>3, <1>4, <1>5, <1>6, <1>7
<1>9. client' = [e \in Clients |-> client'[e]]
    BY DEF Daemon!Finish
<1>. QED  BY <1>1, <1>8, <1>9 DEF DlOthers

\* What one client is afterwards, within its bounds, is enough when the records of
\* the others stay.
LEMMA DlOneClient ==
    ASSUME DlTypes, NEW c \in Clients, client' = [e \in Clients |-> client'[e]],
           DlOthers(c), client'[c] \in DlClient, DlCountOf(c)'
    PROVE  client' \in [Clients -> DlClient] /\ DlOthers(c) /\ DlCounts'
<1>1. \A e \in Clients : client'[e] \in DlClient
    BY DEF DlTypes, DlOthers
<1>2. \A e \in Clients : DlCountOf(e)'
    BY DEF DlTypes, DlCounts, DlCountOf, DlOthers
<1>. QED  BY <1>1, <1>2 DEF DlCounts

\* Every step of a client changes its own record only, and keeps the counters
\* within their bounds.
LEMMA DlClientMoves ==
    ASSUME DlTypes, NEW c \in Clients, Daemon!Start(c) \/ Daemon!ClientStep(c)
    PROVE  client' \in [Clients -> DlClient] /\ DlOthers(c) /\ DlCounts'
<1>. USE DaemonAssumption DEF DlTypes
<1>. DEFINE Fits == client' \in [Clients -> DlClient] /\ DlOthers(c) /\ DlCounts'
<1>1. ASSUME NEW p \in DlPlaces, Daemon!Goto(c, p), p \notin {"force", "done"},
             p # "poll", client[c].n = 0, client[c].cmd # "closeAll"
      PROVE  Fits
    <2>1. client' \in [Clients -> DlClient] /\ DlOthers(c) /\ client'[c] = [client[c] EXCEPT !.pc = p]
        BY <1>1, DlGoto
    <2>2. client'[c].pc = p /\ client'[c].n = 0 /\ client'[c].cmd # "closeAll"
        BY <1>1, <2>1 DEF DlClient
    <2>3. DlCountOf(c)'
        BY <1>1, <2>2 DEF DlCountOf
    <2>. QED  BY <2>1, <2>3, DlOneClient
<1>2. ASSUME NEW r \in {"ok", "unreachable"}, Daemon!Finish(c, r)
      PROVE  Fits
    <2>1. client' \in [Clients -> DlClient] /\ DlOthers(c) /\ DlCountOf(c)'
        BY <1>2, DlFinish DEF DlCountOf
    <2>. QED  BY <2>1, DlOneClient
<1>3. ASSUME client[c].pc \in {"send", "await"}, Daemon!Retry(c)
      PROVE  Fits
    <2>1. CASE client[c].n + 1 < MaxRetries
        <3>1. client' = [client EXCEPT ![c].n = @ + 1, ![c].pc = "send"]
            BY <1>3, <2>1 DEF Daemon!Retry
        <3>2. DlOthers(c) /\ client'[c].pc = "send" /\ client'[c].n = client[c].n + 1
            BY <3>1 DEF DlClient, DlOthers
        <3>3. \A q \in DlClient : [q EXCEPT !.pc = "send"] \in DlClient
            BY DEF DlClient, DlPlaces
        <3>4. [client[c] EXCEPT !.n = client[c].n + 1] \in DlClient
            BY DEF DlClient
        <3>5. client'[c] = [[client[c] EXCEPT !.n = client[c].n + 1] EXCEPT !.pc = "send"]
            BY <3>1 DEF DlClient
        <3>6. client' = [e \in Clients |-> client'[e]]
            BY <3>1
        <3>7. client'[c] \in DlClient
            BY <3>3, <3>4, <3>5
        <3>8. DlCountOf(c)'
            BY <2>1, <3>2 DEF DlCountOf, DlCounts
        <3>. QED  BY <3>2, <3>6, <3>7, <3>8, DlOneClient
    <2>2. CASE ~(client[c].n + 1 < MaxRetries) /\ client[c].cmd = "closeAll"
        <3>1. Daemon!Goto(c, "force")
            BY <1>3, <2>2 DEF Daemon!Retry
        <3>2. client' \in [Clients -> DlClient] /\ DlOthers(c) /\ client'[c] = [client[c] EXCEPT !.pc = "force"]
            BY <3>1, DlGoto DEF DlPlaces
        <3>3. client'[c].pc = "force" /\ client'[c].n = client[c].n /\ client'[c].cmd = "closeAll"
            BY <2>2, <3>2 DEF DlClient
        <3>4. DlCountOf(c)'
            BY <1>3, <3>3 DEF DlCountOf, DlCounts
        <3>. QED  BY <3>2, <3>4, DlOneClient
    <2>3. CASE ~(client[c].n + 1 < MaxRetries) /\ client[c].cmd # "closeAll"
        BY <1>2, <1>3, <2>3 DEF Daemon!Retry
    <2>. QED  BY <2>1, <2>2, <2>3
<1>4. CASE Daemon!Start(c)
    <2>1. PICK k \in Daemon!Commands :
              client' = [client EXCEPT ![c].cmd = k, ![c].pc = IF k = "closeAll" THEN "walk" ELSE "probe"]
        BY <1>4 DEF Daemon!Start
    <2>2. DlOthers(c) /\ client'[c].pc \in {"walk", "probe"} /\ client'[c].n = client[c].n
          /\ (client'[c].pc = "probe" => client'[c].cmd # "closeAll")
        BY <2>1 DEF DlClient, DlOthers
    <2>3. \A q \in DlClient : [q EXCEPT !.pc = IF k = "closeAll" THEN "walk" ELSE "probe"] \in DlClient
        BY DEF DlClient, DlPlaces
    <2>4. [client[c] EXCEPT !.cmd = k] \in DlClient
        BY DEF DlClient
    <2>5. client'[c] = [[client[c] EXCEPT !.cmd = k] EXCEPT !.pc = IF k = "closeAll" THEN "walk" ELSE "probe"]
        BY <2>1 DEF DlClient
    <2>6. client' = [e \in Clients |-> client'[e]]
        BY <2>1
    <2>7. client'[c] \in DlClient
        BY <2>3, <2>4, <2>5
    <2>8. DlCountOf(c)'
        BY <1>4, <2>2 DEF DlCountOf, DlCounts, Daemon!Start
    <2>. QED  BY <2>2, <2>6, <2>7, <2>8, DlOneClient
<1>5. CASE Daemon!Probe(c) \/ Daemon!Reprobe(c) \/ Daemon!KillWait(c) \/ Daemon!Clean(c) \/ Daemon!Unlink(c)
    <2>1. PICK p \in DlPlaces : p \notin {"force", "done", "poll"} /\ Daemon!Goto(c, p)
        BY <1>5 DEF Daemon!Probe, Daemon!Reprobe, Daemon!KillWait, Daemon!Clean, Daemon!Unlink, DlPlaces
    <2>2. client[c].n = 0 /\ client[c].cmd # "closeAll"
        BY <1>5 DEF Daemon!Probe, Daemon!Reprobe, Daemon!KillWait, Daemon!Clean, Daemon!Unlink, DlCounts, DlCountOf
    <2>. QED  BY <1>1, <2>1, <2>2
<1>6. CASE Daemon!Kill(c)
    <2>1. CASE pid = None
        BY <1>1, <1>6, <2>1 DEF Daemon!Kill, DlCounts, DlCountOf, DlPlaces
    <2>2. CASE pid # None
        <3>1. client' = [client EXCEPT ![c].pc = "wait", ![c].victim = pid] /\ pid \in Daemon!Pids
            BY <1>6, <2>2 DEF Daemon!Kill, DlFiles
        <3>2. DlOthers(c) /\ client'[c].pc = "wait" /\ client'[c].n = client[c].n /\ client'[c].cmd = client[c].cmd
            BY <3>1 DEF DlClient, DlOthers
        <3>3. \A q \in DlClient : [q EXCEPT !.victim = pid] \in DlClient
            BY <3>1 DEF DlClient
        <3>4. [client[c] EXCEPT !.pc = "wait"] \in DlClient
            BY DEF DlClient, DlPlaces
        <3>5. client'[c] = [[client[c] EXCEPT !.pc = "wait"] EXCEPT !.victim = pid]
            BY <3>1 DEF DlClient
        <3>6. client' = [e \in Clients |-> client'[e]]
            BY <3>1
        <3>7. client'[c] \in DlClient
            BY <3>3, <3>4, <3>5
        <3>8. DlCountOf(c)'
            BY <1>6, <3>2 DEF DlCountOf, DlCounts, Daemon!Kill
        <3>. QED  BY <3>2, <3>6, <3>7, <3>8, DlOneClient
    <2>. QED  BY <2>1, <2>2
<1>7. CASE Daemon!Spawn(c)
    <2>1. PICK d \in Daemons : client' = [client EXCEPT ![c].pc = "poll", ![c].child = d]
        BY <1>7 DEF Daemon!Spawn
    <2>2. DlOthers(c) /\ client'[c].pc = "poll" /\ client'[c].n = client[c].n /\ client'[c].cmd = client[c].cmd
        BY <2>1 DEF DlClient, DlOthers
    <2>3. \A q \in DlClient : [q EXCEPT !.child = d] \in DlClient
        BY DEF DlClient, Daemon!Pids
    <2>4. [client[c] EXCEPT !.pc = "poll"] \in DlClient
        BY DEF DlClient, DlPlaces
    <2>5. client'[c] = [[client[c] EXCEPT !.pc = "poll"] EXCEPT !.child = d]
        BY <2>1 DEF DlClient
    <2>6. client' = [e \in Clients |-> client'[e]]
        BY <2>1
    <2>7. client'[c] \in DlClient
        BY <2>3, <2>4, <2>5
    <2>8. DlCountOf(c)'
        BY <1>7, <2>2 DEF DlCountOf, DlCounts, Daemon!Spawn
    <2>. QED  BY <2>2, <2>6, <2>7, <2>8, DlOneClient
<1>8. CASE Daemon!Poll(c)
    <2>1. ASSUME NEW r \in {"exited", "late"}, client' = [client EXCEPT ![c].pc = "done", ![c].res = r]
          PROVE  Fits
        <3>2. DlOthers(c) /\ client'[c].pc = "done" /\ client'[c].n = client[c].n /\ client'[c].cmd = client[c].cmd
            BY <2>1 DEF DlClient, DlOthers
        <3>3. \A q \in DlClient : [q EXCEPT !.res = r] \in DlClient
            BY DEF DlClient
        <3>4. [client[c] EXCEPT !.pc = "done"] \in DlClient
            BY DEF DlClient, DlPlaces
        <3>5. client'[c] = [[client[c] EXCEPT !.pc = "done"] EXCEPT !.res = r]
            BY <2>1 DEF DlClient
        <3>6. client' = [e \in Clients |-> client'[e]]
            BY <2>1
        <3>7. client'[c] \in DlClient
            BY <3>3, <3>4, <3>5
        <3>8. DlCountOf(c)'
            BY <1>8, <3>2 DEF DlCountOf, DlCounts, Daemon!Poll
        <3>. QED  BY <3>2, <3>6, <3>7, <3>8, DlOneClient
    <2>2. CASE client' = [client EXCEPT ![c].pc = "send", ![c].n = 0]
        <3>2. DlOthers(c) /\ client'[c].pc = "send" /\ client'[c].n = 0
            BY <2>2 DEF DlClient, DlOthers
        <3>3. \A q \in DlClient : [q EXCEPT !.n = 0] \in DlClient
            BY DEF DlClient
        <3>4. [client[c] EXCEPT !.pc = "send"] \in DlClient
            BY DEF DlClient, DlPlaces
        <3>5. client'[c] = [[client[c] EXCEPT !.pc = "send"] EXCEPT !.n = 0]
            BY <2>2 DEF DlClient
        <3>6. client' = [e \in Clients |-> client'[e]]
            BY <2>2
        <3>7. client'[c] \in DlClient
            BY <3>3, <3>4, <3>5
        <3>8. DlCountOf(c)'
            BY <3>2 DEF DlCountOf, DlCounts
        <3>. QED  BY <3>2, <3>6, <3>7, <3>8, DlOneClient
    <2>3. CASE client' = [client EXCEPT ![c].n = @ + 1] /\ client[c].n # ClientPolls
        <3>1. client' \in [Clients -> DlClient] /\ DlOthers(c)
              /\ client'[c].pc = "poll" /\ client'[c].n = client[c].n + 1 /\ client[c].n \in Nat
              /\ client'[c].cmd = client[c].cmd
            BY <1>8, <2>3 DEF DlClient, DlOthers, Daemon!Poll
        <3>2. client[c].n <= ClientPolls
            BY <1>8 DEF Daemon!Poll, DlCounts, DlCountOf
        <3>3. DlCountOf(c)'
            BY <1>8, <2>3, <3>1, <3>2 DEF DlCountOf, DlCounts, Daemon!Poll
        <3>. QED  BY <3>1, <3>3, DlOneClient
    <2>. QED  BY <1>8, <2>1, <2>2, <2>3 DEF Daemon!Poll, Daemon!BindErrorInPipe
<1>9. CASE Daemon!Walk(c)
    <2>1. CASE Daemon!Finish(c, "ok")
        BY <1>2, <2>1
    <2>2. CASE client' = [client EXCEPT ![c].pc = "send", ![c].victim = pid]
        <3>2. DlOthers(c) /\ client'[c].pc = "send" /\ client'[c].n = client[c].n /\ client'[c].cmd = client[c].cmd
            BY <2>2 DEF DlClient, DlOthers
        <3>3. \A q \in DlClient : [q EXCEPT !.victim = pid] \in DlClient
            BY DEF DlClient, DlFiles
        <3>4. [client[c] EXCEPT !.pc = "send"] \in DlClient
            BY DEF DlClient, DlPlaces
        <3>5. client'[c] = [[client[c] EXCEPT !.pc = "send"] EXCEPT !.victim = pid]
            BY <2>2 DEF DlClient
        <3>6. client' = [e \in Clients |-> client'[e]]
            BY <2>2
        <3>7. client'[c] \in DlClient
            BY <3>3, <3>4, <3>5
        <3>8. DlCountOf(c)'
            BY <1>9, <3>2 DEF DlCountOf, DlCounts, Daemon!Walk
        <3>. QED  BY <3>2, <3>6, <3>7, <3>8, DlOneClient
    <2>. QED  BY <1>9, <2>1, <2>2 DEF Daemon!Walk
<1>10. CASE Daemon!Send(c)
    <2>1. CASE Daemon!Retry(c)
        BY <1>3, <1>10, <2>1 DEF Daemon!Send
    <2>2. CASE client' = [client EXCEPT ![c].pc = "await", ![c].conn = sock]
        <3>2. DlOthers(c) /\ client'[c].pc = "await" /\ client'[c].n = client[c].n /\ client'[c].cmd = client[c].cmd
            BY <2>2 DEF DlClient, DlOthers
        <3>3. \A q \in DlClient : [q EXCEPT !.conn = sock] \in DlClient
            BY DEF DlClient, DlFiles
        <3>4. [client[c] EXCEPT !.pc = "await"] \in DlClient
            BY DEF DlClient, DlPlaces
        <3>5. client'[c] = [[client[c] EXCEPT !.pc = "await"] EXCEPT !.conn = sock]
            BY <2>2 DEF DlClient
        <3>6. client' = [e \in Clients |-> client'[e]]
            BY <2>2
        <3>7. client'[c] \in DlClient
            BY <3>3, <3>4, <3>5
        <3>8. DlCountOf(c)'
            BY <1>10, <3>2 DEF DlCountOf, DlCounts, Daemon!Send
        <3>. QED  BY <3>2, <3>6, <3>7, <3>8, DlOneClient
    <2>. QED  BY <1>10, <2>1, <2>2 DEF Daemon!Send
<1>11. CASE Daemon!NoAnswer(c)
    BY <1>3, <1>11 DEF Daemon!NoAnswer
<1>12. CASE Daemon!ForceClose(c)
    BY <1>2, <1>12 DEF Daemon!ForceClose
<1>. QED  BY <1>4, <1>5, <1>6, <1>7, <1>8, <1>9, <1>10, <1>11, <1>12 DEF Daemon!ClientStep

\* What a signal does to the process of that pid.
LEMMA DlSignal ==
    ASSUME DlFiles, NEW d \in Daemon!Pids, NEW sig \in {"term", "kill"}, Daemon!Signal(d, sig)
    PROVE  /\ st' \in [Daemons -> DlStates]
           /\ \A e \in Daemons : Daemon!Alive(e)' => Daemon!Alive(e) /\ st'[e] = st[e]
           /\ sig = "kill" => term' = term /\ \A e \in Daemons : Daemon!Alive(e)' => e # d
           /\ sig = "term" => st' = st /\ term' \subseteq term \cup {d}
<1>1. st' \in [Daemons -> DlStates]
    BY DEF Daemon!Signal, DlFiles, DlStates
<1>2. \A e \in Daemons : Daemon!Alive(e)' => Daemon!Alive(e) /\ st'[e] = st[e]
    BY DEF Daemon!Signal, DlFiles, Daemon!Alive
<1>3. sig = "kill" => term' = term /\ \A e \in Daemons : Daemon!Alive(e)' => e # d
    BY DEF Daemon!Signal, DlFiles, Daemon!Alive
<1>4. sig = "term" => st' = st /\ term' \subseteq term \cup {d}
    BY DEF Daemon!Signal, DlFiles
<1>. QED  BY <1>1, <1>2, <1>3, <1>4

\* connection.rs and daemon.rs: whatever clients, daemons and faults do, the files
\* name a daemon or none, and every daemon is at a known place.
LEMMA DlFilesStep ==
    ASSUME DlTypes, [Daemon!Next]_(Daemon!vars)
    PROVE  DlFiles'
<1>. USE DaemonAssumption DEF DlTypes, DlFiles
<1>0. None \in Daemon!Pids /\ Daemons \subseteq Daemon!Pids /\ Daemon!Ready \in BOOLEAN
    BY DEF Daemon!Pids, Daemon!Ready
<1>1. CASE UNCHANGED Daemon!vars
    BY <1>1 DEF Daemon!vars
<1>2. ASSUME NEW c \in Clients, Daemon!Start(c) \/ Daemon!ClientStep(c)  PROVE DlFiles'
    <2>1. CASE Daemon!Start(c)
        BY <2>1 DEF Daemon!Start, Daemon!daemonVars
    <2>2. CASE Daemon!Probe(c) \/ Daemon!Reprobe(c)
        BY <2>2 DEF Daemon!Probe, Daemon!Reprobe, Daemon!daemonVars, Daemon!Missed
    <2>3. CASE Daemon!Kill(c)
        <3>1. st' \in [Daemons -> DlStates] /\ term' \subseteq Daemons
            BY <2>3, DlSignal DEF Daemon!Kill, Daemon!Pids
        <3>. QED  BY <1>0, <2>3, <3>1 DEF Daemon!Kill
    <2>4. CASE Daemon!KillWait(c)
        <3>1. client[c].victim \in Daemon!Pids
            BY DEF DlClient
        <3>2. st' \in [Daemons -> DlStates] /\ term' = term
            BY <2>4, <3>1, DlSignal DEF Daemon!KillWait
        <3>. QED  BY <2>4, <3>2 DEF Daemon!KillWait
    <2>5. CASE Daemon!Clean(c) \/ Daemon!Unlink(c)
        BY <1>0, <2>5 DEF Daemon!Clean, Daemon!Unlink, Daemon!daemonVars
    <2>6. CASE Daemon!Spawn(c)
        BY <2>6 DEF Daemon!Spawn, DlStates
    <2>7. CASE Daemon!Poll(c) \/ Daemon!NoAnswer(c)
        BY <2>7 DEF Daemon!Poll, Daemon!NoAnswer, Daemon!daemonVars
    <2>8. CASE Daemon!Walk(c)
        BY <1>0, <2>8 DEF Daemon!Walk, Daemon!daemonVars, Daemon!Missed
    <2>9. CASE Daemon!Send(c)
        <3>1. CASE ~Daemon!Ready
            BY <2>9, <3>1 DEF Daemon!Send, Daemon!daemonVars
        <3>2. CASE Daemon!Ready
            <4>1. sock \in Daemons /\ client[c].n \in Nat
                BY <3>2 DEF Daemon!Ready, Daemon!Pids, DlClient
            <4>. QED  BY <2>9, <3>2, <4>1 DEF Daemon!Send, Daemon!daemonVars
        <3>. QED  BY <3>1, <3>2
    <2>10. CASE Daemon!ForceClose(c)
        <3>1. client[c].victim \in Daemon!Pids
            BY DEF DlClient
        <3>2. st' \in [Daemons -> DlStates] /\ term' = term
            BY <2>10, <3>1, DlSignal DEF Daemon!ForceClose
        <3>. QED  BY <1>0, <2>10, <3>2 DEF Daemon!ForceClose
    <2>. QED  BY <1>2, <2>1, <2>2, <2>3, <2>4, <2>5, <2>6, <2>7, <2>8, <2>9, <2>10 DEF Daemon!ClientStep
<1>3. ASSUME NEW d \in Daemons, Daemon!DaemonStep(d) \/ Daemon!Fault(d) \/ Daemon!PidReused(d)  PROVE DlFiles'
    <2>. USE <1>0 DEF DlStates
    <2>1. CASE Daemon!WritePid(d)
        BY <2>1 DEF Daemon!WritePid, Daemon!Step
    <2>2. CASE Daemon!RemoveOldSocket(d)
        BY <2>2 DEF Daemon!RemoveOldSocket, Daemon!Step
    <2>3. CASE Daemon!Bind(d)
        BY <2>3 DEF Daemon!Bind, Daemon!Step
    <2>4. CASE Daemon!CloseNotified(d)
        BY <2>4 DEF Daemon!CloseNotified, Daemon!Step
    <2>5. CASE Daemon!Terminated(d)
        BY <2>5 DEF Daemon!Terminated
    <2>6. CASE Daemon!RemoveSocket(d)
        BY <2>6 DEF Daemon!RemoveSocket, Daemon!Step
    <2>7. CASE Daemon!RemoveRest(d)
        BY <2>7 DEF Daemon!RemoveRest, Daemon!Step
    <2>8. CASE Daemon!Fault(d)
        BY <2>8 DEF Daemon!Fault
    <2>9. CASE Daemon!PidReused(d)
        BY <2>9 DEF Daemon!PidReused, Daemon!daemonVars
    <2>. QED  BY <1>3, <2>1, <2>2, <2>3, <2>4, <2>5, <2>6, <2>7, <2>8, <2>9 DEF Daemon!DaemonStep
<1>4. ASSUME NEW r \in reqs, Daemon!Serve(r)  PROVE DlFiles'
    BY <1>4 DEF Daemon!Serve, DlStates
<1>. QED  BY <1>1, <1>2, <1>3, <1>4 DEF Daemon!Next, Daemon!Done

\* Every step keeps what is said of files, clients and counters.
LEMMA DlTypesStep ==
    ASSUME DlTypes, [Daemon!Next]_(Daemon!vars)
    PROVE  DlTypes'
<1>1. CASE UNCHANGED client
    BY <1>1, DlFilesStep DEF DlTypes, DlCounts, DlCountOf
<1>2. ASSUME NEW c \in Clients, Daemon!Start(c) \/ Daemon!ClientStep(c)  PROVE DlTypes'
    BY <1>2, DlClientMoves, DlFilesStep DEF DlTypes
<1>3. ASSUME NEW r \in reqs, Daemon!Serve(r)  PROVE DlTypes'
    <2>1. CASE UNCHANGED client
        BY <1>1, <2>1
    <2>2. CASE Daemon!Finish(r.c, "ok")
        <3>1. r.c \in Clients
            BY DEF DlTypes, DlFiles
        <3>2. /\ client' \in [Clients -> DlClient] /\ DlOthers(r.c)
              /\ client'[r.c].pc = "done" /\ client'[r.c].n = 0
            BY <2>2, <3>1, DlFinish DEF DlTypes
        <3>3. DlCountOf(r.c)'
            BY <3>2, DaemonAssumption DEF DlCountOf
        <3>. QED  BY <3>1, <3>2, <3>3, DlOneClient, DlFilesStep DEF DlTypes
    <2>. QED  BY <1>3, <2>1, <2>2 DEF Daemon!Serve
<1>4. ASSUME NEW d \in Daemons, Daemon!DaemonStep(d) \/ Daemon!Fault(d) \/ Daemon!PidReused(d)  PROVE UNCHANGED client
    BY <1>4 DEF Daemon!DaemonStep, Daemon!WritePid, Daemon!RemoveOldSocket, Daemon!Bind, Daemon!CloseNotified, Daemon!Terminated,
       Daemon!RemoveSocket, Daemon!RemoveRest, Daemon!Step, Daemon!Fault, Daemon!PidReused
<1>. QED  BY <1>1, <1>2, <1>3, <1>4 DEF Daemon!Next, Daemon!Done, Daemon!vars

\* A client that looks while nothing is coming or going sees the one daemon
\* there is, by its socket and by its pid.
LEMMA DlSeen ==
    ASSUME DlTypes, DlCalm, ~Daemon!Missed, NEW d \in Daemons, Daemon!Alive(d)
    PROVE  Daemon!Ready /\ sock = d /\ pid = d /\ st[d] \in {"listening", "closing"}
<1>1. Daemon!Ready /\ sock \in Daemons /\ st[sock] \in {"listening", "closing"} /\ Daemon!Alive(sock)
    BY DEF Daemon!Missed, Daemon!Ready, Daemon!Alive, DlTypes, DlFiles, Daemon!Pids
<1>2. sock = d
    BY <1>1 DEF DlCalm
<1>3. pid = d
    BY <1>1, <1>2 DEF DlCalm
<1>. QED  BY <1>1, <1>2, <1>3

\* Only the client that looks, if any, does: the others' steps keep what is
\* said of clients.
LEMMA DlOneLooks ==
    ASSUME DlTypes, DlCalm, NEW c \in Clients, DlOthers(c),
           \/ Daemon!Looking(c) \/ ~Daemon!Looking(c)'
           \/ \A e \in Clients : ~Daemon!Looking(e)
    PROVE  \A b, e \in Clients : Daemon!Looking(b)' /\ Daemon!Looking(e)' => b = e
    BY DEF DlCalm, Daemon!Looking, DlOthers

\* A step of client c that neither starts nor ends a daemon nor touches its
\* files: what is left to show is where c is then.
LEMMA DlClientOnly ==
    ASSUME DlTypes, DlCalm, NEW c \in Clients, DlOthers(c), UNCHANGED <<sock, pid, ver, st, version>>,
           client[c].pc # "wait",
           \/ Daemon!Looking(c) \/ ~Daemon!Looking(c)' \/ \A e \in Clients : ~Daemon!Looking(e),
           \A d \in Daemons : Daemon!Alive(d) =>
              /\ client'[c].pc \notin {"clean", "unlink", "spawn"}
              /\ client'[c].pc = "wait" => client'[c].victim = d
              /\ client'[c].pc = "kill" => st[d] \in {"listening", "closing", "leaving", "unlinking"}
              /\ client'[c].cmd = "closeAll" /\ client'[c].pc \in {"send", "await", "force"}
                   => client'[c].victim = d
    PROVE  DlCalm'
<1>1. \A b, e \in Clients : Daemon!Looking(b)' /\ Daemon!Looking(e)' => b = e
    BY DlOneLooks
<1>2. \A d, e \in Daemons : Daemon!Alive(d)' /\ Daemon!Alive(e)' => d = e
    BY DEF DlCalm, Daemon!Alive
<1>3. \A d \in Daemons : Daemon!Alive(d)' /\ st'[d] # "boot" => pid' = d /\ ver' = version'[d]
    BY DEF DlCalm, Daemon!Alive
<1>4. ASSUME NEW d \in Daemons, st'[d] \in {"listening", "closing"}  PROVE sock' = d \/ Daemon!BeingKilled(d)'
    BY <1>4 DEF DlCalm, Daemon!BeingKilled, DlOthers
<1>5. ASSUME NEW e \in Clients, NEW d \in Daemons, Daemon!Alive(d)'
      PROVE  /\ client'[e].pc \notin {"clean", "unlink", "spawn"}
             /\ client'[e].pc = "wait" => client'[e].victim = d
             /\ client'[e].pc = "kill" => st'[d] \in {"listening", "closing", "leaving", "unlinking"}
             /\ client'[e].cmd = "closeAll" /\ client'[e].pc \in {"send", "await", "force"}
                  => client'[e].victim = d
    <2>1. Daemon!Alive(d)
        BY <1>5 DEF Daemon!Alive
    <2>2. CASE e = c
        BY <2>1, <2>2
    <2>3. CASE e # c
        BY <2>1, <2>3 DEF DlOthers, DlCalm
    <2>. QED  BY <2>2, <2>3
<1>. QED  BY <1>1, <1>2, <1>3, <1>4, <1>5 DEF DlCalm

\* A step of client c after which no daemon lives.
LEMMA DlNoneAlive ==
    ASSUME DlTypes, DlCalm, NEW c \in Clients, DlOthers(c), Daemon!Looking(c) \/ ~Daemon!Looking(c)',
           \A d \in Daemons : ~Daemon!Alive(d)'
    PROVE  DlCalm'
<1>1. \A b, e \in Clients : Daemon!Looking(b)' /\ Daemon!Looking(e)' => b = e
    BY DlOneLooks
<1>2. \A d \in Daemons : st'[d] \notin {"listening", "closing"}
    BY DEF Daemon!Alive
<1>. QED  BY <1>1, <1>2 DEF DlCalm

\* connection.rs: no step of a client, without a race, makes a second daemon, or
\* hides the one there is: what it removes is that of a dead one.
LEMMA DlCalmClient ==
    ASSUME DlTypes, DlTypes', DlCalm, ~raced',
           NEW c \in Clients, Daemon!Start(c) \/ Daemon!ClientStep(c)
    PROVE  DlCalm'
<1>0. DlOthers(c) /\ client \in [Clients -> DlClient] /\ client' \in [Clients -> DlClient]
    BY DlClientMoves DEF DlTypes
<1>1. CASE Daemon!Start(c)
    <2>1. \A e \in Clients : ~Daemon!Looking(e)
        BY <1>1 DEF Daemon!Start
    <2>2. client[c].pc = "idle" /\ client'[c].pc \in {"walk", "probe"} /\ UNCHANGED <<sock, pid, ver, st, version>>
        BY <1>1 DEF Daemon!Start, Daemon!daemonVars, DlTypes, DlClient
    <2>. QED  BY <1>0, <2>1, <2>2, DlClientOnly
<1>2. CASE Daemon!Probe(c)
    <2>1. UNCHANGED <<sock, pid, ver, st, version>> /\ ~Daemon!Missed /\ client[c].pc = "probe"
        BY <1>2 DEF Daemon!Probe, Daemon!daemonVars
    <2>2. client'[c].pc = IF Daemon!Ready THEN "reprobe" ELSE "clean"
        BY <1>2 DEF Daemon!Probe, Daemon!Goto, DlTypes, DlClient
    <2>3. Daemon!Looking(c)
        BY <2>1 DEF Daemon!Looking
    <2>4. \A d \in Daemons : Daemon!Alive(d) => Daemon!Ready
        BY <2>1, DlSeen
    <2>. QED  BY <1>0, <2>1, <2>2, <2>3, <2>4, DlClientOnly
<1>3. CASE Daemon!Reprobe(c)
    <2>1. UNCHANGED <<sock, pid, ver, st, version>> /\ ~Daemon!Missed /\ client[c].pc = "reprobe"
        BY <1>3 DEF Daemon!Reprobe, Daemon!daemonVars
    <2>2. client'[c].pc = (IF ~Daemon!Ready THEN "clean" ELSE IF ver = Daemon!Current THEN "send" ELSE "kill")
          /\ client'[c].cmd = client[c].cmd
        BY <1>3 DEF Daemon!Reprobe, Daemon!Goto, DlTypes, DlClient
    <2>3. Daemon!Looking(c)
        BY <2>1 DEF Daemon!Looking
    <2>4. \A d \in Daemons : Daemon!Alive(d) => Daemon!Ready /\ st[d] \in {"listening", "closing"}
        BY <2>1, DlSeen
    <2>5. client[c].cmd # "closeAll"
        BY <2>1 DEF DlTypes, DlCounts, DlCountOf
    <2>. QED  BY <1>0, <2>1, <2>2, <2>3, <2>4, <2>5, DlClientOnly
<1>4. CASE Daemon!Kill(c)
    <2>1. client[c].pc = "kill" /\ Daemon!Looking(c) /\ sock' = None /\ UNCHANGED <<pid, ver, version>>
        BY <1>4 DEF Daemon!Kill, Daemon!Looking
    <2>2. \A d \in Daemons : Daemon!Alive(d) => st[d] # "boot" /\ pid = d
        BY <2>1 DEF DlCalm
    <2>3. CASE pid = None
        <3>1. \A d \in Daemons : ~Daemon!Alive(d)'
            BY <1>4, <2>2, <2>3, DaemonAssumption DEF Daemon!Kill, Daemon!Alive
        <3>. QED  BY <1>0, <2>1, <3>1, DlNoneAlive
    <2>4. CASE pid # None
        <3>1. client'[c].pc = "wait" /\ client'[c].victim = pid /\ client'[c].cmd = client[c].cmd
            BY <1>4, <2>4 DEF Daemon!Kill, DlTypes, DlClient
        <3>2. st' = st
            BY <1>4, <2>4, DlSignal DEF Daemon!Kill, DlTypes, DlFiles
        <3>3. \A b, e \in Clients : Daemon!Looking(b)' /\ Daemon!Looking(e)' => b = e
            BY <1>0, <2>1, DlOneLooks
        <3>4. \A d, e \in Daemons : Daemon!Alive(d)' /\ Daemon!Alive(e)' => d = e
            BY <3>2 DEF DlCalm, Daemon!Alive
        <3>5. \A d \in Daemons : Daemon!Alive(d)' /\ st'[d] # "boot" => pid' = d /\ ver' = version'[d]
            BY <2>1, <3>2 DEF DlCalm, Daemon!Alive
        <3>6. \A d \in Daemons : st'[d] \in {"listening", "closing"} => Daemon!BeingKilled(d)'
            BY <2>2, <3>1, <3>2 DEF Daemon!BeingKilled, Daemon!Alive
        <3>7. ASSUME NEW e \in Clients, NEW d \in Daemons, Daemon!Alive(d)'
              PROVE  /\ client'[e].pc \notin {"clean", "unlink", "spawn"}
                     /\ client'[e].pc = "wait" => client'[e].victim = d
                     /\ client'[e].pc = "kill" => st'[d] \in {"listening", "closing", "leaving", "unlinking"}
                     /\ client'[e].cmd = "closeAll" /\ client'[e].pc \in {"send", "await", "force"}
                          => client'[e].victim = d
            <4>1. Daemon!Alive(d)
                BY <3>2, <3>7 DEF Daemon!Alive
            <4>2. CASE e = c
                BY <2>2, <3>1, <4>1, <4>2
            <4>3. CASE e # c
                BY <1>0, <3>2, <4>1, <4>3 DEF DlOthers, DlCalm
            <4>. QED  BY <4>2, <4>3
        <3>. QED  BY <3>3, <3>4, <3>5, <3>6, <3>7 DEF DlCalm
    <2>. QED  BY <2>3, <2>4
<1>5. CASE Daemon!KillWait(c)
    <2>1. client[c].pc = "wait" /\ Daemon!Looking(c) /\ client[c].victim \in Daemon!Pids /\ Daemon!Signal(client[c].victim, "kill")
        BY <1>0, <1>5 DEF Daemon!KillWait, Daemon!Looking, DlClient
    <2>2. \A d \in Daemons : ~Daemon!Alive(d)'
        BY <2>1, DlSignal DEF DlTypes, DlCalm
    <2>. QED  BY <1>0, <2>1, <2>2, DlNoneAlive
<1>6. CASE Daemon!Clean(c) \/ Daemon!Unlink(c)
    <2>1. client[c].pc \in {"clean", "unlink"} /\ Daemon!Looking(c) /\ st' = st
        BY <1>6 DEF Daemon!Clean, Daemon!Unlink, Daemon!Looking, Daemon!daemonVars
    <2>2. \A d \in Daemons : ~Daemon!Alive(d)'
        BY <2>1 DEF DlCalm, Daemon!Alive
    <2>. QED  BY <1>0, <2>1, <2>2, DlNoneAlive
<1>7. CASE Daemon!Spawn(c)
    <2>1. client[c].pc = "spawn" /\ Daemon!Looking(c) /\ UNCHANGED <<sock, pid, ver, version>>
        BY <1>7 DEF Daemon!Spawn, Daemon!Looking
    <2>2. PICK x \in Daemons : st' = [st EXCEPT ![x] = "boot"] /\ client' = [client EXCEPT ![c].pc = "poll", ![c].child = x]
        BY <1>7 DEF Daemon!Spawn
    <2>3. client'[c].pc = "poll"
        BY <1>0, <2>2 DEF DlClient
    <2>4. \A d \in Daemons : ~Daemon!Alive(d)
        BY <2>1 DEF DlCalm
    <2>5. \A d \in Daemons : Daemon!Alive(d)' => d = x /\ st'[d] = "boot"
        BY <2>2, <2>4 DEF Daemon!Alive, DlTypes, DlFiles
    <2>6. \A b, e \in Clients : Daemon!Looking(b)' /\ Daemon!Looking(e)' => b = e
        BY <1>0, <2>1, DlOneLooks
    <2>7. \A d \in Daemons : st'[d] \notin {"listening", "closing"}
        BY <2>5 DEF Daemon!Alive
    <2>8. ASSUME NEW e \in Clients
          PROVE  client'[e].pc \notin {"clean", "unlink", "spawn", "wait", "kill"}
                 /\ ~(client'[e].cmd = "closeAll" /\ client'[e].pc \in {"send", "await", "force"})
        <3>1. CASE e = c
            BY <2>3, <3>1
        <3>2. CASE e # c
            BY <1>0, <2>1, <3>2 DEF DlCalm, DlOthers, Daemon!Looking
        <3>. QED  BY <3>1, <3>2
    <2>. QED  BY <2>5, <2>6, <2>7, <2>8 DEF DlCalm
<1>8. CASE Daemon!Poll(c)
    <2>1. client[c].pc = "poll" /\ Daemon!Looking(c) /\ UNCHANGED <<sock, pid, ver, st, version>>
        BY <1>8 DEF Daemon!Poll, Daemon!Looking, Daemon!daemonVars
    <2>2. client'[c].pc \in {"send", "done", "poll"} /\ client'[c].cmd = client[c].cmd
        BY <1>0, <1>8 DEF Daemon!Poll, DlClient
    <2>3. client[c].cmd # "closeAll"
        BY <2>1 DEF DlTypes, DlCounts, DlCountOf
    <2>. QED  BY <1>0, <2>1, <2>2, <2>3, DlClientOnly
<1>9. CASE Daemon!Walk(c)
    <2>1. client[c].pc = "walk" /\ ~Daemon!Missed /\ st' = st /\ UNCHANGED version
        BY <1>9 DEF Daemon!Walk, Daemon!daemonVars
    <2>2. CASE pid # None /\ (Daemon!Alive(pid) \/ pid \in foreign)
        <3>1. client'[c].pc = "send" /\ client'[c].victim = pid /\ client'[c].cmd = client[c].cmd
              /\ UNCHANGED <<sock, pid, ver, st, version>>
            BY <1>0, <1>9, <2>1, <2>2 DEF Daemon!Walk, DlClient
        <3>2. \A d \in Daemons : Daemon!Alive(d) => pid = d
            BY <2>1, DlSeen
        <3>3. Daemon!Looking(c) \/ ~Daemon!Looking(c)'
            BY <2>1, <3>1 DEF Daemon!Looking
        <3>. QED  BY <1>0, <2>1, <3>1, <3>2, <3>3, DlClientOnly
    <2>3. CASE ~(pid # None /\ (Daemon!Alive(pid) \/ pid \in foreign))
        <3>1. Daemon!Finish(c, "ok")
            BY <1>9, <2>3 DEF Daemon!Walk
        <3>2. ~Daemon!Looking(c)'
            BY <1>0, <3>1, DlFinish DEF Daemon!Looking
        <3>3. \A d \in Daemons : ~Daemon!Alive(d)
            BY <2>1, <2>3, DlSeen, DaemonAssumption
        <3>4. \A d \in Daemons : ~Daemon!Alive(d)'
            BY <2>1, <3>3 DEF Daemon!Alive
        <3>. QED  BY <1>0, <3>2, <3>4, DlNoneAlive
    <2>. QED  BY <2>2, <2>3
<1>10. CASE Daemon!Send(c) \/ Daemon!NoAnswer(c)
    <2>1. client[c].pc \in {"send", "await"} /\ UNCHANGED <<sock, pid, ver, st, version>>
        BY <1>10 DEF Daemon!Send, Daemon!NoAnswer, Daemon!daemonVars
    <2>2. client'[c].pc \in {"send", "await", "force", "done"} /\ client'[c].cmd = client[c].cmd
          /\ (client'[c].pc # "done" => client'[c].victim = client[c].victim)
        <3>1. CASE Daemon!Retry(c)
            BY <1>0, <3>1, DlFinish DEF Daemon!Retry, Daemon!Goto, DlClient
        <3>2. CASE client' = [client EXCEPT ![c].pc = "await", ![c].conn = sock]
            BY <1>0, <3>2 DEF DlClient
        <3>. QED  BY <1>10, <3>1, <3>2 DEF Daemon!Send, Daemon!NoAnswer
    <2>3. Daemon!Looking(c) \/ ~Daemon!Looking(c)'
        BY <2>1, <2>2 DEF Daemon!Looking
    <2>4. \A d \in Daemons : Daemon!Alive(d) /\ client[c].cmd = "closeAll" => client[c].victim = d
        BY <2>1 DEF DlCalm
    <2>. QED  BY <1>0, <2>1, <2>2, <2>3, <2>4, DlClientOnly
<1>11. CASE Daemon!ForceClose(c)
    <2>1. client[c].pc = "force" /\ client[c].cmd = "closeAll" /\ client[c].victim \in Daemon!Pids
          /\ Daemon!Signal(client[c].victim, "kill") /\ Daemon!Looking(c)
        BY <1>0, <1>11 DEF Daemon!ForceClose, DlTypes, DlCounts, DlCountOf, DlClient, Daemon!Looking
    <2>2. \A d \in Daemons : ~Daemon!Alive(d)'
        BY <2>1, DlSignal DEF DlTypes, DlCalm
    <2>. QED  BY <1>0, <2>1, <2>2, DlNoneAlive
<1>. QED  BY <1>1, <1>2, <1>3, <1>4, <1>5, <1>6, <1>7, <1>8, <1>9, <1>10, <1>11 DEF Daemon!ClientStep

\* A step of the one daemon that lives: what it may do to the files and to
\* itself for the others to stay right.
LEMMA DlDaemonOnly ==
    ASSUME DlTypes, DlCalm, NEW d \in Daemons, UNCHANGED <<client, version>>, Daemon!Alive(d),
           \A e \in Daemons : e # d => st'[e] = st[e],
           Daemon!Alive(d)' /\ st'[d] # "boot" => pid' = d /\ ver' = version[d],
           st'[d] \in {"listening", "closing"} => sock' = d \/ Daemon!BeingKilled(d),
           Daemon!Alive(d)' /\ st[d] \in {"listening", "closing", "leaving", "unlinking"}
              => st'[d] \in {"listening", "closing", "leaving", "unlinking"}
    PROVE  DlCalm'
<1>1. \A b, e \in Clients : Daemon!Looking(b)' /\ Daemon!Looking(e)' => b = e
    BY DEF DlCalm, Daemon!Looking
<1>2. \A e \in Daemons : Daemon!Alive(e)' => e = d
    BY DEF DlCalm, Daemon!Alive
<1>3. \A e \in Daemons : st'[e] \in {"listening", "closing"} => e = d
    BY <1>2 DEF Daemon!Alive
<1>4. Daemon!BeingKilled(d)' <=> Daemon!BeingKilled(d)
    BY DEF Daemon!BeingKilled
<1>5. \A c \in Clients : Daemon!Alive(d)' =>
        /\ client'[c].pc \notin {"clean", "unlink", "spawn"}
        /\ client'[c].pc = "wait" => client'[c].victim = d
        /\ client'[c].pc = "kill" => st'[d] \in {"listening", "closing", "leaving", "unlinking"}
        /\ client'[c].cmd = "closeAll" /\ client'[c].pc \in {"send", "await", "force"}
             => client'[c].victim = d
    BY DEF DlCalm
<1>. QED  BY <1>1, <1>2, <1>3, <1>4, <1>5 DEF DlCalm

\* daemon.rs: no step of the daemon itself does: its files are there while it
\* listens, and gone with it.
LEMMA DlCalmDaemon ==
    ASSUME DlTypes, DlCalm,
           NEW d \in Daemons, Daemon!DaemonStep(d) \/ Daemon!Fault(d) \/ Daemon!PidReused(d)
    PROVE  DlCalm'
<1>. USE DEF DlTypes, DlFiles, DlStates, Daemon!Alive
<1>0. Daemon!Alive(d) /\ st[d] # "boot" => pid = d /\ ver = version[d]
    BY DEF DlCalm
<1>1. CASE Daemon!WritePid(d)
    BY <1>1, DlDaemonOnly DEF Daemon!WritePid, Daemon!Step
<1>2. CASE Daemon!RemoveOldSocket(d)
    BY <1>0, <1>2, DlDaemonOnly DEF Daemon!RemoveOldSocket, Daemon!Step
<1>3. CASE Daemon!Bind(d)
    BY <1>0, <1>3, DlDaemonOnly DEF Daemon!Bind, Daemon!Step
<1>4. CASE Daemon!CloseNotified(d)
    BY <1>0, <1>4, DlDaemonOnly DEF Daemon!CloseNotified, Daemon!Step
<1>5. CASE Daemon!Terminated(d)
    BY <1>0, <1>5, DlDaemonOnly DEF Daemon!Terminated
<1>6. CASE Daemon!RemoveSocket(d)
    BY <1>0, <1>6, DlDaemonOnly DEF Daemon!RemoveSocket, Daemon!Step
<1>7. CASE Daemon!RemoveRest(d)
    BY <1>0, <1>7, DlDaemonOnly DEF Daemon!RemoveRest, Daemon!Step
<1>8. CASE Daemon!Fault(d)
    BY <1>0, <1>8, DlDaemonOnly DEF Daemon!Fault
<1>9. CASE Daemon!PidReused(d)
    BY <1>9 DEF Daemon!PidReused, Daemon!daemonVars, DlCalm, Daemon!Looking, Daemon!BeingKilled
<1>. QED  BY <1>1, <1>2, <1>3, <1>4, <1>5, <1>6, <1>7, <1>8, <1>9 DEF Daemon!DaemonStep

\* daemon.rs: nor does a request it serves; close is one of them.
LEMMA DlCalmServe ==
    ASSUME DlTypes, DlCalm, NEW r \in reqs, Daemon!Serve(r)
    PROVE  DlCalm'
<1>1. r.d \in Daemons /\ r.c \in Clients /\ UNCHANGED <<sock, pid, ver, version>>
    BY DEF Daemon!Serve, DlTypes, DlFiles
<1>2. st' \in [Daemons -> DlStates] /\ \A e \in Daemons :
          st'[e] = st[e] \/ (st[e] = "listening" /\ st'[e] = "closing")
    BY <1>1 DEF Daemon!Serve, DlTypes, DlFiles, DlStates
<1>3. client' = client \/ (DlOthers(r.c) /\ client'[r.c].pc = "done" /\ client[r.c].pc = "await")
    BY <1>1, DlFinish DEF Daemon!Serve, DlTypes
<1>4. \A b, e \in Clients : Daemon!Looking(b)' /\ Daemon!Looking(e)' => b = e
    BY <1>1, <1>3, DlOneLooks DEF DlCalm, Daemon!Looking
<1>5. \A e \in Daemons : Daemon!Alive(e)' => Daemon!Alive(e)
    BY <1>2 DEF Daemon!Alive
<1>6. \A b, e \in Daemons : Daemon!Alive(b)' /\ Daemon!Alive(e)' => b = e
    BY <1>5 DEF DlCalm
<1>7. \A e \in Daemons : Daemon!Alive(e)' /\ st'[e] # "boot" => pid' = e /\ ver' = version'[e]
    BY <1>1, <1>2, <1>5 DEF DlCalm
<1>8. \A e \in Daemons : Daemon!BeingKilled(e) => Daemon!BeingKilled(e)'
    BY <1>1, <1>3 DEF Daemon!BeingKilled, DlOthers
<1>9. \A e \in Daemons : st'[e] \in {"listening", "closing"} => sock' = e \/ Daemon!BeingKilled(e)'
    BY <1>1, <1>2, <1>8 DEF DlCalm
<1>10. ASSUME NEW c \in Clients, NEW e \in Daemons, Daemon!Alive(e)'
       PROVE  /\ client'[c].pc \notin {"clean", "unlink", "spawn"}
              /\ client'[c].pc = "wait" => client'[c].victim = e
              /\ client'[c].pc = "kill" => st'[e] \in {"listening", "closing", "leaving", "unlinking"}
              /\ client'[c].cmd = "closeAll" /\ client'[c].pc \in {"send", "await", "force"}
                   => client'[c].victim = e
    <2>1. Daemon!Alive(e)
        BY <1>5, <1>10
    <2>2. CASE client'[c] = client[c]
        BY <1>2, <2>1, <2>2 DEF DlCalm
    <2>3. CASE client'[c].pc = "done"
        BY <2>3
    <2>. QED  BY <1>3, <2>2, <2>3 DEF DlOthers
<1>. QED  BY <1>4, <1>6, <1>7, <1>9, <1>10 DEF DlCalm

\* The invariant is kept by every step.
LEMMA DlStep ==
    ASSUME DlInv, [Daemon!Next]_(Daemon!vars)
    PROVE  DlInv'
<1>1. DlTypes /\ DlTypes'
    BY DlTypesStep DEF DlInv
<1>2. ASSUME ~raced'  PROVE DlCalm'
    <2>1. ASSUME ~raced  PROVE DlCalm'
        <3>1. DlCalm
            BY <2>1 DEF DlInv
        <3>2. CASE UNCHANGED Daemon!vars
            BY <3>1, <3>2 DEF Daemon!vars, DlCalm, Daemon!Looking, Daemon!Alive, Daemon!BeingKilled
        <3>3. CASE \E c \in Clients : Daemon!Start(c) \/ Daemon!ClientStep(c)
            BY <1>1, <1>2, <3>1, <3>3, DlCalmClient
        <3>4. CASE \E d \in Daemons : Daemon!DaemonStep(d) \/ Daemon!Fault(d) \/ Daemon!PidReused(d)
            BY <1>1, <3>1, <3>4, DlCalmDaemon
        <3>5. CASE \E r \in reqs : Daemon!Serve(r)
            BY <1>1, <3>1, <3>5, DlCalmServe
        <3>. QED  BY <3>2, <3>3, <3>4, <3>5 DEF Daemon!Next, Daemon!Done
    <2>2. raced => raced'
        BY <1>1 DEF DlTypes, DlFiles, Daemon!Next, Daemon!Done, Daemon!vars, Daemon!Start, Daemon!ClientStep, Daemon!DaemonStep, Daemon!Step,
           Daemon!Probe, Daemon!Reprobe, Daemon!Kill, Daemon!KillWait, Daemon!Clean, Daemon!Unlink, Daemon!Spawn, Daemon!Poll, Daemon!Walk, Daemon!Send,
           Daemon!NoAnswer, Daemon!ForceClose, Daemon!WritePid, Daemon!RemoveOldSocket, Daemon!Bind, Daemon!CloseNotified, Daemon!Terminated,
           Daemon!RemoveSocket, Daemon!RemoveRest, Daemon!Fault, Daemon!PidReused, Daemon!Serve
    <2>. QED  BY <1>2, <2>1, <2>2
<1>. QED  BY <1>1, <1>2 DEF DlInv

\* It holds of a machine with no daemon, and of one that runs already.
LEMMA DlStart ==
    ASSUME Daemon!Init
    PROVE  DlInv
<1>1. PICK d \in Daemons, s \in {"none", "listening", "dead"}, v \in {Daemon!Current, "old"} :
        /\ st = [e \in Daemons |-> IF e = d THEN s ELSE "none"]
        /\ version = [e \in Daemons |-> IF e = d THEN v ELSE Daemon!Current]
        /\ sock = (IF s = "none" THEN None ELSE d)
        /\ pid = (IF s = "none" THEN None ELSE d)
        /\ ver = (IF s = "none" THEN None ELSE v)
        /\ term = {} /\ client = [c \in Clients |-> Daemon!NewClient]
        /\ reqs = {} /\ foreign = {} /\ raced = FALSE
    BY DEF Daemon!Init
<1>2. DlFiles
    BY <1>1 DEF DlFiles, DlStates, Daemon!Pids
<1>3. Daemon!NewClient \in DlClient
    BY DEF Daemon!NewClient, DlClient, DlPlaces, Daemon!Commands, Daemon!Pids
<1>4. \A c \in Clients : client[c].pc = "idle" /\ client[c].cmd = "work" /\ client[c].n = 0
    BY <1>1 DEF Daemon!NewClient
<1>5. DlTypes
    BY <1>1, <1>2, <1>3, <1>4 DEF DlTypes, DlCounts, DlCountOf
<1>6. \A e \in Daemons : Daemon!Alive(e) => e = d /\ st[e] = "listening"
    BY <1>1 DEF Daemon!Alive
<1>7. \A e \in Daemons : st[e] = "listening" => sock = e /\ pid = e /\ ver = version[e]
    BY <1>1
<1>8. \A e \in Daemons : st[e] # "closing"
    BY <1>1
<1>9. DlCalm
    BY <1>4, <1>6, <1>7, <1>8 DEF DlCalm, Daemon!Looking
<1>. QED  BY <1>5, <1>9 DEF DlInv

\* connection.rs: unless two clients, or a client and a leaving daemon, raced, one
\* daemon lives at most, and one that listens is found by its socket and its pid.
LEMMA DlPromise == DlInv => Daemon!TypeOK /\ Daemon!FoundUnlessRaced /\ Daemon!OneDaemonUnlessRaced
<1>1. DlInv => Daemon!TypeOK
    <2>1. ASSUME DlTypes, NEW c \in Clients
          PROVE  /\ client[c].cmd \in Daemon!Commands /\ client[c].n \in 0..MaxRetries + ClientPolls
                 /\ {client[c].child, client[c].victim, client[c].conn} \subseteq Daemon!Pids
        <3>1. client[c] \in DlClient /\ DlCountOf(c)
            BY <2>1 DEF DlTypes, DlCounts
        <3>2. client[c].n <= MaxRetries + ClientPolls
            BY <3>1, DaemonAssumption DEF DlCountOf, DlClient, DlPlaces
        <3>. QED  BY <3>1, <3>2, DaemonAssumption DEF DlClient
    <2>. QED  BY <2>1 DEF DlInv, DlTypes, DlFiles, DlStates, Daemon!TypeOK
<1>2. DlInv => Daemon!FoundUnlessRaced /\ Daemon!OneDaemonUnlessRaced
    BY DEF DlInv, DlCalm, Daemon!FoundUnlessRaced, Daemon!OneDaemonUnlessRaced, Daemon!Alive
<1>. QED  BY <1>1, <1>2

(***************************************************************************)
(* EmbeddedBrowser, part "embedded": for any number of daemons and turns.  *)
(***************************************************************************)

\* The variables of the part, named as the component names them; est and esock
\* are its st and sock.

host == v1
est == v2
page == v3
esock == v4
ext == v5
thread == v6
turns == v7
report == v8
USE DEF host, est, page, esock, ext, thread, turns, report

EmbStates == {"none", "boot", "unlinked", "listening", "closing", "left"}

EmbPlaces == {"close", "idle", "ensure", "replace", "gone", "spawn", "poll", "send", "done"}
EmbThread == [pc : EmbPlaces, cmd : {"reload", "navigate"}, polls : 0 .. Embedded!MaxPolls]

\* What TypeOK leaves open of the daemons and the threads.
EmbTypes ==
    /\ Embedded!TypeOK
    /\ est \in [Hosted -> EmbStates]
    /\ page \in [Hosted -> {"none", "blank", "local"}]
    /\ thread \in [Embedded!Threads -> EmbThread]

\* A daemon that has been started and has not left.
EmbLive(d) == est[d] \in {"boot", "unlinked", "listening", "closing"}

\* One thread works at a time, there is one daemon, and the socket is that of
\* the daemon that listens; a daemon that starts is waited for, and none is
\* started beside it.
EmbOrder ==
    /\ host = "up"
    /\ thread["startup"].pc # "done" => thread["preview"].pc = "idle"
    /\ \A d, e \in Hosted : EmbLive(d) /\ EmbLive(e) => d = e
    /\ \A d \in Hosted : est[d] \in {"listening", "closing"} <=> esock = d
    /\ \A d \in Hosted : est[d] \in {"boot", "unlinked"} =>
          \E t \in Embedded!Threads : thread[t].pc = "poll"
    /\ \A t \in Embedded!Threads : thread[t].pc = "spawn" => \A d \in Hosted : ~ EmbLive(d)

EmbInv == EmbTypes /\ (Sequential => EmbOrder)

\* A thread that moves on stays a thread at a known place.
LEMMA EmbGoto ==
    ASSUME EmbTypes, NEW t \in Embedded!Threads, NEW p \in EmbPlaces, Embedded!Goto(t, p)
    PROVE  thread' \in [Embedded!Threads -> EmbThread]
<1>1. thread[t] \in EmbThread /\ thread \in [Embedded!Threads -> EmbThread]
    BY DEF EmbTypes
<1>2. [thread[t] EXCEPT !.pc = p, !.polls = 0] \in EmbThread
    <2>1. \A r \in EmbThread : [r EXCEPT !.pc = p] \in EmbThread
        BY DEF EmbThread
    <2>2. \A r \in EmbThread : [r EXCEPT !.polls = 0] \in EmbThread
        BY DEF EmbThread, Embedded!MaxPolls
    <2>. QED  BY <1>1, <2>1, <2>2
<1>. QED  BY <1>1, <1>2 DEF Embedded!Goto

\* facade.rs and daemon.rs: every step keeps daemons and threads at known places.
LEMMA EmbTypesStep ==
    ASSUME EmbTypes, [Embedded!Next]_(Embedded!vars)
    PROVE  EmbTypes'
<1>. USE HostedAssumption DEF EmbTypes, EmbThread, EmbPlaces, Embedded!TypeOK, EmbStates, Embedded!Threads, Embedded!MaxPolls, Embedded!At, Embedded!Goto, Embedded!Reachable
<1>0. ASSUME Embedded!Reachable, Embedded!Close(esock)
      PROVE  /\ est' \in [Hosted -> EmbStates] /\ page' \in [Hosted -> {"none", "blank", "local"}]
             /\ ext' \in BOOLEAN
             /\ \A d \in Hosted : page'[d] # "none" => est'[d] \in {"listening", "closing"}
    BY <1>0 DEF Embedded!Close
<1>1. CASE UNCHANGED Embedded!vars
    BY <1>1 DEF Embedded!vars
<1>2. CASE Embedded!StartupClose
    <2>1. /\ thread' \in [Embedded!Threads -> EmbThread]
        <3>1. Embedded!Goto("startup", "ensure") /\ "startup" \in Embedded!Threads
            BY <1>2 DEF Embedded!StartupClose
        <3>2. "ensure" \in EmbPlaces
            BY DEF EmbPlaces
        <3>. QED  BY <3>1, <3>2, EmbGoto
    <2>2. "startup" \in Embedded!Threads /\ Embedded!TypeOK /\ host' = host /\ esock' = esock
        BY <1>2 DEF Embedded!StartupClose
    <2>3. /\ est' \in [Hosted -> EmbStates] /\ page' \in [Hosted -> {"none", "blank", "local"}]
          /\ ext' \in BOOLEAN
          /\ \A d \in Hosted : page'[d] # "none" => est'[d] \in {"listening", "closing"}
        BY <1>2, <1>0 DEF Embedded!StartupClose
    <2>. QED  BY <2>1, <2>2, <2>3
<1>3. CASE Embedded!TurnCompleted
    BY <1>3 DEF Embedded!TurnCompleted
<1>4. ASSUME NEW t \in Embedded!Threads, Embedded!ThreadStep(t)
      PROVE  EmbTypes'
    <2>1. CASE Embedded!Ensure(t)
        BY <2>1 DEF Embedded!Ensure
    <2>2. CASE Embedded!Replace(t)
        BY <2>2, <1>0 DEF Embedded!Replace
    <2>3. CASE Embedded!Gone(t)
        BY <2>3 DEF Embedded!Gone
    <2>4. CASE Embedded!Spawn(t)
        BY <2>4 DEF Embedded!Spawn
    <2>5. CASE Embedded!Poll(t)
        BY <2>5 DEF Embedded!Poll, Embedded!Failed
    <2>6. CASE Embedded!Send(t)
        BY <2>6 DEF Embedded!Send, Embedded!Shown
    <2>7. CASE Embedded!SendFailed(t)
        BY <2>7 DEF Embedded!SendFailed, Embedded!Failed
    <2>. QED  BY <1>4, <2>1, <2>2, <2>3, <2>4, <2>5, <2>6, <2>7 DEF Embedded!ThreadStep
<1>5. ASSUME NEW d \in Hosted, Embedded!Boot(d) \/ Embedded!Bind(d) \/ Embedded!Leave(d) \/ Embedded!BrowserGone(d)
      PROVE  EmbTypes'
    BY <1>5 DEF Embedded!Boot, Embedded!Bind, Embedded!Leave, Embedded!BrowserGone
<1>. QED  BY <1>1, <1>2, <1>3, <1>4, <1>5 DEF Embedded!Next

\* facade.rs: when turns come after the start-up task, no step starts a daemon
\* beside another, or binds a socket that is taken.
LEMMA EmbOrderStep ==
    ASSUME Sequential, EmbTypes, EmbTypes', EmbOrder,
           [Embedded!Next]_(Embedded!vars)
    PROVE  EmbOrder'
<1>. USE HostedAssumption DEF EmbTypes, EmbThread, EmbPlaces, Embedded!TypeOK, EmbStates, EmbLive, EmbOrder, Embedded!Threads, Embedded!At, Embedded!Goto, Embedded!Reachable
<1>1. CASE UNCHANGED Embedded!vars
    BY <1>1 DEF Embedded!vars
<1>2. CASE Embedded!StartupClose
    BY <1>2 DEF Embedded!StartupClose, Embedded!Close
<1>3. CASE Embedded!TurnCompleted
    BY <1>3 DEF Embedded!TurnCompleted
<1>4. ASSUME NEW t \in Embedded!Threads, Embedded!ThreadStep(t)
      PROVE  EmbOrder'
    <2>1. CASE Embedded!Ensure(t)
        BY <2>1 DEF Embedded!Ensure
    <2>2. CASE Embedded!Replace(t)
        BY <2>2 DEF Embedded!Replace, Embedded!Close
    <2>3. CASE Embedded!Gone(t)
        BY <2>3 DEF Embedded!Gone
    <2>4. CASE Embedded!Spawn(t)
        BY <2>4 DEF Embedded!Spawn
    <2>5. CASE Embedded!Poll(t)
        BY <2>5 DEF Embedded!Poll, Embedded!Failed
    <2>6. CASE Embedded!Send(t)
        BY <2>6 DEF Embedded!Send
    <2>7. CASE Embedded!SendFailed(t)
        BY <2>7 DEF Embedded!SendFailed, Embedded!Failed
    <2>. QED  BY <1>4, <2>1, <2>2, <2>3, <2>4, <2>5, <2>6, <2>7 DEF Embedded!ThreadStep
<1>5. ASSUME NEW d \in Hosted, Embedded!Boot(d) \/ Embedded!Bind(d) \/ Embedded!Leave(d) \/ Embedded!BrowserGone(d)
      PROVE  EmbOrder'
    BY <1>5 DEF Embedded!Boot, Embedded!Bind, Embedded!Leave, Embedded!BrowserGone
<1>. QED  BY <1>1, <1>2, <1>3, <1>4, <1>5 DEF Embedded!Next

\* facade.rs: the start-up task comes first and no daemon is there yet.
LEMMA EmbStart == Embedded!Init => EmbInv
<1>. SUFFICES ASSUME Embedded!Init PROVE EmbInv
    OBVIOUS
<1>. USE HostedAssumption DEF Embedded!Init, Embedded!Threads
<1>1. thread["startup"] = [pc |-> "close", cmd |-> "navigate", polls |-> 0]
    OBVIOUS
<1>2. thread["preview"] = [pc |-> "idle", cmd |-> "reload", polls |-> 0]
    OBVIOUS
<1>3. \A d \in Hosted : est[d] = "none" /\ page[d] = "none"
    OBVIOUS
<1>4. EmbTypes
    <2>1. thread["startup"] \in EmbThread /\ thread["preview"] \in EmbThread
        BY <1>1, <1>2 DEF EmbThread, EmbPlaces, Embedded!MaxPolls
    <2>2. thread \in [Embedded!Threads -> EmbThread]
        BY <2>1
    <2>3. \A t \in Embedded!Threads : thread[t].polls \in 0 .. Embedded!MaxPolls
        BY <2>2 DEF EmbThread
    <2>. QED  BY <2>2, <2>3 DEF EmbTypes, Embedded!TypeOK, EmbStates
<1>5. EmbOrder
    BY <1>1, <1>2, <1>3 DEF EmbOrder, EmbLive
<1>. QED  BY <1>4, <1>5 DEF EmbInv

\* Threads and daemons are where they may be; in order, they take turns.
LEMMA EmbStep == EmbInv /\ [Embedded!Next]_(Embedded!vars) => EmbInv'
    BY HostedAssumption, EmbTypesStep, EmbOrderStep DEF EmbInv

\* facade.rs: when turns come after the start-up task, one daemon thread starts at
\* a time, no failed bind ends the process of the host, and one daemon has a window.
LEMMA EmbPromise == EmbInv => Embedded!TypeOK /\ Embedded!HostSurvivesInOrder /\ Embedded!OneWindowInOrder
<1>. SUFFICES ASSUME EmbInv, Sequential
              PROVE  Embedded!HostSurvivesInOrder /\ Embedded!OneWindowInOrder
    BY DEF EmbInv, EmbTypes, Embedded!HostSurvivesInOrder, Embedded!OneWindowInOrder
<1>. QED  BY DEF EmbInv, EmbTypes, Embedded!TypeOK, EmbOrder, EmbLive, Embedded!Starting, Embedded!HostSurvivesInOrder, Embedded!OneWindowInOrder

(***************************************************************************)
(* BrowserLaunch, part "launch": for any clients and any number of browsers.*)
(***************************************************************************)

\* The variables of the part, named as the component names them; lpc and lpending
\* are its pc and pending.

env == v1
browser == v2
started == v3
alive == v4
hash == v5
safari == v6
rx == v7
fetch == v8
dialogs == v9
stream == v10
refs == v11
open == v12
lpending == v13
lpc == v14
ask == v15
USE DEF env, browser, started, alive, hash, safari, rx, fetch,
        dialogs, stream, refs, open, lpending, lpc, ask

BlTypes ==
    /\ Launch!TypeOK
    /\ started \in Nat
    /\ browser \in [id : 0..started, ask : Launch!Asks]
    /\ env \in Launch!Flags \cup {"down"}
    /\ ask \in [Clients -> Launch!Asks]
    /\ lpc \in [Clients -> {"idle", "launch", "command"}]

\* launch_hash is that of the browser of our own that is there.
BlHash == browser.id # 0 /\ browser.ask \in Launch!Own => hash = Launch!launch_hash(browser.ask)

BlInv == BlTypes /\ Launch!ListenersFollowBrowser /\ Launch!NoStrayBrowser /\ BlHash

\* The options of a launch that the model tells apart.
LEMMA BlNames ==
    Launch!Asks = {"plain", "headed", "state", "endpointA", "endpointB", "cloud", "safari"}
    /\ Launch!Endpoints = {"endpointA", "endpointB"} /\ Launch!Own = {"plain", "headed", "state"}
    BY DEF Launch!Asks, Launch!Endpoints, Launch!Own

\* What remains of the running browsers when ours is closed has none of our own.
LEMMA BlClosed ==
    ASSUME BlInv
    PROVE  /\ Launch!Closed \subseteq alive
           /\ \A b \in Launch!Closed : b.ask \notin Launch!Own
    BY DEF BlInv, Launch!Closed, Launch!NoStrayBrowser

\* A browser that is started or connected to is a fresh one with every listener
\* attached.
LEMMA BlFresh ==
    ASSUME BlInv, NEW o \in Launch!Asks, NEW h \in {"none", "plain", "headed"}, Launch!Fresh(o, Launch!Closed, h),
           o \in Launch!Own => h = Launch!launch_hash(o)
    PROVE  /\ started' = started + 1 /\ started' \in Nat
           /\ browser' = [id |-> started + 1, ask |-> o] /\ browser' \in alive'
           /\ open' \subseteq alive' /\ alive' \subseteq [id : 1..started', ask : Launch!Asks]
           /\ rx' = started + 1 /\ fetch' = started + 1 /\ dialogs' = started + 1 /\ stream' = started + 1
           /\ Launch!ListenersFollowBrowser' /\ Launch!NoStrayBrowser' /\ BlHash' /\ hash' = h
<1>. USE DEF BlInv, BlTypes, Launch!TypeOK, Launch!Fresh, Launch!Attach, Launch!NoId
<1>1. /\ started' = started + 1 /\ started' \in Nat
      /\ browser' = [id |-> started + 1, ask |-> o] /\ browser' \in alive' /\ alive' = Launch!Closed \cup {browser'}
      /\ open' \subseteq alive' /\ hash' = h
      /\ rx' = started + 1 /\ fetch' = started + 1 /\ dialogs' = started + 1 /\ stream' = started + 1
    OBVIOUS
<1>2. alive' \subseteq [id : 1..started', ask : Launch!Asks]
    <2>1. alive \subseteq [id : 1..started', ask : Launch!Asks]
        BY <1>1
    <2>. QED  BY <1>1, <2>1, BlClosed
<1>3. Launch!ListenersFollowBrowser'
    BY <1>1 DEF Launch!ListenersFollowBrowser
<1>4. Launch!NoStrayBrowser'
    BY <1>1, BlClosed DEF Launch!NoStrayBrowser
<1>5. BlHash'
    BY <1>1 DEF BlHash
<1>. QED  BY <1>1, <1>2, <1>3, <1>4, <1>5

\* When it could not be started, or is closed, there is none, nor a stray one.
LEMMA BlNoFresh ==
    ASSUME BlInv, Launch!NoFresh(Launch!Closed)
    PROVE  /\ started' = started /\ browser' = [id |-> 0, ask |-> "plain"]
           /\ open' \subseteq alive' /\ alive' \subseteq [id : 1..started', ask : Launch!Asks]
           /\ Launch!NoStrayBrowser' /\ BlHash'
           /\ stream' = 0 => Launch!ListenersFollowBrowser'
<1>. USE DEF BlInv, BlTypes, Launch!TypeOK, Launch!NoFresh, Launch!NoBrowser, Launch!NoId
<1>1. /\ started' = started /\ browser' = [id |-> 0, ask |-> "plain"] /\ alive' = Launch!Closed
      /\ open' \subseteq alive'
    OBVIOUS
<1>2. alive' \subseteq [id : 1..started', ask : Launch!Asks]
    BY <1>1, BlClosed
<1>3. Launch!NoStrayBrowser'
    BY <1>1, BlClosed DEF Launch!NoStrayBrowser
<1>. QED  BY <1>1, <1>2, <1>3 DEF BlHash, Launch!ListenersFollowBrowser

\* actions.rs: when the events of a browser that is gone are read, nothing stays
\* attached to what is not there.
LEMMA BlDrained ==
    ASSUME BlInv  PROVE Launch!Drained \in 0..started
    BY DEF BlInv, BlTypes, Launch!TypeOK, Launch!Drained, Launch!NoId

\* actions.rs: handle_launch reuses, replaces or starts a browser, and each leaves
\* listeners, hash and running browsers in agreement; one of ours that is reused
\* has the options that were asked for.
LEMMA BlLaunch ==
    ASSUME BlInv, NEW c \in Clients, Launch!Launch(c)
    PROVE  BlInv' /\ (browser'.id # 0 /\ browser'.ask \in Launch!Own /\ ask[c] \in Launch!Own
                        => Launch!launch_hash(browser'.ask) = Launch!launch_hash(ask[c]))
<1>1. ask[c] \in Launch!Asks /\ lpending' \in 0..started /\ env' = env
      /\ lpc' \in [Clients -> {"idle", "launch", "command"}] /\ ask' \in [Clients -> Launch!Asks]
    <2>1. ask[c] \in Launch!Asks /\ "plain" \in Launch!Asks
        BY BlNames DEF BlInv, BlTypes
    <2>. QED  BY <2>1, BlDrained DEF Launch!Launch, BlInv, BlTypes
<1>2. CASE Launch!NeedsRelaunch(ask[c]) /\ Launch!Relaunch(ask[c])
    <2>. USE DEF Launch!Relaunch
    <2>1. CASE Launch!NoFresh(Launch!Closed) /\ hash' \in {hash, "none"} /\ safari' \in BOOLEAN
               /\ stream' = (IF browser.id = Launch!NoId THEN stream ELSE Launch!NoId) /\ UNCHANGED <<rx, fetch, dialogs>>
        <3>1. stream' = 0
            BY <2>1 DEF BlInv, Launch!ListenersFollowBrowser, Launch!NoId
        <3>2. refs' = 0 /\ hash' \in {"none", "plain", "headed"}
            BY <1>2, <2>1 DEF Launch!NoId, BlInv, BlTypes, Launch!TypeOK
        <3>3. BlTypes'
            BY <1>1, <2>1, <3>1, <3>2, BlNoFresh, BlNames DEF BlInv, BlTypes, Launch!TypeOK
        <3>. QED  BY <2>1, <3>1, <3>3, BlNoFresh DEF BlInv
    <2>2. CASE \E h \in {hash, "none", "plain", "headed"} :
                 Launch!Fresh(ask[c], Launch!Closed, h) /\ (ask[c] \in Launch!Own => h = Launch!launch_hash(ask[c])) /\ UNCHANGED safari
        <3>1. PICK h \in {"none", "plain", "headed"} :
                 Launch!Fresh(ask[c], Launch!Closed, h) /\ (ask[c] \in Launch!Own => h = Launch!launch_hash(ask[c])) /\ UNCHANGED safari
            BY <2>2 DEF BlInv, BlTypes, Launch!TypeOK
        <3>2. /\ started' = started + 1 /\ started' \in Nat
              /\ browser' = [id |-> started + 1, ask |-> ask[c]]
              /\ open' \subseteq alive' /\ alive' \subseteq [id : 1..started', ask : Launch!Asks]
              /\ rx' = started + 1 /\ fetch' = started + 1 /\ dialogs' = started + 1 /\ stream' = started + 1
              /\ Launch!ListenersFollowBrowser' /\ Launch!NoStrayBrowser' /\ BlHash' /\ hash' = h
            BY <1>1, <3>1, BlFresh
        <3>3. refs' = 0 /\ safari' \in BOOLEAN
            BY <1>2, <3>1 DEF Launch!NoId, BlInv, BlTypes, Launch!TypeOK
        <3>4. BlTypes'
            BY <1>1, <3>1, <3>2, <3>3 DEF BlInv, BlTypes, Launch!TypeOK
        <3>. QED  BY <3>2, <3>4 DEF BlInv
    <2>3. \/ Launch!NoFresh(Launch!Closed) /\ hash' \in {hash, "none"} /\ safari' \in BOOLEAN
              /\ stream' = (IF browser.id = Launch!NoId THEN stream ELSE Launch!NoId) /\ UNCHANGED <<rx, fetch, dialogs>>
          \/ \E h \in {hash, "none", "plain", "headed"} :
                 Launch!Fresh(ask[c], Launch!Closed, h) /\ (ask[c] \in Launch!Own => h = Launch!launch_hash(ask[c])) /\ UNCHANGED safari
        BY <1>2 DEF BlInv, BlTypes, Launch!TypeOK, Launch!launch_hash
    <2>4. BlInv' /\ (browser'.id # 0 => browser'.ask = ask[c])
        BY <2>1, <2>2, <2>3, BlNoFresh DEF Launch!Fresh
    <2>. QED  BY <2>4
<1>3. CASE Launch!NeedsRelaunch(ask[c]) /\ Launch!Rollback(ask[c])
    <2>1. Launch!NoFresh(Launch!Closed) /\ hash' = "none" /\ stream' = 0 /\ refs' = 0 /\ UNCHANGED <<safari, rx, fetch, dialogs>>
        BY <1>3 DEF Launch!Rollback, Launch!NoId
    <2>2. BlTypes'
        BY <1>1, <2>1, BlNoFresh, BlNames DEF BlInv, BlTypes, Launch!TypeOK
    <2>. QED  BY <2>1, <2>2, BlNoFresh DEF BlInv
<1>4. CASE ~Launch!NeedsRelaunch(ask[c])
    <2>1. UNCHANGED <<browser, started, alive, open, hash, safari, rx, fetch, dialogs, stream, refs>>
        BY <1>4 DEF Launch!Launch, Launch!world
    <2>2. BlInv'
        BY <1>1, <2>1 DEF BlInv, BlTypes, Launch!TypeOK, Launch!ListenersFollowBrowser, Launch!NoStrayBrowser, BlHash
    <2>3. browser.id # 0 /\ (ask[c] \in Launch!Own => hash = Launch!launch_hash(ask[c]))
        BY <1>4, BlNames DEF Launch!NeedsRelaunch, Launch!NoId
    <2>. QED  BY <2>1, <2>2, <2>3 DEF BlInv, BlHash
<1>. QED  BY <1>2, <1>3, <1>4 DEF Launch!Launch

\* actions.rs: a command launches or connects when it has to, and if it has a
\* browser then, it is one that answers.
LEMMA BlCommand ==
    ASSUME BlInv, NEW c \in Clients, Launch!Command(c)
    PROVE  BlInv' /\ (browser'.id # 0 => browser' \in alive')
<1>1. lpending' \in 0..started /\ env' = env /\ ask' = ask /\ safari' = safari
      /\ lpc' \in [Clients -> {"idle", "launch", "command"}]
    BY BlDrained DEF Launch!Command, BlInv, BlTypes, Launch!NoId
<1>2. CASE Launch!Ready
    <2>1. /\ UNCHANGED <<browser, started, alive, hash, rx, fetch, dialogs, stream>> /\ open' \subseteq open
          /\ refs' \in 0..started /\ browser \in alive
        BY <1>2 DEF Launch!Command, Launch!Ready, Launch!Usable, BlInv, BlTypes, Launch!TypeOK, Launch!NoId
    <2>. QED  BY <1>1, <2>1 DEF BlInv, BlTypes, Launch!TypeOK, Launch!ListenersFollowBrowser, Launch!NoStrayBrowser, BlHash
<1>3. CASE ~Launch!Ready /\ Launch!Fresh(Launch!AutoLaunched, Launch!Closed, Launch!AutoHash)
    <2>1. Launch!AutoLaunched \in Launch!Asks /\ Launch!AutoHash \in {"none", "plain", "headed"}
          /\ (Launch!AutoLaunched \in Launch!Own => Launch!AutoHash = Launch!launch_hash(Launch!AutoLaunched))
        BY BlNames DEF Launch!AutoLaunched, Launch!AutoHash, Launch!launch_hash, BlInv, BlTypes, Launch!TypeOK
    <2>2. /\ started' = started + 1 /\ started' \in Nat
          /\ browser' = [id |-> started + 1, ask |-> Launch!AutoLaunched] /\ browser' \in alive'
          /\ open' \subseteq alive' /\ alive' \subseteq [id : 1..started', ask : Launch!Asks]
          /\ rx' = started + 1 /\ fetch' = started + 1 /\ dialogs' = started + 1 /\ stream' = started + 1
          /\ Launch!ListenersFollowBrowser' /\ Launch!NoStrayBrowser' /\ BlHash' /\ hash' = Launch!AutoHash
        BY <1>3, <2>1, BlFresh
    <2>3. refs' \in 0..started'
        <3>1. refs' \in {refs, 0, browser'.id} \/ refs' \in {refs, 0}
            BY <1>3, <2>2 DEF Launch!Command, Launch!NoId
        <3>. QED  BY <2>2, <3>1 DEF BlInv, BlTypes, Launch!TypeOK
    <2>4. BlTypes'
        BY <1>1, <2>1, <2>2, <2>3 DEF BlInv, BlTypes, Launch!TypeOK
    <2>. QED  BY <2>2, <2>4 DEF BlInv
<1>4. CASE ~Launch!Ready /\ Launch!NoFresh(Launch!Closed) /\ stream' = (IF browser.id = Launch!NoId THEN stream ELSE Launch!NoId)
           /\ UNCHANGED <<hash, rx, fetch, dialogs>>
    <2>1. stream' = 0
        BY <1>4 DEF BlInv, Launch!ListenersFollowBrowser, Launch!NoId
    <2>2. refs' \in 0..started
        BY <1>4, BlNoFresh DEF Launch!Command, Launch!NoId, BlInv, BlTypes, Launch!TypeOK
    <2>3. BlTypes'
        BY <1>1, <1>4, <2>1, <2>2, BlNoFresh, BlNames DEF BlInv, BlTypes, Launch!TypeOK
    <2>. QED  BY <1>4, <2>1, <2>3, BlNoFresh DEF BlInv
<1>. QED  BY <1>2, <1>3, <1>4 DEF Launch!Command, Launch!Ready

\* actions.rs: close leaves no browser of ours, and nothing attached to it.
LEMMA BlClose ==
    ASSUME BlInv, NEW c \in Clients, Launch!Close(c)
    PROVE  BlInv'
<1>1. /\ Launch!NoFresh(Launch!Closed) /\ hash' = "none" /\ stream' = 0 /\ fetch' = 0 /\ safari' = FALSE /\ refs' = 0
      /\ lpending' \in 0..started /\ env' = env /\ ask' = ask /\ rx' = rx /\ dialogs' = dialogs
      /\ lpc' \in [Clients -> {"idle", "launch", "command"}]
    BY BlDrained DEF Launch!Close, Launch!NoId, BlInv, BlTypes
<1>2. /\ started' = started /\ browser' = [id |-> 0, ask |-> "plain"] /\ "plain" \in Launch!Asks
      /\ open' \subseteq alive' /\ alive' \subseteq [id : 1..started', ask : Launch!Asks]
    BY <1>1, BlNoFresh, BlNames
<1>3. 0 \in 0..started /\ rx' \in 0..started /\ dialogs' \in 0..started
    BY <1>1 DEF BlInv, BlTypes, Launch!TypeOK
<1>4. BlTypes'
    BY <1>1, <1>2, <1>3 DEF BlInv, BlTypes, Launch!TypeOK
<1>. QED  BY <1>1, <1>4, BlNoFresh DEF BlInv

\* Calls, connections, dialogs and a browser that dies break none of it.
LEMMA BlOthers ==
    ASSUME BlInv, \/ UNCHANGED Launch!vars \/ Launch!Crash \/ Launch!DialogOpens
                  \/ \E c \in Clients : Launch!Call(c) \/ Launch!Connect(c)
    PROVE  BlInv'
<1>. USE DEF BlInv, BlTypes, Launch!TypeOK, Launch!ListenersFollowBrowser, Launch!NoStrayBrowser, BlHash
<1>1. CASE UNCHANGED Launch!vars
    BY <1>1 DEF Launch!vars, Launch!state, Launch!world,
        Download!vars, Download!browser
<1>2. CASE Launch!Crash
    BY <1>2 DEF Launch!Crash, Launch!state
<1>3. CASE Launch!DialogOpens
    BY <1>3 DEF Launch!DialogOpens, Launch!Usable, Launch!state
<1>4. ASSUME NEW c \in Clients, Launch!Call(c)  PROVE BlInv'
    <2>1. /\ UNCHANGED <<browser, hash, safari, rx, fetch, dialogs, stream, refs, lpending, started, alive, open>>
          /\ env' \in Launch!Flags \cup {"down"} /\ lpc' \in [Clients -> {"idle", "launch", "command"}]
          /\ ask' \in [Clients -> Launch!Asks]
        BY <1>4, BlNames DEF Launch!Call, Launch!state, Launch!world, Launch!Flags
    <2>. QED  BY <2>1
<1>5. ASSUME NEW c \in Clients, Launch!Connect(c)  PROVE BlInv'
    <2>1. /\ UNCHANGED <<env, browser, hash, safari, rx, fetch, dialogs, stream, refs, lpending, started, alive, open>>
          /\ lpc' \in [Clients -> {"idle", "launch", "command"}] /\ ask' \in [Clients -> Launch!Asks]
        BY <1>5, BlNames DEF Launch!Connect, Launch!state, Launch!world
    <2>. QED  BY <2>1
<1>. QED  BY <1>1, <1>2, <1>3, <1>4, <1>5

\* The invariant is kept by every step.
LEMMA BlStep ==
    BlInv /\ [Launch!Next]_(Launch!vars) => BlInv'
    BY BlLaunch, BlCommand, BlClose, BlOthers DEF Launch!Next

\* daemon.rs: it holds of a daemon that has just started.
LEMMA BlStart == Launch!Init => BlInv
<1>. SUFFICES ASSUME Launch!Init  PROVE BlInv
    OBVIOUS
<1>. USE BlNames DEF Launch!Init, Launch!NoBrowser, Launch!NoId
<1>1. lpc \in [Clients -> {"idle", "launch", "command"}] /\ ask \in [Clients -> Launch!Asks]
    OBVIOUS
<1>2. browser = [id |-> 0, ask |-> "plain"] /\ 0 \in 0..started /\ started \in Nat
    OBVIOUS
<1>3. /\ env = "down" /\ "plain" \in Launch!Asks /\ alive = {} /\ open = {} /\ hash = "none" /\ safari = FALSE
      /\ rx = 0 /\ fetch = 0 /\ dialogs = 0 /\ stream = 0 /\ refs = 0 /\ lpending = 0
    OBVIOUS
<1>4. BlTypes
    BY ONLY <1>1, <1>2, <1>3 DEF BlTypes, Launch!TypeOK
<1>. QED  BY <1>4 DEF BlInv, Launch!ListenersFollowBrowser, Launch!NoStrayBrowser, BlHash

(***************************************************************************)
(* Downloads, part "download": for any downloads, tabs and deadlines.      *)
(***************************************************************************)

\* The variables of the part, named as the component names them; dcmd and drx are
\* its cmd and rx.

tab == v1
dl == v2
set == v3
named == v4
saved == v5
dest == v6
dcmd == v7
drx == v8
mine == v9
mixed == v10
result == v11
USE DEF tab, dl, set, named, saved, dest, dcmd, drx, mine, mixed,
        result

\* The events a page reports, and what the commands hold.
DnKinds == {"willBegin", "inProgress", "completed", "canceled"}
DnEvent == [domain : {"Page"}, tab : Tabs, kind : DnKinds, guid : Files]
DnCommand == [at : {"idle", "click", "wait", "look"}, op : {"none", "download", "wait"},
              guid : Files \cup {None}, left : 0..Patience, looks : 0..Looks]

\* The click's download has begun.
DnBegun == mine # None /\ dl[mine] \in {"going", "completed", "canceled"}
\* The command is a download that has subscribed and not found its end.
DnListens == dcmd.op = "download" /\ dcmd.at \in {"click", "wait"}

DnTypes ==
    /\ tab \in [Files -> Tabs]
    /\ dl \in [Files -> {"none", "asked", "going", "completed", "canceled"}]
    /\ set \in BOOLEAN /\ named \subseteq Files /\ saved \subseteq Files
    /\ dest \in Files \cup {None, "old"}
    /\ dcmd \in DnCommand /\ drx \in Seq(DnEvent) /\ Len(drx) <= MaxQueue
    /\ mine \in Files \cup {None} /\ mixed \in BOOLEAN
    /\ result.kind \in {"none", "ok", "timeout", "canceled", "missing", "error"}

\* An event is of the tab of its download; the command and the requested path
\* hold downloads of the active tab only, and the directory is named before.
DnOwnTab ==
    /\ \A i \in 1..Len(drx) :
          drx[i].tab = tab[drx[i].guid] /\ dl[drx[i].guid] \in {"going", "completed", "canceled"}
    /\ dcmd.guid # None => tab[dcmd.guid] = Active
    /\ dest \in Files => tab[dest] = Active
    /\ mine # None => tab[mine] = Active /\ dl[mine] # "none"
    /\ dcmd.at \in {"click", "look"} => dcmd.op = "download"
    /\ dcmd.op = "download" => set
    /\ dcmd.at # "idle" /\ dcmd.op = "download" /\ DnBegun => mine \in named

\* Every event of the click's own download that was not read is there: its end,
\* and, unless others were heard of, its beginning before its end.
DnHeard ==
    /\ DnListens /\ mine # None /\ dl[mine] \in {"completed", "canceled"} =>
          \E i \in 1..Len(drx) : drx[i].guid = mine /\ drx[i].kind = dl[mine]
    /\ DnListens /\ ~mixed => \A i \in 1..Len(drx) : drx[i].tab = Active => drx[i].guid = mine
    /\ DnListens /\ ~mixed /\ DnBegun => dcmd.guid = mine \/
          \E i \in 1..Len(drx) : drx[i].guid = mine /\ drx[i].kind = "willBegin"
    /\ DnListens /\ ~mixed => \A i \in 1..Len(drx) :
          drx[i].tab = Active /\ drx[i].kind = "completed" => dcmd.guid = mine \/
             \E j \in 1..i - 1 : drx[j].guid = mine /\ drx[j].kind = "willBegin"
    /\ dcmd.at = "look" /\ ~mixed => mine # None /\ dcmd.guid = mine /\ mine \in named

DnInv ==
    /\ DnTypes /\ DnOwnTab /\ DnHeard
    /\ Download!OkMeansFile /\ Download!OkMeansOurs /\ Download!FileOfThisTab /\ Download!NotMissed

\* actions.rs: a command that returns tells of the file at the path.
LEMMA DnReturn ==
    ASSUME DnInv, NEW k \in {"ok", "timeout", "canceled", "missing", "error"},
           NEW f \in Files \cup {None, "old"}, Download!Return(k, f),
           UNCHANGED <<tab, dl, saved, set, mine, mixed>>, named' \subseteq named,
           f \in Files => tab[f] = Active,
           k = "ok" /\ dcmd.op = "download" => f # None /\ (~mixed /\ mine \in saved => f = mine),
           k = "timeout" => DnListens \/ dcmd.op # "download"
    PROVE  DnInv'
<1>. USE DEF DnInv, DnTypes, DnOwnTab, DnHeard, DnListens, DnBegun
<1>1. /\ dcmd'.at = "idle" /\ dcmd'.op = "none" /\ dcmd'.guid = None /\ dcmd' \in DnCommand
      /\ drx' = <<>> /\ dest' = f
    BY DownloadAssumption DEF Download!Return, Download!Idle, DnCommand
<1>2. /\ result'.kind = k /\ result'.op = dcmd.op /\ result'.file = f /\ result'.of = mine
      /\ result'.there = (mine \in saved) /\ result'.mixed = mixed
      /\ result'.state = IF mine = None THEN "none" ELSE dl[mine]
      /\ result'.unread = {drx[i].kind : i \in {j \in 1..Len(drx) : drx[j].guid = mine}}
    BY DEF Download!Return
<1>3. DnTypes' /\ DnOwnTab' /\ DnHeard'
    <2>1. DnTypes'
        BY <1>1, <1>2, DownloadAssumption
    <2>2. DnOwnTab'
        BY <1>1
    <2>3. DnHeard'
        BY <1>1
    <2>. QED  BY <2>1, <2>2, <2>3
<1>4. Download!OkMeansFile' /\ Download!OkMeansOurs' /\ Download!FileOfThisTab'
    BY <1>2 DEF Download!OkMeansFile, Download!OkMeansOurs, Download!FileOfThisTab
<1>5. Download!NotMissed'
    BY <1>2 DEF Download!NotMissed
<1>. QED  BY <1>3, <1>4, <1>5

\* The browser: a step of a download is heard of by whoever listens, once it is made.
LEMMA DnEmit ==
    ASSUME DnInv, NEW f \in Files, NEW k \in DnKinds, Download!Emit(f, k),
           UNCHANGED <<tab, set, saved, dest, dcmd, mine, result>>,
           dl' \in [Files -> {"none", "asked", "going", "completed", "canceled"}],
           \A g \in Files : g # f => dl'[g] = dl[g],
           named \subseteq named', named' \subseteq Files,
           \/ k = "willBegin" /\ dl[f] = "asked" /\ dl'[f] = "going" /\ (set => f \in named')
           \/ k = "inProgress" /\ dl'[f] = dl[f] /\ dl[f] = "going"
           \/ k \in {"completed", "canceled"} /\ dl[f] = "going" /\ dl'[f] = k
    PROVE  DnInv'
<1>. USE DownloadAssumption DEF DnInv
<1>. DEFINE e == [domain |-> "Page", tab |-> tab[f], kind |-> k, guid |-> f]
<1>1. /\ e \in DnEvent /\ e.tab = tab[f] /\ e.kind = k /\ e.guid = f
    BY DEF DnTypes, DnEvent
<1>2. \/ dcmd.at \in {"click", "wait"} /\ Len(drx) < MaxQueue /\ drx' = Append(drx, e)
         /\ mixed' = (mixed \/ (f # mine /\ tab[f] = Active))
      \/ dcmd.at \notin {"click", "wait"} /\ UNCHANGED <<drx, mixed>>
    BY DEF Download!Emit, Download!Subscribed
<1>. HIDE DEF e
<1>m. /\ mixed' \in BOOLEAN /\ (~mixed' => ~mixed)
      /\ dcmd.at \in {"click", "wait"} /\ ~mixed' => f = mine \/ tab[f] # Active
    <2>1. mixed \in BOOLEAN
        BY DEF DnTypes
    <2>2. CASE dcmd.at \in {"click", "wait"}
        <3>1. mixed' = (mixed \/ (f # mine /\ tab[f] = Active))
            BY <1>2, <2>2
        <3>2. (f # mine /\ tab[f] = Active) \in BOOLEAN
            OBVIOUS
        <3>3. CASE mixed
            <4>1. mixed' = TRUE
                BY <2>1, <3>1, <3>3, Zenon
            <4>. QED  BY <3>3, <4>1
        <3>4. CASE ~mixed
            <4>1. mixed' = (f # mine /\ tab[f] = Active)
                BY <2>1, <3>1, <3>4, Zenon
            <4>. QED  BY <3>2, <3>4, <4>1
        <3>. QED  BY <3>3, <3>4
    <2>3. CASE dcmd.at \notin {"click", "wait"}
        BY <1>2, <2>1, <2>3
    <2>. QED  BY <2>2, <2>3
<1>3. /\ drx' \in Seq(DnEvent) /\ Len(drx') <= MaxQueue
      /\ \A i \in 1..Len(drx) : i \in 1..Len(drx') /\ drx'[i] = drx[i]
      /\ \A i \in 1..Len(drx') : i \in 1..Len(drx) \/ drx'[i] = e
      /\ Len(drx) \in Nat /\ Len(drx') \in Nat
    <2>1. drx \in Seq(DnEvent) /\ Len(drx) <= MaxQueue
        BY DEF DnTypes
    <2>2. CASE drx' = Append(drx, e) /\ Len(drx) < MaxQueue
        BY <1>1, <2>1, <2>2
    <2>3. CASE drx' = drx
        BY <2>1, <2>3
    <2>. QED  BY <1>2, <2>2, <2>3
<1>4. DnTypes'
    BY <1>m, <1>3 DEF DnTypes
<1>5. DnBegun' <=> DnBegun \/ (mine = f /\ k = "willBegin")
    <2>1. mine = f => mine # None
        OBVIOUS
    <2>2. mine # f => mine = None \/ dl'[mine] = dl[mine]
        BY DEF DnTypes
    <2>. QED  BY <2>1, <2>2 DEF DnBegun
<1>6. DnOwnTab'
    <2>0. \A g \in Files : dl[g] \in {"going", "completed", "canceled"}
              => dl'[g] \in {"going", "completed", "canceled"}
        BY DEF DnTypes
    <2>e. dl'[f] \in {"going", "completed", "canceled"}
        BY DEF DnTypes
    <2>1. \A i \in 1..Len(drx') : drx'[i].tab = tab[drx'[i].guid]
              /\ dl'[drx'[i].guid] \in {"going", "completed", "canceled"}
        <3>1. ASSUME NEW i \in 1..Len(drx')
              PROVE  drx'[i].tab = tab[drx'[i].guid]
                     /\ dl'[drx'[i].guid] \in {"going", "completed", "canceled"}
            <4>1. CASE i \in 1..Len(drx)
                <5>1. drx[i] \in DnEvent
                    BY <4>1 DEF DnTypes
                <5>. QED  BY <1>3, <2>0, <4>1, <5>1 DEF DnOwnTab, DnEvent
            <4>2. CASE i \notin 1..Len(drx)
                BY <1>1, <1>3, <2>e, <4>2
            <4>. QED  BY <4>1, <4>2
        <3>. QED  BY <3>1
    <2>2. mine # None => dl'[mine] # "none"
        BY DEF DnOwnTab, DnTypes
    <2>3. dcmd.at # "idle" /\ dcmd.op = "download" /\ DnBegun' => mine \in named'
        BY <1>5 DEF DnOwnTab
    <2>. QED  BY <2>1, <2>2, <2>3 DEF DnOwnTab
<1>7. DnHeard'
    <2>1. CASE dcmd.at \notin {"click", "wait"}
        <3>1. UNCHANGED <<drx, mixed>>
            BY <1>2, <2>1
        <3>. QED  BY <2>1, <3>1 DEF DnHeard, DnListens
    <2>2. CASE dcmd.at \in {"click", "wait"}
        <3>. DEFINE n == Len(drx) + 1
        <3>1. /\ drx' = Append(drx, e) /\ (~mixed' => ~mixed /\ (f = mine \/ tab[f] # Active))
            BY <1>2, <1>m, <2>2
        <3>2. n \in 1..Len(drx') /\ drx'[n] = e /\ Len(drx') = n
            BY <1>3, <3>1 DEF DnTypes
        <3>3. DnListens /\ mine # None /\ dl'[mine] \in {"completed", "canceled"} =>
                 \E i \in 1..Len(drx') : drx'[i].guid = mine /\ drx'[i].kind = dl'[mine]
            <4>. SUFFICES ASSUME DnListens, mine # None, dl'[mine] \in {"completed", "canceled"}
                          PROVE  \E i \in 1..Len(drx') : drx'[i].guid = mine /\ drx'[i].kind = dl'[mine]
                OBVIOUS
            <4>1. CASE mine = f /\ dl'[mine] = k
                BY <1>1, <3>2, <4>1
            <4>2. CASE ~(mine = f /\ dl'[mine] = k)
                <5>1. dl'[mine] = dl[mine]
                    BY <4>2 DEF DnTypes
                <5>2. PICK i \in 1..Len(drx) : drx[i].guid = mine /\ drx[i].kind = dl[mine]
                    BY <5>1 DEF DnHeard
                <5>. QED  BY <1>3, <5>1, <5>2
            <4>. QED  BY <4>1, <4>2
        <3>4. DnListens /\ ~mixed' => \A i \in 1..Len(drx') : drx'[i].tab = Active => drx'[i].guid = mine
            BY <1>1, <1>3, <3>1 DEF DnHeard
        <3>5. DnListens /\ ~mixed' /\ DnBegun' => dcmd.guid = mine \/
                 \E i \in 1..Len(drx') : drx'[i].guid = mine /\ drx'[i].kind = "willBegin"
            <4>. SUFFICES ASSUME DnListens, ~mixed', DnBegun', dcmd.guid # mine
                          PROVE  \E i \in 1..Len(drx') : drx'[i].guid = mine /\ drx'[i].kind = "willBegin"
                OBVIOUS
            <4>1. CASE mine = f /\ k = "willBegin"
                BY <1>1, <3>2, <4>1
            <4>2. CASE DnBegun
                <5>1. PICK i \in 1..Len(drx) : drx[i].guid = mine /\ drx[i].kind = "willBegin"
                    BY <3>1, <4>2 DEF DnHeard
                <5>. QED  BY <1>3, <5>1
            <4>. QED  BY <1>5, <4>1, <4>2
        <3>6. DnListens /\ ~mixed' => \A i \in 1..Len(drx') :
                 drx'[i].tab = Active /\ drx'[i].kind = "completed" => dcmd.guid = mine \/
                    \E j \in 1..i - 1 : drx'[j].guid = mine /\ drx'[j].kind = "willBegin"
            <4>. SUFFICES ASSUME DnListens, ~mixed', dcmd.guid # mine, NEW i \in 1..Len(drx'),
                                 drx'[i].tab = Active, drx'[i].kind = "completed"
                          PROVE  \E j \in 1..i - 1 : drx'[j].guid = mine /\ drx'[j].kind = "willBegin"
                OBVIOUS
            <4>1. CASE i \in 1..Len(drx)
                <5>1. PICK j \in 1..i - 1 : drx[j].guid = mine /\ drx[j].kind = "willBegin"
                    BY <1>3, <3>1, <4>1 DEF DnHeard
                <5>2. j \in 1..Len(drx)
                    BY <1>3, <4>1
                <5>. QED  BY <1>3, <5>1, <5>2
            <4>2. CASE i \notin 1..Len(drx)
                <5>1. i = n /\ drx'[i] = e /\ f = mine /\ k = "completed"
                    BY <1>1, <1>3, <3>1, <3>2, <3>4, <4>2
                <5>2. DnBegun
                    BY <5>1, DownloadAssumption DEF DnBegun
                <5>3. PICK j \in 1..Len(drx) : drx[j].guid = mine /\ drx[j].kind = "willBegin"
                    BY <3>1, <5>2 DEF DnHeard
                <5>. QED  BY <1>3, <5>1, <5>3
            <4>. QED  BY <4>1, <4>2
        <3>. QED  BY <2>2, <3>3, <3>4, <3>5, <3>6 DEF DnHeard, DnListens
    <2>. QED  BY <2>1, <2>2
<1>8. Download!OkMeansFile' /\ Download!OkMeansOurs' /\ Download!FileOfThisTab' /\ Download!NotMissed'
    BY DEF Download!OkMeansFile, Download!OkMeansOurs, Download!FileOfThisTab, Download!NotMissed
<1>. QED  BY <1>4, <1>6, <1>7, <1>8

\* The browser: downloads begin, progress and end; a request or a file that was
\* written is not heard of.
LEMMA DnBrowser ==
    ASSUME DnInv, NEW f \in Files,
           \/ Download!PageAsks(f) \/ Download!Begins(f) \/ Download!Progresses(f)
           \/ Download!Written(f) \/ Download!Ends(f, "completed") \/ Download!Ends(f, "canceled")
    PROVE  DnInv'
<1>. USE DownloadAssumption DEF DnInv
<1>1. CASE Download!PageAsks(f)
    <2>. USE <1>1 DEF Download!PageAsks, Download!Moves
    <2>0. dl[f] = "none" /\ dl' = [dl EXCEPT ![f] = "asked"]
          /\ UNCHANGED <<tab, set, named, saved, dest, dcmd, drx, mine, mixed, result>>
        OBVIOUS
    <2>1. DnTypes'
        BY <2>0 DEF DnTypes
    <2>2. f # mine /\ \A g \in Files : g # f => dl'[g] = dl[g]
        BY <2>0 DEF DnTypes, DnOwnTab
    <2>3. \A i \in 1..Len(drx) : drx[i].guid \in Files /\ drx[i].guid # f
        <3>1. ASSUME NEW i \in 1..Len(drx) PROVE drx[i] \in DnEvent
            BY DEF DnTypes
        <3>. QED  BY <2>0, <3>1 DEF DnOwnTab, DnEvent
    <2>4. DnBegun' <=> DnBegun
        BY <2>0, <2>2 DEF DnBegun, DnTypes
    <2>5. DnOwnTab'
        BY <2>0, <2>2, <2>3, <2>4 DEF DnOwnTab, DnTypes
    <2>6. mine # None => dl'[mine] = dl[mine]
        BY <2>2 DEF DnTypes
    <2>7. DnHeard'
        BY <2>0, <2>4, <2>6 DEF DnHeard, DnListens
    <2>8. Download!OkMeansFile' /\ Download!OkMeansOurs' /\ Download!FileOfThisTab' /\ Download!NotMissed'
        BY <2>0 DEF Download!OkMeansFile, Download!OkMeansOurs, Download!FileOfThisTab, Download!NotMissed
    <2>. QED  BY <2>1, <2>5, <2>7, <2>8
<1>2. CASE Download!Begins(f)
    <2>1. /\ dl[f] = "asked" /\ dl' = [dl EXCEPT ![f] = "going"] /\ Download!Emit(f, "willBegin")
          /\ named' = IF set THEN named \cup {f} ELSE named
          /\ UNCHANGED <<tab, set, saved, dest, dcmd, mine, result>>
        BY <1>2 DEF Download!Begins, Download!Moves
    <2>2. /\ dl' \in [Files -> {"none", "asked", "going", "completed", "canceled"}]
          /\ dl'[f] = "going" /\ \A g \in Files : g # f => dl'[g] = dl[g]
        BY <2>1 DEF DnTypes
    <2>3. named \subseteq named' /\ named' \subseteq Files /\ (set => f \in named')
        BY <2>1 DEF DnTypes
    <2>4. "willBegin" \in DnKinds
        BY DEF DnKinds
    <2>. QED  BY <2>1, <2>2, <2>3, <2>4, DnEmit
<1>3. CASE Download!Progresses(f)
    <2>1. /\ dl[f] = "going" /\ Download!Emit(f, "inProgress")
          /\ UNCHANGED <<tab, dl, named, saved, set, dest, dcmd, mine, result>>
        BY <1>3 DEF Download!Progresses, Download!browser
    <2>2. /\ dl' \in [Files -> {"none", "asked", "going", "completed", "canceled"}]
          /\ dl'[f] = dl[f] /\ (\A g \in Files : g # f => dl'[g] = dl[g])
          /\ named \subseteq named' /\ named' \subseteq Files
        BY <2>1 DEF DnTypes
    <2>4. "inProgress" \in DnKinds
        BY DEF DnKinds
    <2>. QED  BY <2>1, <2>2, <2>4, DnEmit
<1>4. CASE Download!Written(f)
    <2>. USE <1>4 DEF Download!Written
    <2>1. DnTypes'
        BY DEF DnTypes
    <2>2. DnOwnTab' /\ DnHeard'
        BY DEF DnOwnTab, DnHeard, DnListens, DnBegun
    <2>3. Download!OkMeansFile' /\ Download!OkMeansOurs' /\ Download!FileOfThisTab' /\ Download!NotMissed'
        BY DEF Download!OkMeansFile, Download!OkMeansOurs, Download!FileOfThisTab, Download!NotMissed
    <2>. QED  BY <2>1, <2>2, <2>3
<1>5. ASSUME NEW how \in {"completed", "canceled"}, Download!Ends(f, how)
      PROVE  DnInv'
    <2>1. /\ dl[f] = "going" /\ dl' = [dl EXCEPT ![f] = how] /\ Download!Emit(f, how)
          /\ UNCHANGED <<tab, set, named, saved, dest, dcmd, mine, result>>
        BY <1>5 DEF Download!Ends, Download!Moves
    <2>2. /\ dl' \in [Files -> {"none", "asked", "going", "completed", "canceled"}]
          /\ dl'[f] = how /\ (\A g \in Files : g # f => dl'[g] = dl[g])
          /\ named \subseteq named' /\ named' \subseteq Files
        BY <2>1 DEF DnTypes
    <2>4. how \in DnKinds
        BY DEF DnKinds
    <2>. QED  BY <2>1, <2>2, <2>4, DnEmit
<1>. QED  BY <1>1, <1>2, <1>3, <1>4, <1>5

\* actions.rs: a command subscribes before it clicks, with an empty queue.
LEMMA DnBegins ==
    ASSUME DnInv,
           \/ Download!Download \/ Download!WaitForDownload \/ Download!DownloadFails
           \/ Download!ClickReturns \/ \E f \in Files : Download!Clicked(f)
    PROVE  DnInv'
<1>. USE DownloadAssumption DEF DnInv
<1>1. ASSUME NEW op \in {"download", "wait"}, NEW at \in {"click", "wait"}, NEW left \in 0..Patience,
             Download!Begin(op, at, left), set' \in BOOLEAN, op = "download" => set',
             at = "click" => op = "download"
      PROVE  DnInv'
    <2>1. /\ dcmd' = [at |-> at, op |-> op, guid |-> None, left |-> left, looks |-> 0]
          /\ drx' = <<>> /\ mine' = None /\ mixed' = FALSE
          /\ UNCHANGED <<tab, dl, named, saved, dest, result>>
        BY <1>1 DEF Download!Begin, Download!Idle, Download!browser
    <2>r. dcmd' \in DnCommand
        BY <2>1 DEF DnCommand
    <2>q. <<>> \in Seq(DnEvent) /\ Len(<<>>) = 0
        OBVIOUS
    <2>s. drx' \in Seq(DnEvent) /\ Len(drx') <= MaxQueue
        BY <2>1, <2>q
    <2>k. /\ UNCHANGED <<tab, dl, named, saved, dest, result>>
          /\ mine' \in Files \cup {None} /\ mixed' \in BOOLEAN /\ set' \in BOOLEAN
        BY <1>1, <2>1
    <2>2. DnTypes'
        BY <2>k, <2>r, <2>s DEF DnTypes
    <2>3. DnOwnTab'
        BY <1>1, <2>1 DEF DnOwnTab, DnBegun, DnTypes
    <2>4. DnHeard'
        BY <1>1, <2>1 DEF DnHeard, DnBegun, DnListens
    <2>5. Download!OkMeansFile' /\ Download!OkMeansOurs' /\ Download!FileOfThisTab' /\ Download!NotMissed'
        BY <2>1 DEF Download!OkMeansFile, Download!OkMeansOurs, Download!FileOfThisTab, Download!NotMissed
    <2>. QED  BY <2>2, <2>3, <2>4, <2>5
<1>2. CASE Download!Download
    BY <1>1, <1>2 DEF Download!Download, Download!set_download_behavior
<1>3. CASE Download!WaitForDownload
    BY <1>1, <1>3 DEF Download!WaitForDownload, DnTypes
<1>4. CASE Download!DownloadFails
    <2>. USE <1>4 DEF Download!DownloadFails, Download!browser
    <2>1. DnTypes'
        BY DEF DnTypes
    <2>2. DnOwnTab' /\ DnHeard'
        BY DEF DnOwnTab, DnHeard, DnListens, DnBegun
    <2>3. Download!OkMeansFile' /\ Download!OkMeansOurs' /\ Download!FileOfThisTab' /\ Download!NotMissed'
        BY DEF Download!OkMeansFile, Download!OkMeansOurs, Download!FileOfThisTab, Download!NotMissed
    <2>. QED  BY <2>1, <2>2, <2>3
<1>5. CASE Download!ClickReturns
    <2>1. /\ dcmd.at = "click" /\ dcmd' = [[dcmd EXCEPT !.at = "wait"] EXCEPT !.left = Patience]
          /\ UNCHANGED <<tab, dl, named, saved, set, dest, drx, mine, mixed, result>>
        BY <1>5 DEF Download!ClickReturns, Download!browser
    <2>2. \A q \in DnCommand : LET p == [q EXCEPT !.at = "wait"]
                             IN  p \in DnCommand /\ p.at = "wait" /\ p.op = q.op /\ p.guid = q.guid
        BY DEF DnCommand
    <2>l. \A q \in DnCommand : LET p == [q EXCEPT !.left = Patience]
                             IN  p \in DnCommand /\ p.at = q.at /\ p.op = q.op /\ p.guid = q.guid
        BY DEF DnCommand
    <2>3. dcmd' \in DnCommand /\ dcmd'.at = "wait" /\ dcmd'.op = dcmd.op /\ dcmd'.guid = dcmd.guid
        BY <2>1, <2>2, <2>l DEF DnTypes
    <2>4. DnTypes'
        BY <2>1, <2>3 DEF DnTypes
    <2>5. DnOwnTab'
        BY <2>1, <2>3 DEF DnOwnTab, DnBegun
    <2>6. DnHeard'
        BY <2>1, <2>3 DEF DnHeard, DnBegun, DnListens
    <2>7. Download!OkMeansFile' /\ Download!OkMeansOurs' /\ Download!FileOfThisTab' /\ Download!NotMissed'
        BY <2>1 DEF Download!OkMeansFile, Download!OkMeansOurs, Download!FileOfThisTab, Download!NotMissed
    <2>. QED  BY <2>4, <2>5, <2>6, <2>7
<1>6. ASSUME NEW f \in Files, Download!Clicked(f)
      PROVE  DnInv'
    <2>1. /\ dcmd.at = "click" /\ mine = None /\ tab[f] = Active /\ dl[f] = "none"
          /\ dl' = [dl EXCEPT ![f] = "asked"] /\ mine' = f
          /\ UNCHANGED <<tab, set, named, saved, dest, dcmd, drx, mixed, result>>
        BY <1>6 DEF Download!Clicked, Download!Moves
    <2>2. dl' \in [Files -> {"none", "asked", "going", "completed", "canceled"}] /\ dl'[f] = "asked"
          /\ \A g \in Files : g # f => dl'[g] = dl[g]
        BY <2>1 DEF DnTypes
    <2>3. \A i \in 1..Len(drx) : drx[i].guid \in Files /\ drx[i].guid # f
        <3>1. ASSUME NEW i \in 1..Len(drx) PROVE drx[i] \in DnEvent
            BY DEF DnTypes
        <3>. QED  BY <2>1, <3>1 DEF DnOwnTab, DnEvent
    <2>4. DnTypes'
        BY <2>1, <2>2 DEF DnTypes
    <2>5. DnListens /\ ~mixed => \A i \in 1..Len(drx) : drx[i].tab # Active
        BY <2>1, <2>3 DEF DnHeard
    <2>6. f # None /\ ~DnBegun'
        BY <2>1, <2>2 DEF DnBegun
    <2>7. DnOwnTab'
        BY <2>1, <2>2, <2>3, <2>6 DEF DnOwnTab, DnTypes
    <2>8. DnHeard'
        BY <2>1, <2>2, <2>5, <2>6 DEF DnHeard, DnListens
    <2>9. Download!OkMeansFile' /\ Download!OkMeansOurs' /\ Download!FileOfThisTab' /\ Download!NotMissed'
        BY <2>1 DEF Download!OkMeansFile, Download!OkMeansOurs, Download!FileOfThisTab, Download!NotMissed
    <2>. QED  BY <2>4, <2>7, <2>8, <2>9
<1>. QED  BY <1>2, <1>3, <1>4, <1>5, <1>6

\* actions.rs: of what is read the GUIDs announced are kept, and an end of the
\* download that was asked for is not passed over.
LEMMA DnReads ==
    ASSUME DnInv, Download!Reads
    PROVE  DnInv'
<1>. USE DownloadAssumption DEF DnInv
<1>. DEFINE e == Head(drx)
<1>1. /\ dcmd.at = "wait" /\ drx # <<>> /\ drx' = Tail(drx)
      /\ ~(e.tab = Active /\ e.kind = "completed")
      /\ ~(e.tab = Active /\ e.kind = "canceled" /\ dcmd.op = "download")
      /\ UNCHANGED <<tab, dl, named, saved, set, dest, mine, mixed, result>>
    BY DEF Download!Reads, Download!IsDownloadEvent, Download!browser
<1>2. /\ drx \in Seq(DnEvent) /\ Len(drx) \in Nat \ {0} /\ e = drx[1] /\ e \in DnEvent
      /\ drx' \in Seq(DnEvent) /\ Len(drx') = Len(drx) - 1
      /\ \A i \in 1..Len(drx') : i + 1 \in 1..Len(drx) /\ drx'[i] = drx[i + 1]
    BY <1>1 DEF DnTypes
<1>h. \A i \in 1..Len(drx) : i # 1 => i - 1 \in 1..Len(drx') /\ drx[i] = drx'[i - 1]
    <2>1. ASSUME NEW i \in 1..Len(drx), i # 1
          PROVE  i - 1 \in 1..Len(drx') /\ drx[i] = drx'[i - 1]
        <3>1. i - 1 \in 1..Len(drx') /\ (i - 1) + 1 = i
            BY ONLY <1>2, <2>1
        <3>. QED  BY ONLY <1>2, <3>1
    <2>. QED  BY ONLY <2>1, Zenon
<1>3. PICK g \in Files \cup {None} :
         /\ dcmd' = [dcmd EXCEPT !.guid = g]
         /\ IF dcmd.op = "download" /\ e.tab = Active /\ e.kind = "willBegin"
            THEN g = e.guid ELSE g = dcmd.guid
    <2>1. e.domain = "Page" /\ e.guid \in Files /\ dcmd.guid \in Files \cup {None}
        BY <1>2 DEF DnEvent, DnTypes, DnCommand
    <2>. QED  BY <2>1 DEF Download!Reads, Download!IsDownloadEvent
<1>4. dcmd' \in DnCommand /\ dcmd'.at = "wait" /\ dcmd'.op = dcmd.op /\ dcmd'.guid = g
    <2>1. \A q \in DnCommand : LET p == [q EXCEPT !.guid = g]
                             IN  p \in DnCommand /\ p.at = q.at /\ p.op = q.op /\ p.guid = g
        BY DEF DnCommand
    <2>. QED  BY <1>1, <1>3, <2>1 DEF DnTypes
<1>. HIDE DEF e
<1>5. DnTypes'
    BY <1>1, <1>2, <1>4 DEF DnTypes
<1>6. DnOwnTab'
    <2>1. \A i \in 1..Len(drx') : drx'[i].tab = tab[drx'[i].guid]
              /\ dl[drx'[i].guid] \in {"going", "completed", "canceled"}
        BY <1>2 DEF DnOwnTab
    <2>2. g # None => tab[g] = Active
        BY <1>2, <1>3 DEF DnOwnTab
    <2>3. DnBegun' <=> DnBegun
        BY <1>1 DEF DnBegun
    <2>. QED  BY <1>1, <1>4, <2>1, <2>2, <2>3 DEF DnOwnTab
<1>7. DnHeard'
    <2>0. DnListens' <=> DnListens
        BY <1>1, <1>4 DEF DnListens
    <2>t. \A i \in 1..Len(drx) : drx[i].guid = mine /\ mine # None => drx[i].tab = Active
        BY DEF DnOwnTab
    <2>m. DnListens /\ ~mixed /\ e.tab = Active /\ e.kind = "willBegin" => g = mine
        BY <1>2, <1>3 DEF DnHeard, DnListens
    <2>n. DnListens /\ ~mixed /\ dcmd.guid = mine => g = mine
        BY <1>2, <1>3, <2>m DEF DnListens
    <2>1. DnListens /\ mine # None /\ dl[mine] \in {"completed", "canceled"} =>
             \E i \in 1..Len(drx') : drx'[i].guid = mine /\ drx'[i].kind = dl[mine]
        <3>. SUFFICES ASSUME DnListens, mine # None, dl[mine] \in {"completed", "canceled"}
                      PROVE  \E i \in 1..Len(drx') : drx'[i].guid = mine /\ drx'[i].kind = dl[mine]
            OBVIOUS
        <3>1. PICK i \in 1..Len(drx) : drx[i].guid = mine /\ drx[i].kind = dl[mine]
            BY DEF DnHeard
        <3>2. i # 1
            BY <1>1, <1>2, <2>t, <3>1 DEF DnListens
        <3>. QED  BY <1>h, <3>1, <3>2
    <2>2. DnListens /\ ~mixed => \A i \in 1..Len(drx') : drx'[i].tab = Active => drx'[i].guid = mine
        BY <1>2 DEF DnHeard
    <2>3. DnListens /\ ~mixed /\ DnBegun => g = mine \/
             \E i \in 1..Len(drx') : drx'[i].guid = mine /\ drx'[i].kind = "willBegin"
        <3>. SUFFICES ASSUME DnListens, ~mixed, DnBegun, g # mine
                      PROVE  \E i \in 1..Len(drx') : drx'[i].guid = mine /\ drx'[i].kind = "willBegin"
            OBVIOUS
        <3>1. PICK i \in 1..Len(drx) : drx[i].guid = mine /\ drx[i].kind = "willBegin"
            BY <2>n DEF DnHeard
        <3>2. i # 1
            BY <1>2, <2>t, <2>m, <3>1 DEF DnBegun
        <3>. QED  BY <1>h, <3>1, <3>2
    <2>4. DnListens /\ ~mixed => \A i \in 1..Len(drx') :
             drx'[i].tab = Active /\ drx'[i].kind = "completed" => g = mine \/
                \E j \in 1..i - 1 : drx'[j].guid = mine /\ drx'[j].kind = "willBegin"
        <3>. SUFFICES ASSUME DnListens, ~mixed, g # mine, NEW i \in 1..Len(drx'),
                             drx'[i].tab = Active, drx'[i].kind = "completed"
                      PROVE  \E j \in 1..i - 1 : drx'[j].guid = mine /\ drx'[j].kind = "willBegin"
            OBVIOUS
        <3>1. PICK j \in 1..(i + 1) - 1 : drx[j].guid = mine /\ drx[j].kind = "willBegin"
            BY <1>2, <2>n DEF DnHeard
        <3>2. j \in 1..Len(drx) /\ j \in 1..i
            BY <1>2
        <3>3. drx[j] \in DnEvent
            BY <1>2, <3>2
        <3>4. mine # None
            BY <3>1, <3>3 DEF DnEvent
        <3>5. j # 1
            BY <1>2, <2>t, <2>m, <3>1, <3>2, <3>4
        <3>. QED  BY <1>h, <3>1, <3>2, <3>5
    <2>5. UNCHANGED DnBegun
        BY <1>1 DEF DnBegun
    <2>. QED  BY <1>1, <1>4, <2>0, <2>1, <2>2, <2>3, <2>4, <2>5 DEF DnHeard
<1>8. Download!OkMeansFile' /\ Download!OkMeansOurs' /\ Download!FileOfThisTab' /\ Download!NotMissed'
    BY <1>1 DEF Download!OkMeansFile, Download!OkMeansOurs, Download!FileOfThisTab, Download!NotMissed
<1>. QED  BY <1>5, <1>6, <1>7, <1>8

\* actions.rs: when no other download was heard of, the end that is read is that of
\* the one asked for, and its GUID is known by then.
LEMMA DnReadsCompleted ==
    ASSUME DnInv, Download!ReadsCompleted
    PROVE  DnInv'
<1>. USE DownloadAssumption DEF DnInv
<1>1. /\ dcmd.at = "wait" /\ drx # <<>> /\ Head(drx).kind = "completed"
      /\ UNCHANGED <<tab, dl, named, saved, set, mine, mixed>>
    BY DEF Download!ReadsCompleted, Download!browser
<1>2. drx \in Seq(DnEvent) /\ 1 \in 1..Len(drx) /\ Head(drx) = drx[1] /\ drx[1] \in DnEvent
    BY <1>1 DEF DnTypes
<1>t. drx[1].tab = Active
    BY <1>2 DEF Download!ReadsCompleted, Download!IsDownloadEvent, DnEvent
<1>3. CASE dcmd.op = "wait" /\ Download!Return("ok", dest)
    <2>1. dest \in Files \cup {None, "old"} /\ (dest \in Files => tab[dest] = Active)
        BY DEF DnTypes, DnOwnTab
    <2>. QED  BY <1>1, <1>3, <2>1, DnReturn
<1>4. CASE /\ dcmd.op = "download" /\ dcmd' = [dcmd EXCEPT !.at = "look"] /\ drx' = <<>>
           /\ UNCHANGED <<dest, result>>
    <2>1. \A q \in DnCommand : LET p == [q EXCEPT !.at = "look"]
                             IN  p \in DnCommand /\ p.at = "look" /\ p.op = q.op /\ p.guid = q.guid
        BY DEF DnCommand
    <2>2. dcmd' \in DnCommand /\ dcmd'.at = "look" /\ dcmd'.op = dcmd.op /\ dcmd'.guid = dcmd.guid
        BY <1>4, <2>1 DEF DnTypes
    <2>3. <<>> \in Seq(DnEvent) /\ Len(<<>>) = 0
        OBVIOUS
    <2>4. DnTypes'
        BY <1>1, <1>4, <2>2, <2>3 DEF DnTypes
    <2>5. DnOwnTab'
        BY <1>1, <1>4, <2>2, <2>3 DEF DnOwnTab, DnBegun
    <2>6. ~mixed => mine # None /\ dcmd.guid = mine /\ mine \in named
        <3>. SUFFICES ASSUME ~mixed PROVE mine # None /\ dcmd.guid = mine /\ mine \in named
            OBVIOUS
        <3>0. DnListens
            BY <1>1, <1>4 DEF DnListens
        <3>1. drx[1].guid = mine
            BY <1>2, <1>t, <3>0 DEF DnHeard
        <3>2. mine # None
            BY <1>2, <3>1 DEF DnEvent
        <3>3. dcmd.guid = mine
            BY <1>1, <1>2, <1>t, <3>0 DEF DnHeard
        <3>4. DnBegun
            BY <1>2, <3>1, <3>2 DEF DnBegun, DnOwnTab
        <3>. QED  BY <1>1, <1>4, <3>2, <3>3, <3>4 DEF DnOwnTab
    <2>7. DnHeard'
        BY <1>1, <1>4, <2>2, <2>3, <2>6 DEF DnHeard, DnListens
    <2>8. Download!OkMeansFile' /\ Download!OkMeansOurs' /\ Download!FileOfThisTab' /\ Download!NotMissed'
        BY <1>1, <1>4 DEF Download!OkMeansFile, Download!OkMeansOurs, Download!FileOfThisTab, Download!NotMissed
    <2>. QED  BY <2>4, <2>5, <2>7, <2>8
<1>. QED  BY <1>3, <1>4 DEF Download!ReadsCompleted

\* actions.rs: time passes, or the file is looked for once more.
LEMMA DnCounts ==
    ASSUME DnInv, Download!Tick \/ Download!LooksAgain
    PROVE  DnInv'
<1>. USE DownloadAssumption DEF DnInv
<1>1. /\ dcmd' \in DnCommand /\ dcmd'.at = dcmd.at /\ dcmd'.op = dcmd.op /\ dcmd'.guid = dcmd.guid
      /\ UNCHANGED <<tab, dl, named, saved, set, dest, drx, mine, mixed, result>>
    <2>1. CASE Download!Tick
        <3>1. \A q \in DnCommand : q.left > 0 =>
                 LET p == [q EXCEPT !.left = q.left - 1]
                 IN  p \in DnCommand /\ p.at = q.at /\ p.op = q.op /\ p.guid = q.guid
            BY DEF DnCommand
        <3>2. dcmd.left > 0 /\ dcmd' = [dcmd EXCEPT !.left = dcmd.left - 1]
            BY <2>1 DEF Download!Tick
        <3>. QED  BY <2>1, <3>1, <3>2 DEF Download!Tick, Download!browser, DnTypes
    <2>2. CASE Download!LooksAgain
        <3>1. \A q \in DnCommand : q.looks < Looks =>
                 LET p == [q EXCEPT !.looks = q.looks + 1]
                 IN  p \in DnCommand /\ p.at = q.at /\ p.op = q.op /\ p.guid = q.guid
            BY DEF DnCommand
        <3>2. dcmd.looks < Looks /\ dcmd' = [dcmd EXCEPT !.looks = dcmd.looks + 1]
            BY <2>2 DEF Download!LooksAgain
        <3>. QED  BY <2>2, <3>1, <3>2 DEF Download!LooksAgain, Download!browser, DnTypes
    <2>. QED  BY <2>1, <2>2
<1>2. DnTypes'
    BY <1>1 DEF DnTypes
<1>3. DnOwnTab' /\ DnHeard'
    BY <1>1 DEF DnOwnTab, DnHeard, DnBegun, DnListens
<1>4. Download!OkMeansFile' /\ Download!OkMeansOurs' /\ Download!FileOfThisTab' /\ Download!NotMissed'
    BY <1>1 DEF Download!OkMeansFile, Download!OkMeansOurs, Download!FileOfThisTab, Download!NotMissed
<1>. QED  BY <1>2, <1>3, <1>4

\* actions.rs: whichever way a command returns, ok means its file.
LEMMA DnReturns ==
    ASSUME DnInv,
           \/ Download!ClickFails \/ Download!ReadsCanceled \/ Download!TimesOut
           \/ Download!Renames \/ Download!GivesUp
    PROVE  DnInv'
<1>. USE DownloadAssumption DEF DnInv
<1>0. dest \in Files \cup {None, "old"} /\ (dest \in Files => tab[dest] = Active)
    BY DEF DnTypes, DnOwnTab
<1>1. CASE Download!ClickFails
    BY <1>0, <1>1, DnReturn DEF Download!ClickFails, Download!browser
<1>2. CASE Download!ReadsCanceled
    BY <1>0, <1>2, DnReturn DEF Download!ReadsCanceled, Download!browser
<1>3. CASE Download!TimesOut
    BY <1>0, <1>3, DnReturn DEF Download!TimesOut, Download!browser, DnListens
<1>4. CASE Download!Renames
    <2>1. /\ dcmd.at = "look" /\ dcmd.guid \in saved \cap named
          /\ UNCHANGED <<tab, dl, saved, set, mine, mixed>> /\ named' \subseteq named
        BY <1>4 DEF Download!Renames, Download!Exists
    <2>2. CASE Download!Return("ok", dcmd.guid)
        <3>1. dcmd.guid \in Files /\ dcmd.guid # None /\ tab[dcmd.guid] = Active
            BY <2>1 DEF DnTypes, DnOwnTab
        <3>2. ~mixed => dcmd.guid = mine
            BY <2>1 DEF DnHeard
        <3>. QED  BY <2>1, <2>2, <3>1, <3>2, DnReturn
    <2>3. CASE Download!Return("error", dest)
        BY <1>0, <2>1, <2>3, DnReturn
    <2>. QED  BY <1>4, <2>2, <2>3 DEF Download!Renames
<1>5. CASE Download!GivesUp
    <2>1. /\ dcmd.at = "look" /\ dcmd.guid \notin saved \cap named
          /\ UNCHANGED <<tab, dl, saved, named, set, mine, mixed>>
        BY <1>5 DEF Download!GivesUp, Download!Exists, Download!browser
    <2>2. CASE dest = None /\ Download!Return("missing", dest)
        BY <1>0, <2>1, <2>2, DnReturn
    <2>3. CASE dest # None /\ Download!Return("ok", dest)
        <3>1. ~mixed => mine \notin saved
            BY <2>1 DEF DnHeard
        <3>. QED  BY <1>0, <2>1, <2>3, <3>1, DnReturn
    <2>. QED  BY <1>5, <2>2, <2>3 DEF Download!GivesUp
<1>. QED  BY <1>1, <1>2, <1>3, <1>4, <1>5

\* actions.rs: before the first command nothing has been heard of.
LEMMA DnStart ==
    ASSUME Download!Init
    PROVE  DnInv
<1>. USE DownloadAssumption DEF Download!Init, Download!Idle
<1>1. DnTypes
    <2>1. dcmd \in DnCommand
        BY DEF DnCommand
    <2>2. <<>> \in Seq(DnEvent) /\ Len(<<>>) = 0
        OBVIOUS
    <2>3. drx \in Seq(DnEvent) /\ Len(drx) <= MaxQueue
        BY <2>2
    <2>. QED  BY <2>1, <2>3 DEF DnTypes
<1>2. DnOwnTab
    BY DEF DnOwnTab, DnBegun
<1>3. DnHeard
    BY DEF DnHeard, DnListens
<1>4. Download!OkMeansFile /\ Download!OkMeansOurs /\ Download!FileOfThisTab /\ Download!NotMissed
    BY DEF Download!OkMeansFile, Download!OkMeansOurs, Download!FileOfThisTab, Download!NotMissed
<1>. QED  BY <1>1, <1>2, <1>3, <1>4 DEF DnInv

\* actions.rs: what a result may say.
LEMMA DnPromise ==
    DnInv => /\ Download!TypeOK /\ Download!OkMeansFile /\ Download!OkMeansOurs
             /\ Download!FileOfThisTab /\ Download!NotMissed
    BY DEF DnInv, DnTypes, DnCommand, Download!TypeOK

\* The invariant is kept by every step.
LEMMA DnKeeps ==
    ASSUME DnInv, [Download!Next]_(Download!vars)
    PROVE  DnInv'
<1>1. CASE UNCHANGED Download!vars
    <2>. USE <1>1 DEF Download!vars, Download!browser
    <2>1. DnTypes' /\ DnOwnTab' /\ DnHeard'
        BY DEF DnInv, DnTypes, DnOwnTab, DnHeard, DnListens, DnBegun
    <2>2. Download!OkMeansFile' /\ Download!OkMeansOurs' /\ Download!FileOfThisTab' /\ Download!NotMissed'
        BY DEF DnInv, Download!OkMeansFile, Download!OkMeansOurs, Download!FileOfThisTab, Download!NotMissed
    <2>. QED  BY <2>1, <2>2 DEF DnInv
<1>2. CASE Download!Next
    <2>1. ASSUME NEW f \in Files, Download!Clicked(f)
          PROVE  DnInv'
        BY <2>1, DnBegins
    <2>2. ASSUME NEW f \in Files,
                 \/ Download!PageAsks(f) \/ Download!Begins(f) \/ Download!Progresses(f)
                 \/ Download!Written(f)
          PROVE  DnInv'
        BY <2>2, DnBrowser
    <2>3. ASSUME NEW f \in Files, NEW how \in {"completed", "canceled"}, Download!Ends(f, how)
          PROVE  DnInv'
        BY <2>3, DnBrowser
    <2>4. CASE Download!Download \/ Download!WaitForDownload \/ Download!DownloadFails \/ Download!ClickReturns
        BY <2>4, DnBegins
    <2>5. CASE Download!Reads
        BY <2>5, DnReads
    <2>6. CASE Download!ReadsCompleted
        BY <2>6, DnReadsCompleted
    <2>7. CASE Download!Tick \/ Download!LooksAgain
        BY <2>7, DnCounts
    <2>8. CASE \/ Download!ClickFails \/ Download!ReadsCanceled \/ Download!TimesOut
               \/ Download!Renames \/ Download!GivesUp
        BY <2>8, DnReturns
    <2>. QED  BY <1>2, <2>1, <2>2, <2>3, <2>4, <2>5, <2>6, <2>7, <2>8 DEF Download!Next, Download!Command
<1>. QED  BY <1>1, <1>2

(***************************************************************************)
(* Traces and profiles, part "trace": for any limit, any channel, any       *)
(* number of batches and of events of other kinds.                         *)
(***************************************************************************)

\* at[i] events have gone by when i messages have: a batch has the next ones, and
\* nothing is left when the browser is complete.
Span(S, at, count) ==
    \A i \in 1 .. Len(S) :
        \/ /\ S[i].is = "batch" /\ at[i - 1] < at[i]
           /\ S[i] = Trace!Batch(at[i - 1], at[i] - at[i - 1])
        \/ S[i].is = "other" /\ at[i] = at[i - 1]
        \/ S[i].is = "complete" /\ at[i] = at[i - 1] /\ at[i] = count

\* The browser's tracing v3 has its events in its batches, in order.
GatheredInv ==
    v3 # None =>
        /\ Len(v3.batches) <= MaxBatches
        /\ \A i \in 1 .. Len(v3.batches) : v3.batches[i].is = "batch"
        /\ \E at \in [0 .. Len(v3.batches) -> 0 .. v3.count] :
             /\ at[0] = 0 /\ at[Len(v3.batches)] = v3.count
             /\ Span(v3.batches, at, v3.count)

\* The messages that are still to be read have what was not taken, unless a batch
\* was left out.
Collected(coming, n, got, dropped) ==
    \E at \in [0 .. Len(coming) -> 0 .. n] :
        /\ Span(coming, at, n)
        /\ dropped => Len(got) < at[0]
        /\ ~dropped => got = [i \in 1 .. at[0] |-> i]

\* A stream comes without events; what was left out is missing; and until the loop
\* lags behind the channel, nothing else is.
CollectedInv(s) ==
    /\ s.mode = "stream" => s.got = <<>> /\ ~s.dropped
    /\ s.dropped => Len(s.got) < Len(s.all)
    /\ ~s.lag =>
         LET coming == s.queue \o s.left IN
           /\ s.mode = "stream" => \A i \in 1 .. Len(coming) : coming[i].is # "batch"
           /\ s.mode = "events" => Collected(coming, Len(s.all), s.got, s.dropped)

\* The stop v5.
StopInv ==
    v5 # None =>
        /\ v3 = None
        /\ v5.all = [i \in 1 .. Len(v5.all) |-> i]
        /\ v5.kind = "profile" => Len(v5.got) <= Limit
        /\ CollectedInv(v5)

TraceInv ==
    /\ Trace!TypeOK /\ Trace!FlagIsTrue
    /\ GatheredInv /\ StopInv
    /\ Trace!SavedIsWhole /\ Trace!ProfileWithinLimit

\* A message is one of three kinds, a batch of consecutive numbers.
LEMMA TraceMessages ==
    /\ \A m \in Trace!Messages : m.is \in {"batch", "other", "complete"}
    /\ \A m \in Trace!Messages : m.is = "batch" => m.events \in Seq(Nat)
    /\ Trace!Other \in Trace!Messages /\ Trace!Other.is = "other"
    /\ Trace!Complete \in Trace!Messages /\ Trace!Complete.is = "complete"
    /\ \A a, n \in Nat : /\ Trace!Batch(a, n) \in Trace!Messages
                         /\ Trace!Batch(a, n).is = "batch"
                         /\ Len(Trace!Batch(a, n).events) = n
                         /\ \A i \in 1 .. n : Trace!Batch(a, n).events[i] = a + i
<1>1. Trace!Other.is = "other" /\ Trace!Complete.is = "complete"
    BY DEF Trace!Other, Trace!Complete
<1>2. ASSUME NEW a \in Nat, NEW n \in Nat
      PROVE  /\ Trace!Batch(a, n) \in Trace!Messages
             /\ Trace!Batch(a, n).is = "batch"
             /\ Len(Trace!Batch(a, n).events) = n
             /\ \A i \in 1 .. n : Trace!Batch(a, n).events[i] = a + i
    <2>1. [i \in 1 .. n |-> a + i] \in Seq(Nat) /\ Len([i \in 1 .. n |-> a + i]) = n
        OBVIOUS
    <2>. QED  BY <2>1 DEF Trace!Batch, Trace!Messages
<1>. QED  BY <1>1, <1>2 DEF Trace!Messages

\* A message that has been read.
LEMMA SpanTail ==
    ASSUME NEW S \in Seq(Trace!Messages), S # <<>>, NEW c \in Nat,
           NEW at \in [0 .. Len(S) -> 0 .. c], Span(S, at, c)
    PROVE  \E rest \in [0 .. Len(Tail(S)) -> 0 .. c] : Span(Tail(S), rest, c) /\ rest[0] = at[1]
<1>1. Len(S) \in Nat /\ Len(S) # 0 /\ Len(Tail(S)) = Len(S) - 1
    OBVIOUS
<1>2. \A i \in 1 .. Len(Tail(S)) : Tail(S)[i] = S[i + 1]
    OBVIOUS
<1>. DEFINE rest == [i \in 0 .. Len(Tail(S)) |-> at[i + 1]]
<1>3. \A i \in 0 .. Len(Tail(S)) : i + 1 \in 0 .. Len(S)
    BY <1>1
<1>4. rest \in [0 .. Len(Tail(S)) -> 0 .. c] /\ rest[0] = at[1]
    BY <1>1, <1>3
<1>5. ASSUME NEW i \in 1 .. Len(Tail(S))
      PROVE  rest[i] = at[i + 1] /\ rest[i - 1] = at[(i + 1) - 1] /\ Tail(S)[i] = S[i + 1]
             /\ i + 1 \in 1 .. Len(S)
    BY <1>1, <1>2
<1>. HIDE DEF rest
<1>6. Span(Tail(S), rest, c)
    BY <1>5 DEF Span
<1>. QED  BY <1>4, <1>6

\* Numbers and more numbers.
LEMMA Joined ==
    ASSUME NEW a \in Seq(Nat), NEW b \in Seq(Nat)
    PROVE  a \o b \in Seq(Nat) /\ Len(a \o b) = Len(a) + Len(b)
    OBVIOUS

\* The next n numbers after the first a.
LEMMA Counting ==
    ASSUME NEW a \in Nat, NEW n \in Nat, NEW e \in Seq(Nat), Len(e) = n,
           \A i \in 1 .. n : e[i] = a + i
    PROVE  [i \in 1 .. a |-> i] \o e = [i \in 1 .. a + n |-> i]
<1>. DEFINE first == [i \in 1 .. a |-> i]  numbers == [i \in 1 .. a + n |-> i]
<1>1. first \in Seq(Nat) /\ Len(first) = a /\ \A i \in 1 .. a : first[i] = i
    OBVIOUS
<1>2. numbers \in Seq(Nat) /\ Len(numbers) = a + n /\ \A i \in 1 .. a + n : numbers[i] = i
    OBVIOUS
<1>. HIDE DEF first, numbers
<1>. DEFINE more == first \o e
<1>3. more \in Seq(Nat) /\ Len(more) = a + n
    BY ONLY <1>1, e \in Seq(Nat), Len(e) = n, a \in Nat, n \in Nat
<1>4. ASSUME NEW i \in 1 .. a + n PROVE more[i] = i
    <2>1. i \in 1 .. Len(first) + Len(e)
        BY ONLY <1>1, Len(e) = n, i \in 1 .. a + n
    <2>2. more[i] = IF i <= Len(first) THEN first[i] ELSE e[i - Len(first)]
        BY ONLY <1>1, e \in Seq(Nat), <2>1
    <2>3. CASE i <= a
        BY ONLY <1>1, <2>2, <2>3, i \in 1 .. a + n
    <2>4. CASE ~ (i <= a)
        <3>1. i - a \in 1 .. n /\ a + (i - a) = i
            BY ONLY <2>4, a \in Nat, n \in Nat, i \in 1 .. a + n
        <3>. QED  BY ONLY <1>1, <2>2, <2>4, <3>1, \A k \in 1 .. n : e[k] = a + k
    <2>. QED  BY ONLY <2>3, <2>4
<1>. HIDE DEF more
<1>5. more = numbers
    BY ONLY <1>2, <1>3, <1>4
<1>. QED  BY <1>5 DEF more, first, numbers

\* The next message is taken: a batch may be left out.
LEMMA CollectedTail ==
    ASSUME NEW S \in Seq(Trace!Messages), S # <<>>, NEW c \in Nat, NEW got \in Seq(Nat),
           NEW dropped \in BOOLEAN, Collected(S, c, got, dropped)
    PROVE  /\ S[1].is = "other" => Collected(Tail(S), c, got, dropped)
           /\ S[1].is = "batch" => /\ Collected(Tail(S), c, got, TRUE)
                                  /\ Collected(Tail(S), c, got \o S[1].events, dropped)
                                  /\ Len(got) < c
                                  /\ (dropped => Len(got \o S[1].events) < c)
           /\ S[1].is = "complete" => /\ (dropped => Len(got) < c)
                                     /\ (~dropped => got = [i \in 1 .. c |-> i])
<1>1. PICK at \in [0 .. Len(S) -> 0 .. c] :
         /\ Span(S, at, c)
         /\ dropped => Len(got) < at[0]
         /\ ~dropped => got = [i \in 1 .. at[0] |-> i]
    BY DEF Collected
<1>2. PICK rest \in [0 .. Len(Tail(S)) -> 0 .. c] : Span(Tail(S), rest, c) /\ rest[0] = at[1]
    BY <1>1, SpanTail
<1>3. 1 \in 1 .. Len(S) /\ 0 \in 0 .. Len(S) /\ 1 \in 0 .. Len(S) /\ 1 - 1 = 0
    OBVIOUS
<1>4. at[0] \in Nat /\ at[1] \in Nat /\ Len(got) \in Nat
    <2>1. at[0] \in 0 .. c /\ at[1] \in 0 .. c
        BY ONLY at \in [0 .. Len(S) -> 0 .. c], <1>3
    <2>. QED  BY ONLY <2>1, c \in Nat, got \in Seq(Nat)
<1>5. \/ /\ S[1].is = "batch" /\ at[0] < at[1]
         /\ S[1] = Trace!Batch(at[0], at[1] - at[0])
      \/ S[1].is = "other" /\ at[1] = at[0]
      \/ S[1].is = "complete" /\ at[1] = at[0] /\ at[1] = c
    BY ONLY <1>1, <1>3 DEF Span
<1>6. CASE S[1].is = "other"
    <2>1. at[1] = at[0]
        BY ONLY <1>5, <1>6
    <2>2. Collected(Tail(S), c, got, dropped)
        BY ONLY <1>1, <1>2, <2>1 DEF Collected
    <2>. QED  BY ONLY <1>6, <2>2
<1>7. CASE S[1].is = "complete"
    BY ONLY <1>1, <1>5, <1>7
<1>8. CASE S[1].is = "batch"
    <2>. DEFINE events == S[1].events  n == at[1] - at[0]
    <2>1. at[0] < at[1] /\ S[1] = Trace!Batch(at[0], n)
        BY ONLY <1>5, <1>8
    <2>2. n \in Nat /\ at[0] + n = at[1]
        <3>1. at[0] < at[1]
            BY ONLY <2>1
        <3>. QED  BY ONLY <1>4, <3>1
    <2>. HIDE DEF n
    <2>3. events \in Seq(Nat) /\ Len(events) = n /\ \A i \in 1 .. n : events[i] = at[0] + i
        <3>1. Trace!Batch(at[0], n) \in Trace!Messages
            BY ONLY <1>4, <2>2, TraceMessages
        <3>2. /\ Len(Trace!Batch(at[0], n).events) = n
              /\ \A i \in 1 .. n : Trace!Batch(at[0], n).events[i] = at[0] + i
            BY ONLY <1>4, <2>2, TraceMessages
        <3>3. S[1].events \in Seq(Nat)
            BY ONLY <1>8, <2>1, <3>1, TraceMessages
        <3>. QED  BY ONLY <2>1, <3>2, <3>3
    <2>. HIDE DEF events
    <2>4. ~dropped => Len(got) = at[0] /\ \A i \in 1 .. at[0] : got[i] = i
        BY ONLY <1>1, <1>4
    <2>5. Collected(Tail(S), c, got, TRUE)
        <3>1. Len(got) < at[1]
            BY ONLY <1>1, <1>4, <2>1, <2>4
        <3>. QED  BY ONLY <1>2, <3>1 DEF Collected
    <2>. DEFINE more == got \o events
    <2>6. more \in Seq(Nat) /\ Len(more) = Len(got) + n
        <3>1. events \in Seq(Nat) /\ Len(events) = n
            BY ONLY <2>3
        <3>2. got \in Seq(Nat)
            OBVIOUS
        <3>3. got \o events \in Seq(Nat) /\ Len(got \o events) = Len(got) + Len(events)
            BY ONLY <3>1, <3>2, Joined
        <3>. QED  BY ONLY <3>1, <3>3
    <2>7. dropped => Len(more) < at[1]
        BY ONLY <1>1, <1>4, <2>2, <2>6
    <2>8. ASSUME ~dropped PROVE more = [i \in 1 .. at[1] |-> i]
        <3>1. got = [i \in 1 .. at[0] |-> i]
            BY ONLY <1>1, <2>8
        <3>2. [i \in 1 .. at[0] |-> i] \o events = [i \in 1 .. at[0] + n |-> i]
            BY ONLY <1>4, <2>2, <2>3, Counting
        <3>. QED  BY ONLY <2>2, <3>1, <3>2
    <2>. HIDE DEF more
    <2>9. Collected(Tail(S), c, more, dropped)
        BY ONLY <1>2, <2>7, <2>8 DEF Collected
    <2>10. Len(got) < c /\ (dropped => Len(more) < c)
        <3>1. at[1] <= c /\ at[0] < at[1] /\ (dropped => Len(got) < at[0]) /\ (~dropped => Len(got) = at[0])
            <4>1. at[1] \in 0 .. c
                BY ONLY at \in [0 .. Len(S) -> 0 .. c], <1>3
            <4>. QED  BY ONLY <1>1, <2>1, <2>4, <4>1, c \in Nat
        <3>2. Len(more) \in Nat
            BY ONLY <2>6
        <3>. QED  BY ONLY <1>4, <2>7, <3>1, <3>2, c \in Nat, dropped \in BOOLEAN
    <2>. QED  BY ONLY <1>8, <2>5, <2>9, <2>10 DEF more, events
<1>9. S[1] \in Trace!Messages
    BY <1>3
<1>. QED  BY ONLY <1>6, <1>7, <1>8, <1>9, TraceMessages

\* A sequence with one more element in between.
LEMMA Inserted ==
    ASSUME NEW M, NEW q \in Seq(M), NEW l \in Seq(M), NEW x \in M
    PROVE  /\ Len(q) \in Nat /\ Len(l) \in Nat
           /\ Len(q \o l) = Len(q) + Len(l) /\ Len(Append(q, x) \o l) = Len(q \o l) + 1
           /\ \A i \in 1 .. Len(Append(q, x) \o l) :
                 (Append(q, x) \o l)[i] = IF i <= Len(q) THEN (q \o l)[i]
                                         ELSE IF i = Len(q) + 1 THEN x ELSE (q \o l)[i - 1]
<1>1. /\ Append(q, x) \in Seq(M) /\ Len(q) \in Nat /\ Len(l) \in Nat
      /\ Len(Append(q, x)) = Len(q) + 1
      /\ \A i \in 1 .. Len(q) + 1 : Append(q, x)[i] = IF i <= Len(q) THEN q[i] ELSE x
    OBVIOUS
<1>2. Len(q \o l) = Len(q) + Len(l) /\ Len(Append(q, x) \o l) = Len(q) + 1 + Len(l)
    BY ONLY <1>1, q \in Seq(M), l \in Seq(M)
<1>3. ASSUME NEW i \in 1 .. Len(q) + 1 + Len(l)
      PROVE  (Append(q, x) \o l)[i] = IF i <= Len(q) THEN (q \o l)[i]
                                     ELSE IF i = Len(q) + 1 THEN x ELSE (q \o l)[i - 1]
    <2>1. CASE i <= Len(q)
        BY <1>1, <2>1
    <2>2. CASE i = Len(q) + 1
        BY <1>1, <2>2
    <2>3. CASE i > Len(q) + 1
        BY <1>1, <2>3
    <2>. QED  BY <1>1, <2>1, <2>2, <2>3
<1>. QED  BY ONLY <1>1, <1>2, <1>3

\* A message of another kind that comes in between.
LEMMA SpanInsert ==
    ASSUME NEW q \in Seq(Trace!Messages), NEW l \in Seq(Trace!Messages), NEW c \in Nat,
           NEW at \in [0 .. Len(q \o l) -> 0 .. c], Span(q \o l, at, c)
    PROVE  \E more \in [0 .. Len(Append(q, Trace!Other) \o l) -> 0 .. c] :
              Span(Append(q, Trace!Other) \o l, more, c) /\ more[0] = at[0]
<1>. DEFINE S == q \o l
            T == Append(q, Trace!Other) \o l
            more == [i \in 0 .. Len(T) |-> IF i <= Len(q) THEN at[i] ELSE at[i - 1]]
<1>0. Trace!Other \in Trace!Messages
    BY ONLY TraceMessages
<1>1. /\ Len(q) \in Nat /\ Len(l) \in Nat /\ Len(S) = Len(q) + Len(l) /\ Len(T) = Len(S) + 1
    BY ONLY <1>0, q \in Seq(Trace!Messages), l \in Seq(Trace!Messages), Inserted
<1>2. \A i \in 1 .. Len(T) :
         T[i] = IF i <= Len(q) THEN S[i] ELSE IF i = Len(q) + 1 THEN Trace!Other ELSE S[i - 1]
    BY ONLY <1>0, q \in Seq(Trace!Messages), l \in Seq(Trace!Messages), Inserted
<1>3. more \in [0 .. Len(T) -> 0 .. c]
    BY <1>1
<1>4. \A i \in 0 .. Len(T) : more[i] = IF i <= Len(q) THEN at[i] ELSE at[i - 1]
    OBVIOUS
<1>. HIDE DEF more, T
<1>5. ASSUME NEW i \in 1 .. Len(T)
      PROVE  \/ /\ T[i].is = "batch" /\ more[i - 1] < more[i]
                /\ T[i] = Trace!Batch(more[i - 1], more[i] - more[i - 1])
             \/ T[i].is = "other" /\ more[i] = more[i - 1]
             \/ T[i].is = "complete" /\ more[i] = more[i - 1] /\ more[i] = c
    <2>1. CASE i <= Len(q)
        <3>1. T[i] = S[i] /\ i \in 1 .. Len(S) /\ more[i] = at[i] /\ more[i - 1] = at[i - 1]
            BY <1>1, <1>2, <1>4, <2>1
        <3>. QED  BY <3>1 DEF Span
    <2>2. CASE i = Len(q) + 1
        <3>1. i \in 0 .. Len(T) /\ i - 1 \in 0 .. Len(T) /\ ~ (i <= Len(q)) /\ i - 1 <= Len(q)
            BY ONLY <1>1, <2>2, i \in 1 .. Len(T)
        <3>2. more[i] = at[i - 1] /\ more[i - 1] = at[i - 1]
            BY ONLY <1>4, <3>1
        <3>3. T[i] = Trace!Other
            BY ONLY <1>2, <2>2, <3>1, i \in 1 .. Len(T)
        <3>4. T[i].is = "other"
            BY ONLY <3>3, TraceMessages
        <3>. QED  BY ONLY <3>2, <3>4
    <2>3. CASE i > Len(q) + 1
        <3>1. /\ T[i] = S[i - 1] /\ i - 1 \in 1 .. Len(S)
              /\ more[i] = at[i - 1] /\ more[i - 1] = at[(i - 1) - 1]
            <4>1. /\ i \in 0 .. Len(T) /\ i - 1 \in 0 .. Len(T) /\ i - 1 \in 1 .. Len(S)
                  /\ ~ (i <= Len(q)) /\ ~ (i - 1 <= Len(q)) /\ i # Len(q) + 1
                BY ONLY <1>1, <2>3, i \in 1 .. Len(T)
            <4>2. T[i] = S[i - 1]
                BY ONLY <1>2, <4>1, i \in 1 .. Len(T)
            <4>3. more[i] = at[i - 1] /\ more[i - 1] = at[(i - 1) - 1]
                BY ONLY <1>4, <4>1
            <4>. QED  BY ONLY <4>1, <4>2, <4>3
        <3>. QED  BY <3>1 DEF Span
    <2>. QED  BY <1>1, <2>1, <2>2, <2>3
<1>6. Span(T, more, c)
    BY <1>5 DEF Span
<1>7. more[0] = at[0]
    BY <1>1, <1>4
<1>. QED  BY <1>3, <1>6, <1>7 DEF T

\* Messages keep their order on the way through the channel.
LEMMA Passing ==
    ASSUME NEW q \in Seq(Trace!Messages), NEW l \in Seq(Trace!Messages)
    PROVE  /\ l # <<>> => Append(q, Head(l)) \o Tail(l) = q \o l
           /\ q # <<>> => Tail(q) \o l = Tail(q \o l) /\ Head(q) = (q \o l)[1] /\ q \o l # <<>>
           /\ q \o l \in Seq(Trace!Messages)
<1>1. ASSUME l # <<>> PROVE Append(q, Head(l)) \o Tail(l) = q \o l
    <2>. DEFINE A == Append(q, Head(l)) \o Tail(l)  B == q \o l
    <2>1. Head(l) \in Trace!Messages /\ Tail(l) \in Seq(Trace!Messages) /\ Len(Tail(l)) = Len(l) - 1
          /\ Len(l) \in Nat /\ Len(q) \in Nat /\ Len(l) # 0
        BY <1>1
    <2>2. A \in Seq(Trace!Messages) /\ B \in Seq(Trace!Messages) /\ Len(A) = Len(B)
        BY <2>1
    <2>3. \A i \in 1 .. Len(B) : A[i] = B[i]
        BY <2>1, <1>1
    <2>. HIDE DEF A, B
    <2>4. A = B
        BY <2>2, <2>3
    <2>. QED  BY <2>4 DEF A, B
<1>2. ASSUME q # <<>> PROVE Tail(q) \o l = Tail(q \o l) /\ Head(q) = (q \o l)[1] /\ q \o l # <<>>
    <2>. DEFINE A == Tail(q) \o l  B == Tail(q \o l)
    <2>1. Tail(q) \in Seq(Trace!Messages) /\ Len(Tail(q)) = Len(q) - 1 /\ Len(q) # 0
          /\ Len(l) \in Nat /\ Len(q) \in Nat /\ q \o l \in Seq(Trace!Messages)
          /\ Len(q \o l) = Len(q) + Len(l) /\ q \o l # <<>>
        BY <1>2
    <2>2. A \in Seq(Trace!Messages) /\ B \in Seq(Trace!Messages) /\ Len(A) = Len(B)
        BY <2>1
    <2>3. \A i \in 1 .. Len(B) : A[i] = B[i]
        BY <2>1
    <2>. HIDE DEF A, B
    <2>4. A = B
        BY <2>2, <2>3
    <2>. QED  BY <2>1, <2>4 DEF A, B
<1>3. q \o l \in Seq(Trace!Messages)
    OBVIOUS
<1>. QED  BY ONLY <1>1, <1>2, <1>3

\* TabSwitch: the active tab is no part of it.
LEMMA TraceTab ==
    ASSUME TraceInv, Trace!TabSwitch
    PROVE  TraceInv'
<1>1. UNCHANGED <<v1, v3, v4, v5, v6, v8>> /\ v2' \in Tabs
    BY DEF Trace!TabSwitch
<1>2. v7' \in 0 .. MaxSteps
    BY TraceAssumption DEF Trace!TabSwitch, Trace!Step, TraceInv, Trace!TypeOK
<1>3. Trace!TypeOK'
    BY <1>1, <1>2 DEF TraceInv, Trace!TypeOK
<1>. QED  BY <1>1, <1>3 DEF TraceInv, Trace!FlagIsTrue, GatheredInv, StopInv, CollectedInv,
        Trace!SavedIsWhole, Trace!ProfileWithinLimit

\* Gather: the next events make the next batch.
LEMMA TraceGather ==
    ASSUME TraceInv, Trace!Gather
    PROVE  TraceInv'
<1>. USE DEF TraceInv
<1>1. /\ v3 # None /\ v5 = None /\ Len(v3.batches) < MaxBatches
      /\ UNCHANGED <<v1, v2, v4, v5, v6, v7, v8>>
    BY DEF Trace!Gather
<1>2. PICK n \in 1 .. 2 :
         v3' = [v3 EXCEPT !.batches = Append(v3.batches, Trace!Batch(v3.count, n)), !.count = v3.count + n]
    BY DEF Trace!Gather
<1>3. v3 \in Trace!Tracings
    BY <1>1 DEF Trace!TypeOK
<1>. DEFINE b == v3.batches  c == v3.count  m == Trace!Batch(c, n)
<1>4. b \in Seq(Trace!Messages) /\ c \in Nat /\ m \in Trace!Messages /\ m.is = "batch" /\ n \in Nat \ {0}
      /\ Len(b) \in Nat
    BY <1>3, TraceMessages DEF Trace!Tracings
<1>5. /\ v3'.batches = Append(b, m) /\ v3'.count = c + n /\ v3' \in Trace!Tracings
    <2>1. Append(b, m) \in Seq(Trace!Messages) /\ c + n \in Nat
        BY <1>4
    <2>2. v3' = [v3 EXCEPT !.batches = Append(b, m), !.count = c + n]
        BY <1>2
    <2>. HIDE DEF b, c, m
    <2>. QED  BY ONLY <1>3, <2>1, <2>2 DEF Trace!Tracings
<1>6. v3' # None
    BY <1>5, TraceAssumption
<1>7. PICK at \in [0 .. Len(b) -> 0 .. c] : at[0] = 0 /\ at[Len(b)] = c /\ Span(b, at, c)
    BY <1>1 DEF GatheredInv
<1>8. \A i \in 1 .. Len(b) : b[i].is = "batch"
    BY <1>1 DEF GatheredInv
<1>. DEFINE more == [i \in 0 .. Len(b) + 1 |-> IF i <= Len(b) THEN at[i] ELSE c + n]
<1>. HIDE DEF m, b, c
<1>9. /\ more \in [0 .. Len(b) + 1 -> 0 .. c + n] /\ more[0] = 0 /\ more[Len(b) + 1] = c + n
      /\ \A i \in 0 .. Len(b) : more[i] = at[i]
    BY <1>4, <1>7
<1>. HIDE DEF more
<1>10. /\ Len(Append(b, m)) = Len(b) + 1 /\ Append(b, m)[Len(b) + 1] = m
       /\ \A i \in 1 .. Len(b) : Append(b, m)[i] = b[i]
    BY <1>4
<1>11. ASSUME NEW i \in 1 .. Len(b) + 1
       PROVE  /\ Append(b, m)[i].is = "batch" /\ more[i - 1] < more[i]
              /\ Append(b, m)[i] = Trace!Batch(more[i - 1], more[i] - more[i - 1])
    <2>1. CASE i \in 1 .. Len(b)
        <3>1. more[i] = at[i] /\ more[i - 1] = at[i - 1] /\ Append(b, m)[i] = b[i] /\ b[i].is = "batch"
            BY ONLY <1>4, <1>8, <1>9, <1>10, <2>1
        <3>2. at[i - 1] < at[i] /\ b[i] = Trace!Batch(at[i - 1], at[i] - at[i - 1])
            BY ONLY <1>7, <1>8, <2>1 DEF Span
        <3>. QED  BY ONLY <3>1, <3>2
    <2>2. CASE i = Len(b) + 1
        <3>1. more[i] = c + n /\ more[i - 1] = c
            BY ONLY <1>4, <1>7, <1>9, <2>2
        <3>2. (c + n) - c = n /\ c < c + n
            BY ONLY <1>4
        <3>. QED  BY ONLY <1>4, <1>10, <2>2, <3>1, <3>2 DEF m
    <2>. QED  BY <1>4, <2>1, <2>2
<1>12. Span(Append(b, m), more, c + n)
    BY ONLY <1>10, <1>11 DEF Span
<1>13. GatheredInv'
    <2>1. Len(Append(b, m)) <= MaxBatches
        BY <1>1, <1>4, <1>10, TraceAssumption DEF b
    <2>2. \A i \in 1 .. Len(Append(b, m)) : Append(b, m)[i].is = "batch"
        BY ONLY <1>10, <1>11
    <2>3. \E at2 \in [0 .. Len(Append(b, m)) -> 0 .. c + n] :
             /\ at2[0] = 0 /\ at2[Len(Append(b, m))] = c + n /\ Span(Append(b, m), at2, c + n)
        BY ONLY <1>9, <1>10, <1>12
    <2>. QED  BY ONLY <1>5, <2>1, <2>2, <2>3 DEF GatheredInv
<1>14. Trace!TypeOK'
    <2>1. v1 /\ v5 = None
        BY <1>1 DEF Trace!TypeOK
    <2>. QED  BY <1>1, <1>5, <2>1 DEF Trace!TypeOK
<1>15. StopInv' /\ Trace!FlagIsTrue'
    BY <1>1, <1>6 DEF StopInv, Trace!FlagIsTrue
<1>. QED  BY <1>1, <1>13, <1>14, <1>15 DEF Trace!SavedIsWhole, Trace!ProfileWithinLimit

\* Start: a tracing that was refused puts no flag up, nor does one that was not
\* answered.
LEMMA TraceStart ==
    ASSUME TraceInv, NEW kind \in Trace!Kinds, Trace!Start(kind)
    PROVE  TraceInv'
<1>. USE DEF TraceInv
<1>1. /\ v5 = None /\ v1 /\ ~v4 /\ v7 < MaxSteps /\ v7' = v7 + 1 /\ UNCHANGED <<v1, v2, v5, v6>>
    BY DEF Trace!Start, Trace!Step
<1>2. v7' \in 0 .. MaxSteps
    BY <1>1, TraceAssumption DEF Trace!TypeOK
<1>3. CASE v3 # None
    <2>1. UNCHANGED <<v3, v4, v8>>
        BY <1>3 DEF Trace!Start
    <2>2. Trace!TypeOK'
        BY <1>1, <1>2, <2>1 DEF Trace!TypeOK
    <2>. QED  BY <1>1, <2>1, <2>2 DEF Trace!FlagIsTrue, GatheredInv, StopInv, Trace!SavedIsWhole,
            Trace!ProfileWithinLimit
<1>4. CASE v3 = None
    <2>1. /\ v3' = [tab |-> v2, mode |-> Trace!Mode(kind), batches |-> <<>>, count |-> 0]
          /\ v4' \in BOOLEAN /\ v8' = ~v4'
        BY <1>4 DEF Trace!Start
    <2>2. Trace!Mode(kind) \in Trace!Modes
        BY DEF Trace!Mode, Trace!Modes
    <2>3. v3' \in Trace!Tracings
        BY <1>1, <2>1, <2>2 DEF Trace!Tracings, Trace!TypeOK
    <2>4. v3' # None
        BY <2>3, TraceAssumption
    <2>5. Trace!TypeOK'
        BY <1>1, <1>2, <2>1, <2>3 DEF Trace!TypeOK
    <2>6. GatheredInv'
        <3>1. v3'.batches = <<>> /\ v3'.count = 0
            BY <2>1
        <3>. DEFINE at == [i \in 0 .. 0 |-> 0]
        <3>2. at \in [0 .. 0 -> 0 .. 0] /\ at[0] = 0 /\ Len(<<>>) = 0 /\ 1 .. 0 = {} /\ 0 <= MaxBatches
            BY TraceAssumption
        <3>. HIDE DEF at
        <3>3. Span(<<>>, at, 0)
            BY <3>2 DEF Span
        <3>. QED  BY <3>1, <3>2, <3>3 DEF GatheredInv
    <2>7. StopInv' /\ Trace!FlagIsTrue'
        BY <1>1, <2>1, <2>4 DEF StopInv, Trace!FlagIsTrue
    <2>. QED  BY <1>1, <2>5, <2>6, <2>7 DEF Trace!SavedIsWhole, Trace!ProfileWithinLimit
<1>. QED  BY <1>3, <1>4

\* Stop: everything gathered is still to come.
LEMMA TraceStop ==
    ASSUME TraceInv, NEW kind \in Trace!Kinds, Trace!Stop(kind)
    PROVE  TraceInv'
<1>. USE DEF TraceInv
<1>1. /\ v5 = None /\ v1 /\ v4 /\ v7 < MaxSteps /\ v7' = v7 + 1
      /\ UNCHANGED <<v1, v2, v4, v6>>
    BY DEF Trace!Stop, Trace!Step
<1>2. v7' \in 0 .. MaxSteps
    BY <1>1, TraceAssumption DEF Trace!TypeOK
<1>4. CASE v3' = v3 /\ v5' = v5 /\ v8' = v8
    <2>1. Trace!TypeOK'
        BY <1>1, <1>2, <1>4 DEF Trace!TypeOK
    <2>. QED  BY <1>1, <1>4, <2>1 DEF Trace!FlagIsTrue, GatheredInv, StopInv, Trace!SavedIsWhole,
            Trace!ProfileWithinLimit
<1>6. CASE v3' = None /\ v8' = TRUE /\ v5' = v5
    <2>1. Trace!TypeOK'
        BY <1>1, <1>2, <1>6 DEF Trace!TypeOK
    <2>. QED  BY <1>1, <1>6, <2>1 DEF Trace!FlagIsTrue, GatheredInv, StopInv, Trace!SavedIsWhole,
            Trace!ProfileWithinLimit
<1>5. CASE ~ (v3' = v3 /\ v5' = v5 /\ v8' = v8) /\ ~ (v3' = None /\ v8' = TRUE /\ v5' = v5)
    <2>0. v3 # None /\ v3 \in Trace!Tracings
        BY <1>5 DEF Trace!Stop, Trace!TypeOK
    <2>. DEFINE b == v3.batches  c == v3.count
                sent == IF v3.mode = "events" THEN b ELSE <<>>
                numbers == [i \in 1 .. c |-> i]
    <2>1. /\ v3' = None /\ v8' = v8
          /\ v5' = [kind |-> kind, mode |-> v3.mode, all |-> numbers, noise |-> 0,
                    left |-> Append(sent, Trace!Complete),
                    queue |-> <<>>, lag |-> FALSE, got |-> <<>>, dropped |-> FALSE]
        BY <1>5 DEF Trace!Stop
    <2>2. b \in Seq(Trace!Messages) /\ c \in Nat /\ sent \in Seq(Trace!Messages) /\ v3.mode \in Trace!Modes
        BY <2>0 DEF Trace!Tracings
    <2>3. numbers \in Seq(Nat) /\ Len(numbers) = c
        BY <2>2
    <2>. HIDE DEF b, c, numbers
    <2>4. Len(sent) \in Nat /\ Len(sent) <= MaxBatches
        BY <2>0, <2>2, TraceAssumption DEF GatheredInv, b
    <2>. DEFINE coming == <<>> \o Append(sent, Trace!Complete)
    <2>5. coming = Append(sent, Trace!Complete) /\ Append(sent, Trace!Complete) \in Seq(Trace!Messages)
        BY <2>2, TraceMessages
    <2>6. /\ Len(coming) = Len(sent) + 1 /\ coming[Len(sent) + 1] = Trace!Complete
          /\ \A i \in 1 .. Len(sent) : coming[i] = sent[i]
        <3>1. Trace!Complete \in Trace!Messages
            BY TraceMessages
        <3>. HIDE DEF sent
        <3>2. /\ Len(Append(sent, Trace!Complete)) = Len(sent) + 1
              /\ Append(sent, Trace!Complete)[Len(sent) + 1] = Trace!Complete
              /\ \A i \in 1 .. Len(sent) : Append(sent, Trace!Complete)[i] = sent[i]
            BY ONLY <2>2, <3>1
        <3>. QED  BY ONLY <2>5, <3>2
    <2>. HIDE DEF coming
    <2>7. v5' \in Trace!Stops
        <3>1. 0 \in 0 .. MaxNoise
            BY TraceAssumption
        <3>2. <<>> \in Seq(Trace!Messages) /\ <<>> \in Seq(Nat)
            OBVIOUS
        <3>. HIDE DEF sent
        <3>. QED  BY <2>1, <2>2, <2>3, <2>5, <3>1, <3>2 DEF Trace!Stops
    <2>8. v5' # None
        BY <2>7, TraceAssumption
    <2>9. Trace!TypeOK'
        <3>1. Len(v5'.queue) <= Capacity
            BY <2>1, TraceAssumption
        <3>. QED  BY <1>1, <1>2, <2>1, <2>7, <3>1 DEF Trace!TypeOK
    <2>10. CollectedInv(v5')
        <3>1. /\ v5'.queue \o v5'.left = coming /\ v5'.mode = v3.mode /\ v5'.got = <<>>
              /\ v5'.dropped = FALSE /\ v5'.all = numbers /\ v5'.lag = FALSE
            BY <2>1 DEF coming
        <3>2. CASE v3.mode = "stream"
            <4>1. sent = <<>> /\ Len(sent) = 0
                BY <3>2
            <4>2. \A i \in 1 .. Len(coming) : coming[i] = Trace!Complete
                BY ONLY <2>6, <4>1
            <4>3. \A i \in 1 .. Len(coming) : coming[i].is # "batch"
                BY <4>2, TraceMessages
            <4>. QED  BY <3>1, <3>2, <4>3 DEF CollectedInv
        <3>3. CASE v3.mode = "events"
            <4>1. sent = b /\ Len(b) \in Nat
                BY <3>3, <2>4
            <4>2. PICK at \in [0 .. Len(b) -> 0 .. c] : at[0] = 0 /\ at[Len(b)] = c /\ Span(b, at, c)
                BY <2>0 DEF GatheredInv, b, c
            <4>. DEFINE more == [i \in 0 .. Len(b) + 1 |-> IF i <= Len(b) THEN at[i] ELSE c]
            <4>3. /\ more \in [0 .. Len(b) + 1 -> 0 .. c] /\ more[0] = 0 /\ more[Len(b) + 1] = c
                  /\ \A i \in 0 .. Len(b) : more[i] = at[i]
                BY <2>2, <4>1, <4>2
            <4>. HIDE DEF more
            <4>4. ASSUME NEW i \in 1 .. Len(coming)
                  PROVE  \/ /\ coming[i].is = "batch" /\ more[i - 1] < more[i]
                            /\ coming[i] = Trace!Batch(more[i - 1], more[i] - more[i - 1])
                         \/ coming[i].is = "other" /\ more[i] = more[i - 1]
                         \/ coming[i].is = "complete" /\ more[i] = more[i - 1] /\ more[i] = c
                <5>1. CASE i \in 1 .. Len(b)
                    <6>1. more[i] = at[i] /\ more[i - 1] = at[i - 1] /\ coming[i] = b[i]
                        BY ONLY <2>6, <4>1, <4>3, <5>1
                    <6>. QED  BY ONLY <4>2, <5>1, <6>1 DEF Span
                <5>2. CASE i = Len(b) + 1
                    <6>1. more[i] = c /\ more[i - 1] = c
                        BY ONLY <4>1, <4>2, <4>3, <5>2
                    <6>2. coming[i].is = "complete"
                        BY ONLY <2>6, <4>1, <5>2, TraceMessages
                    <6>. QED  BY ONLY <6>1, <6>2
                <5>. QED  BY ONLY <2>6, <4>1, <5>1, <5>2
            <4>5. Span(coming, more, c)
                BY <4>4 DEF Span
            <4>6. <<>> = [i \in 1 .. more[0] |-> i]
                BY <4>3
            <4>7. more \in [0 .. Len(coming) -> 0 .. c]
                BY ONLY <2>6, <4>1, <4>3
            <4>8. Collected(coming, c, <<>>, FALSE)
                BY ONLY <4>5, <4>6, <4>7 DEF Collected
            <4>9. v5'.mode = "events" /\ Len(v5'.all) = c
                BY ONLY <2>3, <3>1, <3>3
            <4>. QED  BY ONLY <3>1, <4>8, <4>9 DEF CollectedInv
        <3>. QED  BY <2>2, <3>2, <3>3 DEF Trace!Modes
    <2>11. StopInv'
        <3>1. v5'.kind = kind /\ Len(v5'.got) = 0 /\ v5'.all = numbers
            BY <2>1
        <3>2. v5'.all = [i \in 1 .. Len(v5'.all) |-> i]
            BY <2>3, <3>1 DEF numbers
        <3>3. Len(v5'.got) <= Limit
            BY <3>1, TraceAssumption
        <3>. QED  BY <2>1, <2>10, <3>2, <3>3 DEF StopInv
    <2>12. GatheredInv' /\ Trace!FlagIsTrue'
        BY <1>1, <2>0, <2>1, <2>8 DEF GatheredInv, Trace!FlagIsTrue
    <2>. QED  BY <1>1, <2>9, <2>11, <2>12 DEF Trace!SavedIsWhole, Trace!ProfileWithinLimit
<1>. QED  BY <1>4, <1>5, <1>6

\* The bounds are numbers, and a channel holds something.
LEMMA TraceBounds ==
    MaxBatches \in Nat /\ Limit \in Nat /\ MaxNoise \in Nat /\ Capacity \in Nat /\ Capacity # 0
    BY ONLY TraceAssumption, Zenon

\* A step of a stop that goes on.
LEMMA TraceGoesOn ==
    ASSUME TraceInv, v5 # None, UNCHANGED <<v1, v2, v3, v4, v6, v7, v8>>,
           v5' \in Trace!Stops, StopInv',
           Len(v5'.queue) <= Capacity
    PROVE  TraceInv'
<1>1. v5' # None
    BY TraceAssumption
<1>2. Trace!TypeOK'
    BY DEF TraceInv, Trace!TypeOK
<1>3. Trace!FlagIsTrue' /\ GatheredInv'
    BY <1>1 DEF TraceInv, Trace!FlagIsTrue, GatheredInv
<1>. QED  BY <1>2, <1>3 DEF TraceInv, Trace!SavedIsWhole, Trace!ProfileWithinLimit

\* What is known of a stop under way.
LEMMA TraceStopTypes ==
    ASSUME TraceInv, v5 # None
    PROVE  /\ v5 \in Trace!Stops /\ v5.lag \in BOOLEAN /\ v3 = None
           /\ v5.kind \in Trace!Kinds /\ v5.mode \in Trace!Modes
           /\ v5.all \in Seq(Nat) /\ v5.noise \in 0 .. MaxNoise /\ v5.noise \in Nat
           /\ v5.left \in Seq(Trace!Messages) /\ v5.queue \in Seq(Trace!Messages)
           /\ v5.got \in Seq(Nat) /\ v5.dropped \in BOOLEAN
           /\ Len(v5.queue) \in Nat /\ Len(v5.left) \in Nat
           /\ Len(v5.queue) <= Capacity
           /\ v5.kind = "profile" => Len(v5.got) <= Limit
           /\ v5.all = [i \in 1 .. Len(v5.all) |-> i]
           /\ CollectedInv(v5)
<1>1. v5 \in Trace!Stops /\ Len(v5.queue) <= Capacity
    BY DEF TraceInv, Trace!TypeOK
<1>2. StopInv
    BY DEF TraceInv
<1>3. /\ v5.kind \in Trace!Kinds /\ v5.mode \in Trace!Modes /\ v5.lag \in BOOLEAN
      /\ v5.all \in Seq(Nat) /\ v5.noise \in 0 .. MaxNoise
      /\ v5.left \in Seq(Trace!Messages) /\ v5.queue \in Seq(Trace!Messages)
      /\ v5.got \in Seq(Nat) /\ v5.dropped \in BOOLEAN
    BY <1>1 DEF Trace!Stops
<1>4. v5.noise \in Nat /\ Len(v5.queue) \in Nat /\ Len(v5.left) \in Nat
    BY <1>3, TraceAssumption
<1>. QED  BY <1>1, <1>2, <1>3, <1>4 DEF StopInv

\* A full channel loses its oldest event, and then the receiver has lagged.
LEMMA TraceArrives ==
    ASSUME TraceInv, v5 # None, NEW e \in Trace!Messages
    PROVE  /\ Trace!Arrives(e).queue \in Seq(Trace!Messages)
           /\ Len(Trace!Arrives(e).queue) <= Capacity
           /\ Trace!Arrives(e).lag \in BOOLEAN
           /\ ~Trace!Arrives(e).lag => ~v5.lag /\ Trace!Arrives(e).queue = Append(v5.queue, e)
<1>. DEFINE q == v5.queue  kept == IF Len(q) = Capacity THEN Tail(q) ELSE q
<1>1. q \in Seq(Trace!Messages) /\ Len(q) \in Nat /\ Len(q) <= Capacity /\ v5.lag \in BOOLEAN
    BY TraceStopTypes
<1>2. /\ Trace!Arrives(e).queue = Append(kept, e)
      /\ Trace!Arrives(e).lag = (v5.lag \/ Len(q) = Capacity)
    BY DEF Trace!Arrives
<1>. HIDE DEF q
<1>3. kept \in Seq(Trace!Messages) /\ Len(kept) \in Nat /\ Len(kept) + 1 <= Capacity
    <2>1. CASE Len(q) = Capacity
        <3>1. q # <<>> /\ Len(q) # 0
            BY <1>1, <2>1, TraceBounds
        <3>2. Tail(q) \in Seq(Trace!Messages) /\ Len(Tail(q)) = Len(q) - 1
            BY ONLY <1>1, <3>1
        <3>. QED  BY ONLY <1>1, <2>1, <3>1, <3>2
    <2>2. CASE Len(q) # Capacity
        BY ONLY <1>1, <2>2, TraceBounds
    <2>. QED  BY <2>1, <2>2
<1>4. ~Trace!Arrives(e).lag => ~v5.lag /\ kept = q
    BY <1>1, <1>2
<1>. HIDE DEF kept
<1>5. Append(kept, e) \in Seq(Trace!Messages) /\ Len(Append(kept, e)) = Len(kept) + 1
    BY ONLY <1>3, e \in Trace!Messages
<1>. QED  BY <1>1, <1>2, <1>3, <1>4, <1>5 DEF q

\* Emit: as long as the channel has room, the order is kept.
LEMMA TraceEmit ==
    ASSUME TraceInv, Trace!Emit
    PROVE  TraceInv'
<1>. DEFINE q == v5.queue  l == v5.left  a == Trace!Arrives(Head(l))
<1>1. /\ v5 # None /\ l # <<>> /\ UNCHANGED <<v1, v2, v3, v4, v6, v7, v8>>
      /\ v5' = [v5 EXCEPT !.left = Tail(l), !.queue = a.queue, !.lag = a.lag]
    BY DEF Trace!Emit
<1>2. /\ v5 \in Trace!Stops /\ v3 = None /\ v5.mode \in Trace!Modes
      /\ l \in Seq(Trace!Messages) /\ q \in Seq(Trace!Messages)
      /\ v5.kind = "profile" => Len(v5.got) <= Limit
      /\ v5.all = [i \in 1 .. Len(v5.all) |-> i]
      /\ CollectedInv(v5)
    BY <1>1, TraceStopTypes
<1>. HIDE DEF l
<1>3. Head(l) \in Trace!Messages /\ Tail(l) \in Seq(Trace!Messages)
    BY <1>1, <1>2
<1>4. /\ a.queue \in Seq(Trace!Messages) /\ Len(a.queue) <= Capacity /\ a.lag \in BOOLEAN
      /\ ~a.lag => ~v5.lag /\ a.queue = Append(q, Head(l))
    BY <1>1, <1>3, TraceArrives
<1>. HIDE DEF a, q
<1>5. /\ v5' \in Trace!Stops /\ v5'.left = Tail(l) /\ v5'.queue = a.queue /\ v5'.lag = a.lag
      /\ v5'.kind = v5.kind /\ v5'.mode = v5.mode /\ v5'.all = v5.all
      /\ v5'.got = v5.got /\ v5'.dropped = v5.dropped
    BY <1>1, <1>2, <1>3, <1>4 DEF Trace!Stops
<1>6. ~v5'.lag => ~v5.lag /\ v5'.queue \o v5'.left = v5.queue \o v5.left
    <2>1. q \in Seq(Trace!Messages) /\ l \in Seq(Trace!Messages) /\ l # <<>>
        BY ONLY <1>1, <1>2
    <2>2. Append(q, Head(l)) \o Tail(l) = q \o l
        BY ONLY <2>1, Passing
    <2>3. ~v5'.lag => ~v5.lag /\ v5'.queue \o v5'.left = q \o l
        BY ONLY <1>4, <1>5, <2>2
    <2>. QED  BY ONLY <2>3 DEF q, l
<1>7. CollectedInv(v5')
    BY ONLY <1>2, <1>5, <1>6 DEF CollectedInv
<1>8. StopInv'
    BY <1>1, <1>2, <1>5, <1>7 DEF StopInv
<1>. QED  BY <1>1, <1>4, <1>5, <1>8, TraceGoesOn

\* Noise: an event of another kind is not mistaken for a batch.
LEMMA TraceNoise ==
    ASSUME TraceInv, Trace!Noise
    PROVE  TraceInv'
<1>. DEFINE q == v5.queue  l == v5.left  a == Trace!Arrives(Trace!Other)
            T == Append(q, Trace!Other) \o l
<1>1. /\ v5 # None /\ v5.noise < MaxNoise /\ UNCHANGED <<v1, v2, v3, v4, v6, v7, v8>>
      /\ v5' = [v5 EXCEPT !.noise = v5.noise + 1, !.queue = a.queue, !.lag = a.lag]
    BY DEF Trace!Noise
<1>2. /\ v5 \in Trace!Stops /\ v3 = None /\ v5.mode \in Trace!Modes
      /\ v5.noise \in 0 .. MaxNoise /\ v5.noise \in Nat
      /\ v5.all \in Seq(Nat) /\ v5.got \in Seq(Nat) /\ v5.dropped \in BOOLEAN
      /\ l \in Seq(Trace!Messages) /\ q \in Seq(Trace!Messages)
      /\ v5.kind = "profile" => Len(v5.got) <= Limit
      /\ v5.all = [i \in 1 .. Len(v5.all) |-> i]
      /\ CollectedInv(v5)
    BY <1>1, TraceStopTypes
<1>3. /\ a.queue \in Seq(Trace!Messages) /\ Len(a.queue) <= Capacity /\ a.lag \in BOOLEAN
      /\ ~a.lag => ~v5.lag /\ a.queue = Append(q, Trace!Other)
    BY <1>1, TraceArrives, TraceMessages
<1>4. v5.noise + 1 \in 0 .. MaxNoise
    BY <1>1, <1>2, TraceBounds
<1>. HIDE DEF a, q, l, T
<1>5. /\ v5' \in Trace!Stops /\ v5'.left = l /\ v5'.queue = a.queue /\ v5'.lag = a.lag
      /\ v5'.kind = v5.kind /\ v5'.mode = v5.mode /\ v5'.all = v5.all
      /\ v5'.got = v5.got /\ v5'.dropped = v5.dropped
    BY <1>1, <1>2, <1>3, <1>4 DEF Trace!Stops, l
<1>6. ASSUME ~v5'.lag, v5.mode = "stream"
      PROVE  \A i \in 1 .. Len(T) : T[i].is # "batch"
    <2>1. \A i \in 1 .. Len(q \o l) : (q \o l)[i].is # "batch"
        BY <1>2, <1>3, <1>5, <1>6 DEF CollectedInv, q, l
    <2>2. Trace!Other \in Trace!Messages /\ Trace!Other.is # "batch"
        BY ONLY TraceMessages
    <2>3. /\ Len(q) \in Nat /\ Len(T) = Len(q \o l) + 1 /\ Len(q \o l) = Len(q) + Len(l) /\ Len(l) \in Nat
          /\ \A i \in 1 .. Len(T) : T[i] = IF i <= Len(q) THEN (q \o l)[i]
                                           ELSE IF i = Len(q) + 1 THEN Trace!Other ELSE (q \o l)[i - 1]
        BY ONLY <1>2, <2>2, Inserted DEF T
    <2>4. ASSUME NEW i \in 1 .. Len(T) PROVE T[i].is # "batch"
        <3>1. CASE i <= Len(q)
            <4>1. i \in 1 .. Len(q \o l)
                BY ONLY <2>3, <2>4, <3>1
            <4>. QED  BY ONLY <2>1, <2>3, <2>4, <3>1, <4>1
        <3>2. CASE i = Len(q) + 1
            <4>1. ~ (i <= Len(q))
                BY ONLY <2>3, <3>2
            <4>. QED  BY ONLY <2>2, <2>3, <2>4, <3>2, <4>1
        <3>3. CASE ~ (i <= Len(q)) /\ i # Len(q) + 1
            <4>1. i - 1 \in 1 .. Len(q \o l)
                BY ONLY <2>3, <2>4, <3>3
            <4>. QED  BY ONLY <2>1, <2>3, <2>4, <3>3, <4>1
        <3>. QED  BY ONLY <3>1, <3>2, <3>3
    <2>. QED  BY ONLY <2>4
<1>7. ASSUME ~v5'.lag, v5.mode = "events"
      PROVE  Collected(T, Len(v5.all), v5.got, v5.dropped)
    <2>. DEFINE c == Len(v5.all)  got == v5.got  dropped == v5.dropped
    <2>1. c \in Nat
        BY <1>2
    <2>2. Collected(q \o l, c, got, dropped)
        BY <1>2, <1>3, <1>5, <1>7 DEF CollectedInv, q, l
    <2>. HIDE DEF c, got, dropped
    <2>3. PICK at \in [0 .. Len(q \o l) -> 0 .. c] :
             /\ Span(q \o l, at, c)
             /\ dropped => Len(got) < at[0]
             /\ ~dropped => got = [i \in 1 .. at[0] |-> i]
        BY ONLY <2>2 DEF Collected
    <2>4. \E more \in [0 .. Len(T) -> 0 .. c] : Span(T, more, c) /\ more[0] = at[0]
        <3>1. q \in Seq(Trace!Messages) /\ l \in Seq(Trace!Messages)
            BY ONLY <1>2
        <3>. QED  BY ONLY <2>1, <2>3, <3>1, SpanInsert DEF T
    <2>5. Collected(T, c, got, dropped)
        BY ONLY <2>3, <2>4 DEF Collected
    <2>. QED  BY ONLY <2>5 DEF c, got, dropped
<1>8. ~v5'.lag => v5'.queue \o v5'.left = T
    BY ONLY <1>3, <1>5 DEF T
<1>9. CollectedInv(v5')
    BY ONLY <1>2, <1>5, <1>6, <1>7, <1>8 DEF CollectedInv
<1>10. StopInv'
    BY <1>1, <1>2, <1>5, <1>9 DEF StopInv
<1>. QED  BY <1>1, <1>3, <1>5, <1>10, TraceGoesOn

\* Receive: one turn of the loop takes a batch, or leaves it out and warns.
LEMMA TraceReceive ==
    ASSUME TraceInv, Trace!Receive
    PROVE  TraceInv'
<1>. DEFINE q == v5.queue  l == v5.left  m == Head(v5.queue)
<1>1. /\ v5 # None /\ ~v5.lag /\ q # <<>> /\ m.is # "complete" /\ UNCHANGED <<v1, v2, v3, v4, v6, v7, v8>>
      /\ v5' = IF m.is = "other" THEN [v5 EXCEPT !.queue = Tail(q)] ELSE Trace!Taken(v5, m.events)
    BY DEF Trace!Receive
<1>2. /\ v5 \in Trace!Stops /\ v3 = None
      /\ v5.kind \in Trace!Kinds /\ v5.mode \in Trace!Modes
      /\ v5.all \in Seq(Nat) /\ v5.all = [i \in 1 .. Len(v5.all) |-> i]
      /\ l \in Seq(Trace!Messages) /\ q \in Seq(Trace!Messages)
      /\ v5.got \in Seq(Nat) /\ v5.dropped \in BOOLEAN
      /\ Len(q) <= Capacity
      /\ CollectedInv(v5)
    BY <1>1, TraceStopTypes
<1>3. m \in Trace!Messages /\ Tail(q) \in Seq(Trace!Messages) /\ Len(Tail(q)) = Len(q) - 1
      /\ Len(q) \in Nat /\ Len(l) \in Nat
    BY <1>1, <1>2
<1>. DEFINE coming == q \o l
<1>4. /\ coming \in Seq(Trace!Messages) /\ coming # <<>> /\ m = coming[1] /\ Tail(q) \o l = Tail(coming)
    BY <1>1, <1>2, Passing
<1>5. m.is = "other" \/ m.is = "batch"
    BY <1>1, <1>3, TraceMessages
<1>6. m.is = "batch" => v5.mode = "events" /\ m.events \in Seq(Nat)
    <2>1. 1 \in 1 .. Len(coming)
        <3>. HIDE DEF coming
        <3>. QED  BY ONLY <1>4
    <2>2. v5.mode = "stream" => coming[1].is # "batch"
        BY <1>1, <1>2, <2>1 DEF CollectedInv
    <2>. QED  BY <1>2, <1>3, <1>4, <2>2, TraceMessages DEF Trace!Modes
<1>. HIDE DEF m
<1>7. \E got \in Seq(Nat), dropped \in BOOLEAN :
         /\ v5' = [v5 EXCEPT !.queue = Tail(q), !.got = got, !.dropped = dropped]
         /\ v5.mode = "stream" => got = v5.got /\ dropped = v5.dropped
         /\ v5.mode = "events" => Collected(Tail(coming), Len(v5.all), got, dropped)
         /\ dropped => Len(got) < Len(v5.all)
         /\ v5.kind = "profile" => Len(got) <= Limit
    <2>. DEFINE c == Len(v5.all)
    <2>1. c \in Nat
        BY <1>2
    <2>2. v5.mode = "events" => Collected(coming, c, v5.got, v5.dropped)
        BY <1>1, <1>2 DEF CollectedInv
    <2>3. v5.kind = "profile" => Len(v5.got) <= Limit
        BY <1>1 DEF TraceInv, StopInv
    <2>3a. v5.dropped => Len(v5.got) < c
        BY <1>2 DEF CollectedInv
    <2>. HIDE DEF c
    <2>4. CASE m.is = "other"
        <3>1. v5' = [v5 EXCEPT !.queue = Tail(q), !.got = v5.got, !.dropped = v5.dropped]
            BY <1>1, <1>2, <2>4 DEF Trace!Stops
        <3>. HIDE DEF coming
        <3>2. v5.got \in Seq(Nat) /\ v5.dropped \in BOOLEAN /\ coming[1].is = "other"
            BY ONLY <1>2, <1>4, <2>4
        <3>3. ASSUME v5.mode = "events" PROVE Collected(Tail(coming), c, v5.got, v5.dropped)
            <4>1. Collected(coming, c, v5.got, v5.dropped)
                BY ONLY <2>2, <3>3
            <4>. QED  BY ONLY <1>4, <2>1, <3>2, <4>1, CollectedTail
        <3>. QED  BY <1>2, <2>3, <2>3a, <3>1, <3>3 DEF c
    <2>5. CASE m.is = "batch"
        <3>. HIDE DEF coming
        <3>1. /\ v5.mode = "events" /\ m.events \in Seq(Nat)
              /\ v5' = Trace!Taken(v5, m.events)
            BY <1>1, <1>6, <2>5
        <3>2. /\ Collected(Tail(coming), c, v5.got, TRUE)
              /\ Collected(Tail(coming), c, v5.got \o m.events, v5.dropped)
              /\ Len(v5.got) < c
              /\ v5.dropped => Len(v5.got \o m.events) < c
            <4>1. v5.got \in Seq(Nat) /\ v5.dropped \in BOOLEAN /\ coming[1].is = "batch"
                BY ONLY <1>2, <1>4, <2>5
            <4>2. coming[1].events = m.events
                BY ONLY <1>4
            <4>3. Collected(coming, c, v5.got, v5.dropped)
                BY ONLY <2>2, <3>1
            <4>4. /\ Collected(Tail(coming), c, v5.got, TRUE)
                  /\ Collected(Tail(coming), c, v5.got \o coming[1].events, v5.dropped)
                  /\ Len(v5.got) < c
                  /\ v5.dropped => Len(v5.got \o coming[1].events) < c
                BY ONLY <1>4, <2>1, <4>1, <4>3, CollectedTail
            <4>. QED  BY ONLY <4>2, <4>4
        <3>3. CASE v5.kind = "profile" /\ Len(v5.got) + Len(m.events) > Limit
            <4>1. v5' = [v5 EXCEPT !.queue = Tail(q), !.got = v5.got, !.dropped = TRUE]
                BY <1>2, <3>1, <3>3 DEF Trace!Taken, Trace!Stops
            <4>. QED  BY <1>2, <2>3, <3>1, <3>2, <4>1 DEF c
        <3>4. CASE ~ (v5.kind = "profile" /\ Len(v5.got) + Len(m.events) > Limit)
            <4>1. v5' = [v5 EXCEPT !.queue = Tail(q), !.got = v5.got \o m.events, !.dropped = v5.dropped]
                BY <1>2, <3>1, <3>4 DEF Trace!Taken, Trace!Stops
            <4>2. /\ v5.got \o m.events \in Seq(Nat)
                  /\ v5.kind = "profile" => Len(v5.got \o m.events) <= Limit
                <5>. DEFINE got == v5.got  events == m.events
                <5>1. /\ got \in Seq(Nat) /\ events \in Seq(Nat)
                      /\ v5.kind = "profile" => ~ (Len(got) + Len(events) > Limit)
                    BY <1>2, <3>1, <3>4
                <5>. HIDE DEF got, events
                <5>2. got \o events \in Seq(Nat) /\ Len(got \o events) = Len(got) + Len(events)
                      /\ Len(got) \in Nat /\ Len(events) \in Nat
                    BY ONLY <5>1
                <5>3. v5.kind = "profile" => Len(got \o events) <= Limit
                    BY ONLY <5>1, <5>2, TraceBounds
                <5>. QED  BY ONLY <5>2, <5>3 DEF got, events
            <4>. QED  BY <1>2, <3>1, <3>2, <4>1, <4>2 DEF c
        <3>. QED  BY <3>3, <3>4
    <2>. QED  BY <1>5, <2>4, <2>5
<1>8. PICK got \in Seq(Nat), dropped \in BOOLEAN :
         /\ v5' = [v5 EXCEPT !.queue = Tail(q), !.got = got, !.dropped = dropped]
         /\ v5.mode = "stream" => got = v5.got /\ dropped = v5.dropped
         /\ v5.mode = "events" => Collected(Tail(coming), Len(v5.all), got, dropped)
         /\ dropped => Len(got) < Len(v5.all)
         /\ v5.kind = "profile" => Len(got) <= Limit
    BY <1>7
<1>9. /\ v5' \in Trace!Stops /\ v5'.left = l /\ v5'.queue = Tail(q) /\ ~v5'.lag
      /\ v5'.kind = v5.kind /\ v5'.mode = v5.mode /\ v5'.all = v5.all
      /\ v5'.got = got /\ v5'.dropped = dropped
    BY <1>1, <1>2, <1>3, <1>8 DEF Trace!Stops
<1>10. CollectedInv(v5')
    <2>1. v5'.queue \o v5'.left = Tail(coming)
        BY ONLY <1>4, <1>9
    <2>2. ASSUME v5.mode = "stream"
          PROVE  \A i \in 1 .. Len(Tail(coming)) : Tail(coming)[i].is # "batch"
        <3>1. \A i \in 1 .. Len(coming) : coming[i].is # "batch"
            BY <1>1, <1>2, <2>2 DEF CollectedInv
        <3>. HIDE DEF coming
        <3>2. \A i \in 1 .. Len(Tail(coming)) : Tail(coming)[i] = coming[i + 1] /\ i + 1 \in 1 .. Len(coming)
            BY ONLY <1>4
        <3>. QED  BY ONLY <3>1, <3>2
    <2>3. v5.mode = "stream" => v5.got = <<>> /\ ~v5.dropped
        BY <1>2 DEF CollectedInv
    <2>. HIDE DEF coming
    <2>. QED  BY ONLY <1>8, <1>9, <2>1, <2>2, <2>3 DEF CollectedInv
<1>11. Len(v5'.queue) <= Capacity
    <2>1. Len(v5'.queue) = Len(q) - 1 /\ Len(q) \in Nat /\ Len(q) <= Capacity
        BY <1>2, <1>3, <1>9
    <2>. HIDE DEF q
    <2>. QED  BY ONLY <2>1, TraceBounds
<1>12. StopInv'
    BY <1>1, <1>2, <1>8, <1>9, <1>10 DEF StopInv
<1>. QED  BY <1>1, <1>9, <1>11, <1>12, TraceGoesOn

\* Finish: what was not left out is whole when the browser is complete, and a
\* profile is not larger than the limit when it lagged too.
LEMMA TraceFinish ==
    ASSUME TraceInv, Trace!Finish
    PROVE  TraceInv'
<1>. DEFINE q == v5.queue  l == v5.left  c == Len(v5.all)
            written == Trace!Saved(v5)
<1>1. /\ v5 # None /\ v5' = None /\ v4' = FALSE /\ v8' = FALSE /\ UNCHANGED <<v1, v2, v3, v7>>
      /\ v6' = written \/ v6' = v6
      /\ v5.lag \/ (q # <<>> /\ Head(q).is = "complete")
    BY DEF Trace!Finish, Trace!Collected
<1>2. /\ v5.lag \in BOOLEAN /\ v3 = None
      /\ v5.kind \in Trace!Kinds /\ v5.mode \in Trace!Modes
      /\ v5.all \in Seq(Nat) /\ c \in Nat
      /\ l \in Seq(Trace!Messages) /\ q \in Seq(Trace!Messages)
      /\ v5.got \in Seq(Nat) /\ v5.dropped \in BOOLEAN
      /\ v5.kind = "profile" => Len(v5.got) <= Limit
      /\ v5.all = [i \in 1 .. c |-> i]
      /\ CollectedInv(v5)
    BY <1>1, TraceStopTypes
<1>3. /\ written.kind = v5.kind /\ written.mode = v5.mode /\ written.all = v5.all
      /\ written.events = Trace!Written(v5) /\ written.warned = v5.dropped
      /\ written.lagged = v5.lag
      /\ written = [kind |-> v5.kind, mode |-> v5.mode, all |-> v5.all,
                    events |-> Trace!Written(v5), warned |-> v5.dropped, lagged |-> v5.lag]
    BY DEF Trace!Saved
<1>4. Trace!Written(v5) \in {v5.got, v5.all} /\ (v5.kind = "profile" => Trace!Written(v5) = v5.got)
    BY DEF Trace!Written
<1>5. v5.mode = "stream" => v5.got = <<>> /\ ~v5.dropped
    BY <1>2 DEF CollectedInv
<1>6. v5.dropped => v5.got # v5.all
    <2>1. v5.dropped => Len(v5.got) < c
        BY <1>2 DEF CollectedInv
    <2>2. Len(v5.got) \in Nat
        BY <1>2
    <2>3. ASSUME v5.dropped, v5.got = v5.all PROVE FALSE
        <3>1. Len(v5.got) = c /\ Len(v5.got) < c
            BY <2>1, <2>3
        <3>. HIDE DEF c
        <3>. QED  BY ONLY <1>2, <2>2, <3>1
    <2>. QED  BY <2>3
<1>7. ASSUME ~v5.lag, ~v5.dropped, v5.mode = "events" PROVE v5.got = v5.all
    <2>. DEFINE coming == q \o l  got == v5.got  dropped == v5.dropped
    <2>1. Collected(coming, c, got, dropped)
        BY <1>2, <1>7 DEF CollectedInv
    <2>. HIDE DEF c, got, dropped
    <2>2. coming \in Seq(Trace!Messages) /\ coming # <<>> /\ coming[1].is = "complete"
        BY <1>1, <1>2, <1>7, Passing
    <2>. HIDE DEF coming
    <2>3. c \in Nat /\ got \in Seq(Nat) /\ dropped \in BOOLEAN /\ ~dropped
        BY <1>2, <1>7 DEF c, got, dropped
    <2>4. ~dropped => got = [i \in 1 .. c |-> i]
        BY ONLY <2>1, <2>2, <2>3, CollectedTail
    <2>. QED  BY ONLY <1>2, <2>3, <2>4 DEF got, c
<1>. HIDE DEF written
<1>8. written \in Trace!Saves
    BY <1>2, <1>3, <1>4 DEF Trace!Saves
<1>9. /\ ~written.warned /\ ~written.lagged =>
            written.events = IF written.kind = "profile" /\ written.mode = "stream" THEN <<>>
                             ELSE written.all
      /\ written.kind = "profile" => /\ Len(written.events) <= Limit
                                    /\ (written.warned => written.events # written.all)
    <2>1. v5.kind = "profile" => Len(Trace!Written(v5)) <= Limit /\ (v5.dropped => Trace!Written(v5) # v5.all)
        BY <1>2, <1>4, <1>6
    <2>2. ASSUME ~v5.dropped, ~v5.lag
          PROVE  Trace!Written(v5) = IF v5.kind = "profile" /\ v5.mode = "stream" THEN <<>> ELSE v5.all
        <3>1. CASE v5.mode = "stream" /\ v5.kind = "trace"
            BY <1>5, <2>2, <3>1 DEF Trace!Written
        <3>2. CASE v5.mode = "stream" /\ v5.kind = "profile"
            BY <1>4, <1>5, <3>2
        <3>3. CASE v5.mode = "events"
            BY <1>4, <1>7, <2>2, <3>3
        <3>. QED  BY <1>2, <3>1, <3>2, <3>3 DEF Trace!Kinds, Trace!Modes
    <2>. QED  BY <1>3, <2>1, <2>2
<1>10. Trace!TypeOK'
    BY <1>1, <1>8 DEF TraceInv, Trace!TypeOK
<1>11. GatheredInv' /\ StopInv' /\ Trace!FlagIsTrue'
    BY <1>1, <1>2 DEF GatheredInv, StopInv, Trace!FlagIsTrue
<1>12. Trace!SavedIsWhole' /\ Trace!ProfileWithinLimit'
    <2>1. CASE v6' = written
        BY <1>9, <2>1 DEF Trace!SavedIsWhole, Trace!ProfileWithinLimit
    <2>2. CASE v6' = v6
        BY <2>2 DEF TraceInv, Trace!SavedIsWhole, Trace!ProfileWithinLimit
    <2>. QED  BY <1>1, <2>1, <2>2
<1>. QED  BY <1>10, <1>11, <1>12 DEF TraceInv

\* A browser that goes, comes, or does not answer writes no file, and the flag is
\* known to be left behind.
LEMMA TraceFaults ==
    ASSUME TraceInv, Trace!Close \/ Trace!Launch \/ Trace!StreamFails \/ Trace!Timeout
    PROVE  TraceInv'
<1>. USE DEF TraceInv
<1>1. CASE Trace!Close
    <2>1. /\ v5 = None /\ v1' = FALSE /\ v3' = None /\ v8' = v4 /\ UNCHANGED <<v2, v4, v5, v6>>
          /\ v7 < MaxSteps /\ v7' = v7 + 1
        BY <1>1 DEF Trace!Close, Trace!Step
    <2>2. v7' \in 0 .. MaxSteps
        BY <2>1, TraceAssumption DEF Trace!TypeOK
    <2>3. Trace!TypeOK'
        BY <2>1, <2>2 DEF Trace!TypeOK
    <2>4. Trace!FlagIsTrue'
        BY <2>1 DEF Trace!FlagIsTrue, Trace!TypeOK
    <2>. QED  BY <2>1, <2>3, <2>4 DEF GatheredInv, StopInv, Trace!SavedIsWhole, Trace!ProfileWithinLimit
<1>2. CASE Trace!Launch
    <2>1. /\ v5 = None /\ v1' = TRUE /\ UNCHANGED <<v2, v3, v4, v5, v6, v8>>
          /\ v7 < MaxSteps /\ v7' = v7 + 1
        BY <1>2 DEF Trace!Launch, Trace!Step
    <2>2. v7' \in 0 .. MaxSteps
        BY <2>1, TraceAssumption DEF Trace!TypeOK
    <2>3. Trace!TypeOK'
        BY <2>1, <2>2 DEF Trace!TypeOK
    <2>. QED  BY <2>1, <2>3 DEF Trace!FlagIsTrue, GatheredInv, StopInv, Trace!SavedIsWhole,
            Trace!ProfileWithinLimit
<1>3. CASE Trace!StreamFails \/ Trace!Timeout
    <2>1. v5' = None /\ v8' = TRUE /\ UNCHANGED <<v1, v2, v3, v4, v6, v7>>
        BY <1>3 DEF Trace!StreamFails, Trace!Timeout
    <2>2. Trace!TypeOK'
        BY <2>1 DEF Trace!TypeOK
    <2>. QED  BY <2>1, <2>2 DEF Trace!FlagIsTrue, GatheredInv, StopInv, Trace!SavedIsWhole,
            Trace!ProfileWithinLimit
<1>. QED  BY <1>1, <1>2, <1>3

\* Every step keeps the invariant.
LEMMA TraceKeeps ==
    ASSUME TraceInv, [Trace!Next]_(Trace!vars)
    PROVE  TraceInv'
<1>1. CASE UNCHANGED Trace!vars
    BY <1>1 DEF TraceInv, Trace!vars, Trace!TypeOK, Trace!FlagIsTrue, GatheredInv, StopInv,
        CollectedInv, Trace!SavedIsWhole, Trace!ProfileWithinLimit
<1>. QED  BY <1>1, TraceTab, TraceGather, TraceStart, TraceStop, TraceEmit, TraceNoise,
        TraceReceive, TraceFinish, TraceFaults DEF Trace!Next

LEMMA TraceBegins ==
    ASSUME SuiteInit, part = "trace"
    PROVE  TraceInv
<1>1. Trace!Init
    BY DEF SuiteInit
<1>2. 0 \in 0 .. MaxSteps
    BY TraceAssumption
<1>. QED  BY <1>1, <1>2 DEF Trace!Init, TraceInv, Trace!TypeOK, Trace!FlagIsTrue, GatheredInv, StopInv,
        Trace!SavedIsWhole, Trace!ProfileWithinLimit

(***************************************************************************)
(* The parts together.                                                     *)
(***************************************************************************)

\* A behaviour is of one part, and its steps are those of that part's component.
LEMMA SuiteParts ==
    ASSUME [SuiteNext]_all
    PROVE  /\ part' = part
           /\ part = "daemon" => [Daemon!Next]_(Daemon!vars)
           /\ part = "embedded" => [Embedded!Next]_(Embedded!vars)
           /\ part = "launch" => [Launch!Next]_(Launch!vars)
           /\ part = "download" => [Download!Next]_(Download!vars)
           /\ part = "trace" => [Trace!Next]_(Trace!vars)
<1>1. CASE UNCHANGED all
    BY <1>1 DEF all, shared, Daemon!vars, Embedded!vars, Launch!vars, Launch!state, Launch!world,
        Download!vars, Download!browser, Trace!vars
<1>2. CASE SuiteNext
    BY <1>2 DEF SuiteNext, DaemonStep, DaemonOnly, EmbeddedStep, EmbeddedOnly, GateStep,
        LaunchStep, LaunchOnly, TabListStep, TabListOnly, RoutesStep, RoutesOnly,
        FilterStep, FilterOnly, DownloadStep, DownloadOnly, TraceStep, TraceOnly
<1>. QED  BY <1>1, <1>2

\* connection.rs and daemon.rs: for every set of clients and daemons and every
\* number of retries and polls, unless two clients, or a client and a leaving
\* daemon, raced, at most one daemon lives, and one that listens is found by its
\* socket and its pid.
THEOREM DaemonsAreFound == SuiteSpec => []DaemonUnlessRaced
<1>. DEFINE I == part = "daemon" => DlInv
<1>1. SuiteInit => I
    BY DlStart DEF SuiteInit
<1>2. I /\ [SuiteNext]_all => I'
    BY SuiteParts, DlStep
<1>3. I => DaemonUnlessRaced
    BY DlPromise DEF DaemonUnlessRaced
<1>. QED  BY <1>1, <1>2, <1>3, PTL DEF SuiteSpec

\* facade.rs: for every number of daemons and turns, when turns come after the
\* start-up task, one daemon thread starts at a time, no failed bind ends the
\* process of the host, and one daemon has a browser window, which can be reached.
THEOREM HostedInOrder == SuiteSpec => []EmbeddedInOrder
<1>. DEFINE I == part = "embedded" => EmbInv
<1>1. SuiteInit => I
    BY EmbStart DEF SuiteInit
<1>2. I /\ [SuiteNext]_all => I'
    BY SuiteParts, EmbStep
<1>3. I => EmbeddedInOrder
    BY EmbPromise DEF EmbeddedInOrder
<1>. QED  BY <1>1, <1>2, <1>3, PTL DEF SuiteSpec

\* actions.rs: for every set of clients and number of browsers, what listens
\* belongs to the browser the daemon has, none of ours is left behind, a browser of
\* ours that is reused has the options asked for, and a command that gets through
\* has a browser that answers.
THEOREM LaunchesKeepUp == SuiteSpec => LaunchKeepsUp
<1>. DEFINE I == part = "launch" => BlInv
            S == part = "launch" =>
                    Launch!TypeOK /\ Launch!ListenersFollowBrowser /\ Launch!NoStrayBrowser
            A == part = "launch" => \A c \in Clients :
                    /\ Launch!Launch(c) /\ v2'.id # 0 /\ {v2'.ask, v15[c]} \subseteq Launch!Own
                         => Launch!launch_hash(v2'.ask) = Launch!launch_hash(v15[c])
                    /\ Launch!Command(c) /\ v2'.id # 0 => v2' \in v4'
<1>1. SuiteInit => I
    BY BlStart DEF SuiteInit
<1>2. I /\ [SuiteNext]_all => I'
    BY SuiteParts, BlStep
<1>3. I => S
    BY DEF BlInv, BlTypes
<1>4. I /\ [SuiteNext]_all => [A]_all
    BY BlLaunch, BlCommand DEF Launch!NoId
<1>. QED  BY <1>1, <1>2, <1>3, <1>4, PTL DEF SuiteSpec, LaunchKeepsUp

\* actions.rs: for every set of downloads and tabs and every deadline, when the
\* browser reports downloads page by page, ok means that the file at the path is the
\* one the click asked for, or, if others were heard of, of the same tab, and an end
\* that was heard of is not passed over.
THEOREM DownloadsAreOurs == SuiteSpec => []DownloadIsOurs
<1>. DEFINE I == part = "download" => DnInv
<1>1. SuiteInit => I
    BY DnStart DEF SuiteInit
<1>2. I /\ [SuiteNext]_all => I'
    BY SuiteParts, DnKeeps
<1>3. I => DownloadIsOurs
    BY DnPromise DEF DownloadIsOurs
<1>. QED  BY <1>1, <1>2, <1>3, PTL DEF SuiteSpec

\* tracing.rs: for every limit, channel, number of batches and events of other kinds,
\* whatever the browser does not answer: a file that is written without a warning has
\* all that was gathered, in order, unless the loop lagged or a trace was stopped as a
\* profile, which leaves it empty; a profile is within the limit and a warning tells
\* the truth; and until an answer is missing or the browser goes, the flag is up
\* exactly while the browser traces or is asked to stop.
THEOREM TracesAreWhole == SuiteSpec => []TraceIsWhole
<1>. DEFINE I == part = "trace" => TraceInv
<1>1. SuiteInit => I
    BY TraceBegins DEF SuiteInit
<1>2. I /\ [SuiteNext]_all => I'
    BY SuiteParts, TraceKeeps
<1>3. I => TraceIsWhole
    BY DEF TraceIsWhole, TraceInv
<1>. QED  BY <1>1, <1>2, <1>3, PTL DEF SuiteSpec

=============================================================================

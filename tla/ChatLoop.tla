------------------------------- MODULE ChatLoop -------------------------------
(***************************************************************************)
(* agent-browser chat, the interactive loop: one growing conversation, in  *)
(* which each turn asks the gateway, runs the commands it wants and asks   *)
(* again, at most MaxSteps times.  Before a turn a conversation that has   *)
(* become large has its older part replaced by a summary.                  *)
(***************************************************************************)
EXTENDS Naturals, Sequences, SequencesExt, FiniteSets, FiniteSetsExt

CONSTANTS
    MaxTurns,     \* bound on what the user asks
    MaxSteps,     \* requests of one turn (50 in the code)
    MaxCalls,     \* bound on commands in one answer
    KeepRecent    \* KEEP_RECENT_MESSAGES (6 in the code)

VARIABLES
    msgs,     \* openai_messages
    phase,    \* "prompt", "request", "tools"
    todo,     \* calls of the current answer still to run
    step,     \* requests sent in this turn
    ran,      \* calls of this turn whose command was started
    partial,  \* calls of this turn whose arguments the stream cut short
    ids, turns

vars == <<msgs, phase, todo, step, ran, partial, ids, turns>>

System == [role |-> "system"]
Summary == [role |-> "summary"]
User == [role |-> "user"]
Assistant(calls) == [role |-> "assistant", calls |-> calls]
Tool(id) == [role |-> "tool", id |-> id]

Messages == [role : {"system", "summary", "user"}]
              \cup [role : {"assistant"}, calls : Seq(Nat)]
              \cup [role : {"tool"}, id : Nat]

TypeOK ==
    /\ msgs \in Seq(Messages) /\ todo \in Seq(1 .. ids)
    /\ phase \in {"prompt", "request", "tools"}
    /\ step \in 0 .. MaxSteps /\ turns \in 0 .. MaxTurns /\ ids \in Nat
    /\ ran \subseteq 1 .. ids /\ partial \subseteq 1 .. ids

Init ==
    /\ msgs = <<System>> /\ phase = "prompt" /\ todo = <<>> /\ step = 0
    /\ ran = {} /\ partial = {} /\ ids = 0 /\ turns = 0

-----------------------------------------------------------------------------
(* Compaction.                                                             *)

\* The mutant splits where it likes.
SplitAnywhere(ms) == IF Len(ms) <= KeepRecent + 1 THEN 1 ELSE Len(ms) - KeepRecent
\* find_safe_split, with the code's indices from 0: the last user message that
\* leaves KeepRecent messages after it.
find_safe_split(ms) ==
    LET desired == Len(ms) - KeepRecent
        users == {i \in 1 .. desired : ms[i + 1].role = "user"}
    IN  IF Len(ms) <= KeepRecent + 1 THEN 1
        ELSE IF users # {} THEN Max(users) ELSE desired

Older(ms, split) == SubSeq(ms, 2, split)
Compacted(ms, split) == <<ms[1], Summary>> \o SubSeq(ms, split + 1, Len(ms))

\* The user asks.  Sizes are left open, so any conversation with more than
\* KeepRecent + 2 messages may be over the threshold; the summary may fail,
\* and there is none of nothing.
Ask ==
    /\ phase = "prompt" /\ turns < MaxTurns /\ turns' = turns + 1
    /\ LET asked == Append(msgs, User)
           split == find_safe_split(asked)
       IN  \/ msgs' = asked
           \/ Len(asked) > KeepRecent + 2 /\ Older(asked, split) # <<>> /\ msgs' = Compacted(asked, split)
    /\ phase' = "request" /\ step' = 0 /\ ran' = {} /\ partial' = {}
    /\ UNCHANGED <<todo, ids>>

-----------------------------------------------------------------------------
(* run_chat_turn                                                           *)

Ends == phase' = "prompt" /\ UNCHANGED <<todo, ran>>

\* The answer is read to its end or until the stream breaks; then the last
\* call's arguments may be cut short.  Text and calls make one message.
Answer ==
    /\ phase = "request" /\ step < MaxSteps /\ step' = step + 1
    /\ \E text \in BOOLEAN, n \in 0 .. MaxCalls, cut \in BOOLEAN :
        LET calls == [i \in 1 .. n |-> ids + i]
        IN  /\ msgs' = IF text \/ n > 0 THEN Append(msgs, Assistant(calls)) ELSE msgs
            /\ partial' = IF cut /\ n > 0 THEN partial \cup {ids + n} ELSE partial
            /\ IF n = 0 THEN Ends ELSE phase' = "tools" /\ todo' = calls /\ UNCHANGED ran
            /\ ids' = ids + n
    /\ UNCHANGED turns

\* The gateway cannot be reached or refuses, or five minutes have passed.
Fails ==
    /\ phase = "request" /\ step < MaxSteps /\ Ends
    /\ UNCHANGED <<msgs, step, partial, ids, turns>>

\* The requests of the turn are used up.
StepsUsedUp ==
    /\ phase = "request" /\ step = MaxSteps /\ Ends
    /\ UNCHANGED <<msgs, step, partial, ids, turns>>

\* execute_chat_tool: arguments that do not parse give no command, and no
\* command is not one of the allowed; others may or may not be.
Runs(id) == IF id \in partial THEN {FALSE} ELSE BOOLEAN

\* One command: it ends, is refused or times out, and its answer is appended.
RunTool ==
    /\ phase = "tools"
    /\ \E run \in Runs(Head(todo)) : ran' = IF run THEN ran \cup {Head(todo)} ELSE ran
    /\ msgs' = Append(msgs, Tool(Head(todo)))
    /\ todo' = Tail(todo) /\ phase' = IF Len(todo) = 1 THEN "request" ELSE "tools"
    /\ UNCHANGED <<step, partial, ids, turns>>

Next == Ask \/ Answer \/ Fails \/ StepsUsedUp \/ RunTool

Spec == Init /\ [][Next]_vars

-----------------------------------------------------------------------------
(* Properties.                                                             *)

\* The conversation begins with the system prompt, and a message with calls is
\* followed by exactly their answers, in order, before anything else; only
\* the newest one may still lack those that are to be run.  The gateway
\* refuses a conversation in which this is not so, and every later one.
WellFormed ==
    /\ msgs[1] = System
    /\ \A i \in DOMAIN msgs :
        /\ msgs[i].role = "tool" => msgs[i - 1].role \in {"tool", "assistant"}
        /\ msgs[i].role = "assistant" =>
            LET n == Len(msgs[i].calls)
            IN  \A k \in 1 .. n :
                \/ i + k <= Len(msgs) /\ msgs[i + k] = Tool(msgs[i].calls[k])
                \/ Contains(todo, msgs[i].calls[k])
    /\ phase = "request" => todo = <<>> /\ msgs[Len(msgs)].role \in {"user", "tool"}

\* A call whose arguments the stream cut short never starts a command.
PartialNeverRuns == ran \cap partial = {}

\* The newest n messages of a conversation.
Newest(ms, n) == SubSeq(ms, Len(ms) - n + 1, Len(ms))

\* A summary never takes any of the KeepRecent newest messages, nor the
\* question just asked.
KeepsNewest(asked, ms) ==
    LET n == IF Len(asked) > KeepRecent THEN KeepRecent ELSE Len(asked) - 1
    IN  Len(ms) >= n /\ Newest(ms, n) = Newest(asked, n)
RecentKept == [][phase = "prompt" /\ phase' = "request" => KeepsNewest(Append(msgs, User), msgs')]_vars

=============================================================================

----------------------------- MODULE SessionFile -----------------------------
(***************************************************************************)
(* FileSessionStore (reshape-core/src/session/store.rs): a save writes the  *)
(* session to a temporary file next to the session file and renames it.     *)
(*                                                                         *)
(* tokio::fs hands each call to a pool of blocking threads.  Dropping the   *)
(* future that awaits a call, which is what the worker does to the turn of  *)
(* a client that left, does not stop the call: it stays in the pool.        *)
(*                                                                         *)
(* A save is known by its number.  The JSON text of a turn's session is     *)
(* longer than that of the empty session a reset saves, and a write may     *)
(* take several steps; a file is the sequence of the pieces written to it,  *)
(* each marked with the save it belongs to.                                *)
(***************************************************************************)
EXTENDS Naturals, Sequences, FiniteSets, FiniteSetsExt

CONSTANTS
    MaxSaves,   \* bound: saves
    Pieces      \* bound: pieces of the text of a turn's session

ASSUME StoreAssumption ==
    /\ MaxSaves \in Nat
    /\ Pieces \in Nat \ {0}

Saves == 1 .. MaxSaves
Inodes == 1 .. MaxSaves + 2
None == 0
Kinds == {"turn", "reset"}

VARIABLES
    path,     \* the file the session path names, or None
    tmp,      \* the file the temporary path names, or None
    data,     \* contents of the files
    pool,     \* calls the blocking threads are executing
    kind,     \* of each save: a turn's or a reset's
    outcome,  \* of each save: what its caller has been told
    alone,    \* saves that began when no other call was in the pool
    running,  \* the save being awaited, or None
    step      \* the call it awaits, or "written", "renamed" after it

vars == <<path, tmp, data, pool, kind, outcome, alone, running, step>>

-----------------------------------------------------------------------------

\* serde_json::to_string_pretty, as pieces.
Text(n) == [i \in 1 .. (IF kind[n] = "reset" THEN 1 ELSE Pieces) |-> n]

\* A pool call of save n: std::fs::write before and after its open, or
\* std::fs::rename.
OpenCall(n) == [call |-> "open", save |-> n]
PutCall(n, file, at) == [call |-> "put", save |-> n, file |-> file, at |-> at]
RenameCall(n) == [call |-> "rename", save |-> n]

Replace(call, calls) == (pool \ {call}) \cup calls

Init ==
    /\ path = None
    /\ tmp = None
    /\ data = [f \in Inodes |-> <<>>]
    /\ pool = {}
    /\ kind = [n \in Saves |-> "turn"]
    /\ outcome = [n \in Saves |-> "unborn"]
    /\ alone = {}
    /\ running = None
    /\ step = "idle"

\* save() returns r to its caller.
Return(n, r) ==
    /\ outcome' = [outcome EXCEPT ![n] = r]
    /\ running' = None
    /\ step' = "idle"

Unborn == {n \in Saves : outcome[n] = "unborn"}

\* save() is called, create_dir_all succeeds and the write is handed over.
Save(k) ==
    /\ running = None
    /\ Unborn # {}
    /\ LET n == Min(Unborn)
       IN  /\ kind' = [kind EXCEPT ![n] = k]
           /\ outcome' = [outcome EXCEPT ![n] = "pending"]
           /\ running' = n
           /\ alone' = IF pool = {} THEN alone \cup {n} ELSE alone
           /\ pool' = pool \cup {OpenCall(n)}
    /\ step' = "write"
    /\ UNCHANGED <<path, tmp, data>>

\* std::fs::write opens the temporary path: an existing file is truncated.
Open(call) ==
    /\ call.call = "open"
    /\ LET used == {path, tmp} \cup {c.file : c \in {d \in pool : d.call = "put"}}
           file == IF tmp # None THEN tmp ELSE Min(Inodes \ used)
       IN  /\ tmp' = file
           /\ data' = [data EXCEPT ![file] = <<>>]
           /\ pool' = Replace(call, {PutCall(call.save, file, 1)})
    /\ UNCHANGED <<path, kind, outcome, running, step, alone>>

\* It writes the next piece, over whatever is there; after the last one the
\* call returns.  (Gaps left by a truncation are filled with zeros.)
Put(call) ==
    /\ call.call = "put"
    /\ data' = [data EXCEPT ![call.file] =
                   [i \in 1 .. Max({Len(@), call.at}) |->
                       CASE i = call.at -> call.save
                         [] i # call.at /\ i <= Len(@) -> @[i]
                         [] OTHER -> None]]
    /\ IF call.at < Len(Text(call.save))
       THEN /\ pool' = Replace(call, {PutCall(call.save, call.file, call.at + 1)})
            /\ UNCHANGED step
       ELSE /\ pool' = pool \ {call}
            /\ step' = IF running = call.save THEN "written" ELSE step
    /\ UNCHANGED <<path, tmp, kind, outcome, running, alone>>

\* Mutant: save() returns without waiting for the rename.
RequestRenameUnawaited ==
    /\ step = "written"
    /\ pool' = pool \cup {RenameCall(running)}
    /\ Return(running, "ok")
    /\ UNCHANGED <<path, tmp, data, kind, alone>>

\* save() goes on to the rename.
RequestRename ==
    /\ step = "written"
    /\ pool' = pool \cup {RenameCall(running)}
    /\ step' = "rename"
    /\ UNCHANGED <<path, tmp, data, kind, outcome, running, alone>>

\* The rename replaces the session file.
Rename(call) ==
    /\ call.call = "rename"
    /\ tmp # None
    /\ path' = tmp
    /\ tmp' = None
    /\ pool' = pool \ {call}
    /\ step' = IF running = call.save THEN "renamed" ELSE step
    /\ UNCHANGED <<data, kind, outcome, alone, running>>

\* save() returns Ok(()).
Acknowledge ==
    /\ step = "renamed"
    /\ Return(running, "ok")
    /\ UNCHANGED <<path, tmp, data, pool, kind, alone>>

\* A call fails, as a rename does when the temporary file has been renamed
\* away; `?' hands the error on.  What was written stays.
CallFails(call) ==
    /\ pool' = pool \ {call}
    /\ IF running = call.save
       THEN Return(call.save, "error")
       ELSE UNCHANGED <<outcome, running, step>>
    /\ UNCHANGED <<path, tmp, data, kind, alone>>

\* The worker drops a turn that is saving.  A reset is never dropped.
Cancel ==
    /\ running # None
    /\ kind[running] = "turn"
    /\ Return(running, "cancelled")
    /\ UNCHANGED <<path, tmp, data, pool, kind, alone>>

\* The process dies and is started again; its threads are gone, its files not.
Crash ==
    /\ pool' = {}
    /\ outcome' = [n \in Saves |-> IF outcome[n] = "pending" THEN "lost" ELSE outcome[n]]
    /\ running' = None
    /\ step' = "idle"
    /\ UNCHANGED <<path, tmp, data, kind, alone>>

Next ==
    \/ \E k \in Kinds : Save(k)
    \/ \E call \in pool :
          Open(call) \/ Put(call) \/ Rename(call) \/ CallFails(call)
    \/ RequestRename \/ Acknowledge
    \/ Cancel
    \/ Crash

Spec == Init /\ [][Next]_vars

-----------------------------------------------------------------------------
(***************************************************************************)
(* Properties.                                                             *)
(***************************************************************************)

\* Types of the files and calls; no call writes past the end of its text.
TypeOK ==
    /\ path \in Inodes \cup {None}
    /\ tmp \in Inodes \cup {None}
    /\ data \in [Inodes -> Seq(Saves \cup {None})]
    /\ \A c \in pool : /\ c.call \in {"open", "put", "rename"}
                       /\ c.save \in Saves
                       /\ c.call = "put" => c.file \in Inodes /\ c.at \in 1 .. Pieces
    /\ kind \in [Saves -> Kinds]
    /\ alone \subseteq Saves
    /\ outcome \in [Saves -> {"unborn", "pending", "ok", "error", "cancelled", "lost"}]
    /\ running \in Saves \cup {None}
    /\ step \in {"idle", "write", "written", "rename", "renamed"}

\* load() finds the session of save n, whole.
Holds(n) == path # None /\ data[path] = Text(n)

Acknowledged == {n \in Saves : outcome[n] = "ok"}
LastAcknowledged == IF Acknowledged = {} THEN None ELSE Max(Acknowledged)

(***************************************************************************)
(* The session file can always be loaded: at no moment, also not after a    *)
(* crash in the middle of a save, is it torn or half written.               *)
(***************************************************************************)
AlwaysLoadable == path = None \/ \E n \in Saves : Holds(n)

(***************************************************************************)
(* load() finds the last acknowledged save, or a later one that a crash cut *)
(* off or that is under way; never one that was reported as failed.         *)
(***************************************************************************)
NeverStale ==
    \/ LastAcknowledged = None /\ path = None
    \/ \E n \in Saves :
          /\ Holds(n)
          /\ n >= LastAcknowledged
          /\ outcome[n] \in {"ok", "pending", "lost"}

(***************************************************************************)
(* What a dropped turn leaves in the pool does no lasting damage: a save    *)
(* that begins when the pool is empty and is acknowledged is found whole as *)
(* long as nothing else is saved, whatever remains of earlier saves lay in  *)
(* the temporary file.                                                      *)
(***************************************************************************)
LoneSaveHolds ==
    (/\ LastAcknowledged \in alone
     /\ \A n \in Saves : n > LastAcknowledged => outcome[n] = "unborn")
    => Holds(LastAcknowledged)

\* No turn was dropped while it saved.
NoneDropped == \A n \in Saves : outcome[n] # "cancelled"

(***************************************************************************)
(* store.rs: until a turn is dropped while it saves, the session file loads *)
(* at every moment and after every crash, as the last acknowledged save or  *)
(* one begun after it; and also afterwards, a save that begins when nothing *)
(* is left in the pool, and is acknowledged, is found whole.                *)
(***************************************************************************)
SavesAreAtomic ==
    /\ TypeOK /\ LoneSaveHolds
    /\ NoneDropped => AlwaysLoadable /\ NeverStale

(***************************************************************************)
(* docs/design/jsonrpc-websocket-protocol.md on reshape.reset_session:      *)
(* "Clears the current single-session chat history".  After a reset that    *)
(* was acknowledged and as long as nothing else is saved, load() finds the  *)
(* empty session.  It need not: the write of a dropped turn still runs.     *)
(***************************************************************************)
ResetClearsHistory ==
    (/\ LastAcknowledged # None
     /\ kind[LastAcknowledged] = "reset"
     /\ \A n \in Saves : n > LastAcknowledged => outcome[n] = "unborn")
    => Holds(LastAcknowledged)
=============================================================================

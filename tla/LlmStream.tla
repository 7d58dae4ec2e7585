------------------------------ MODULE LlmStream ------------------------------
(***************************************************************************)
(* The aggregation of a streamed chat completion: aggregate_stream,         *)
(* handle_sse_line and finalize_tool_calls of reshape-core/src/llm/openai.rs*)
(*                                                                         *)
(* The server sends a script of events, one line each.  The transport cuts  *)
(* the bytes where it likes and may end, or break, after any of them.  A    *)
(* line is four bytes here: the prefix "data:", two bytes of the JSON, which *)
(* are the two halves of one character where the event is a wide text, and  *)
(* the line feed.                                                          *)
(***************************************************************************)
EXTENDS Naturals, Sequences, FiniteSets, SequencesExt

CONSTANTS
    Indices,     \* indices of the tool calls of a response
    MaxEvents    \* bound: events of a script

\* What a line can carry: a delta of the content, plain or wide; the id and
\* name that open a tool call, the id or the name alone, a piece of its
\* arguments, the last piece; or the end of the stream.
Text == [k |-> "text", i |-> 0]
Wide == [k |-> "wide", i |-> 0]
Done == [k |-> "done", i |-> 0]
CallEvents == [k : {"open", "id", "name", "piece", "last"}, i : Indices]
Scripts == BoundedSeq(CallEvents \cup {Text, Wide, Done}, MaxEvents)

VARIABLES
    script,   \* what the server sends
    pos,      \* bytes read so far
    pending,  \* bytes read and not yet handled: [e, b, ok]
    content,  \* the text so far, as the deltas it is made of
    calls,    \* of each index: the partial tool call, if there is one
    result    \* "none", "ok" or "error"

vars == <<script, pos, pending, content, calls, result>>

NoCall == [seen |-> FALSE, id |-> FALSE, name |-> FALSE, args |-> <<>>]

Init ==
    /\ script \in Scripts
    /\ pos = 0
    /\ pending = <<>>
    /\ content = <<>>
    /\ calls = [i \in Indices |-> NoCall]
    /\ result = "none"

Bytes == 4 * Len(script)
Byte(p) == [e |-> 1 + ((p - 1) \div 4), b |-> 1 + ((p - 1) % 4)]

\* from_utf8_lossy of the bytes a .. b: half a character is not a character.
Lossy(a, b) ==
    [p \in 1 .. b - a + 1 |->
        LET u == Byte(a + p - 1)
            split == /\ script[u.e].k = "wide"
                     /\ \/ u.b = 2 /\ a + p - 1 = b
                        \/ u.b = 3 /\ p = 1
        IN  [e |-> u.e, b |-> u.b, ok |-> ~split]]

-----------------------------------------------------------------------------

\* One delta of a tool call, merged into what is there of it.
Merge(c, k) ==
    [seen |-> TRUE,
     id |-> c.id \/ k \in {"open", "id"},
     name |-> c.name \/ k \in {"open", "name"},
     args |-> IF k \in {"piece", "last"} THEN Append(c.args, k) ELSE c.args]

\* handle_sse_line: a line without its prefix or without data is skipped, and
\* half a line of JSON is an error.
Skipped(line) == Len(line) < 2 \/ script[line[1].e].k = "done"
Broken(line) == ~Skipped(line) /\ Len(line) < 3

HandleLine(line, cs) ==
    LET e == script[line[1].e]
    IN  IF Skipped(line) \/ e.k \in {"text", "wide"} THEN cs
        ELSE [cs EXCEPT ![e.i] = Merge(@, e.k)]

Delta(line) ==
    LET e == script[line[1].e]
    IN  IF Skipped(line) \/ e.k \notin {"text", "wide"} THEN <<>>
        ELSE <<[e |-> line[1].e, ok |-> \A j \in DOMAIN line : line[j].ok]>>

\* The lines that end in units, and what is left after the last of them.
Lines(units) ==
    LET ends == {j \in DOMAIN units : units[j].b = 4}
        from(j) == 1 + CHOOSE n \in {0} \cup ends :
                         n < j /\ \A m \in ends : m < j => m <= n
    IN  [n \in 1 .. Cardinality(ends) |->
            LET j == CHOOSE x \in ends : Cardinality({m \in ends : m < x}) = n - 1
            IN  SubSeq(units, from(j), j - 1)]
LastEnd(units) == Cardinality({j \in DOMAIN units :
                      \E m \in j .. Len(units) : units[m].b = 4})
Rest(units) == SubSeq(units, LastEnd(units) + 1, Len(units))

\* A mutant of Consume: the rest of a chunk is dropped with its lines.
ConsumeAll(units) ==
    /\ content' = content \o FlattenSeq([n \in DOMAIN Lines(units) |->
                                            Delta(Lines(units)[n])])
    /\ calls' = FoldLeft(LAMBDA cs, l : HandleLine(l, cs), calls, Lines(units))
    /\ pending' = IF Lines(units) = <<>> THEN units ELSE <<>>

Consume(units) ==
    /\ content' = content \o FlattenSeq([n \in DOMAIN Lines(units) |->
                                            Delta(Lines(units)[n])])
    /\ calls' = FoldLeft(LAMBDA cs, l : HandleLine(l, cs), calls, Lines(units))
    /\ pending' = Rest(units)

\* One chunk of the body.
ReadChunk(n) ==
    /\ result = "none"
    /\ pos + n <= Bytes
    /\ pos' = pos + n
    /\ Consume(pending \o Lossy(pos + 1, pos + n))
    /\ UNCHANGED <<script, result>>

\* finalize_tool_calls: id and name are there and the arguments parse, which
\* they do not before their last piece.
Finalized(c) ==
    /\ c.id /\ c.name
    /\ c.args # <<>> /\ c.args[Len(c.args)] = "last"
    /\ \A j \in 1 .. Len(c.args) - 1 : c.args[j] = "piece"

\* The body ends: what is left is handled as a line, then the calls are made.
EndOfStream ==
    /\ result = "none"
    /\ LET rest == pending
           cs == IF rest = <<>> THEN calls ELSE HandleLine(rest, calls)
       IN  /\ content' = IF rest = <<>> THEN content ELSE content \o Delta(rest)
           /\ calls' = cs
           /\ result' = IF /\ rest # <<>> => ~Broken(rest)
                           /\ \A i \in Indices : cs[i].seen => Finalized(cs[i])
                        THEN "ok" ELSE "error"
    /\ pending' = <<>>
    /\ UNCHANGED <<script, pos>>

StreamError ==
    /\ result = "none"
    /\ result' = "error"
    /\ UNCHANGED <<script, pos, pending, content, calls>>

Next ==
    \/ \E n \in 1 .. 4 * MaxEvents : ReadChunk(n)
    \/ EndOfStream
    \/ StreamError

Spec == Init /\ [][Next]_vars

-----------------------------------------------------------------------------

\* Bytes are counted, and what is pending is part of one line.
TypeOK ==
    /\ pos \in 0 .. Bytes
    /\ Len(pending) < 4
    /\ result \in {"none", "ok", "error"}

\* Events whose line has been read as far as its last byte of JSON.
Read == {e \in DOMAIN script : pos >= 4 * e - 1}
Texts == {e \in Read : script[e].k \in {"text", "wide"}}
Deltas(i) == {e \in Read : script[e].i = i /\ script[e].k \in {"open", "id", "name", "piece", "last"}}

\* The reference: all deltas of the content that arrived, each once and in
\* order, whatever the chunks were; and so for the arguments of each call.
AggregatedInOrder ==
    result = "ok" =>
        /\ [n \in DOMAIN content |-> content[n].e] = SetToSortSeq(Texts, <)
        /\ \A i \in Indices :
             LET es == SetToSortSeq({e \in Deltas(i) :
                           script[e].k \in {"piece", "last"}}, <)
             IN  calls[i].args = [n \in DOMAIN es |-> script[es[n]].k]

\* A response is never made of half a tool call: when the stream stops early
\* the calls it leaves are complete or the response is an error.
NoHalfCall ==
    result = "ok" => \A i \in Indices : Deltas(i) # {} =>
        /\ \E e \in Deltas(i) : script[e].k \in {"open", "id"}
        /\ \E e \in Deltas(i) : script[e].k \in {"open", "name"}
        /\ \E e \in Deltas(i) : script[e].k = "last"

=============================================================================

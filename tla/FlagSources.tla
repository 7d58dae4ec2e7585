----------------------------- MODULE FlagSources -----------------------------
(***************************************************************************)
(* Where an option of the command line gets its value from: two config     *)
(* files, the environment and the arguments.  The arguments are scanned by *)
(* three functions that must take the same words for flags and values:     *)
(* extract_config_path, parse_flags and clean_args.  One option of each    *)
(* kind stands for all of its kind: session (a text), headed (yes or no),  *)
(* format (a text that is checked) and ext (a list).                       *)
(***************************************************************************)
EXTENDS Naturals, Sequences, SequencesExt, FiniteSets

CONSTANTS
    Options,   \* the options looked at, of "session", "headed", "format", "ext"
    Tokens,    \* words of the command line
    MaxArgs,   \* how many words
    None

VARIABLES input, result
vars == <<input, result>>

Flag == [session |-> "--session", headed |-> "--headed", format |-> "--format", ext |-> "--ext"]
Valued == {"--session", "--format", "--ext", "--config"}
Booleans == {"--headed"}
Bare == {"-v"}
Flags == Valued \cup Booleans \cup Bare
Truth == {"true", "false"}
Valid(o, v) == o = "format" => v \in {"png", "jpeg"}

\* What a source can say of an option.
EnvValues(o) ==
    CASE o = "headed" -> {None} \cup Truth
      [] o = "format" -> {None, "png"}
      [] OTHER -> {None, "env"}
FileValues(o, who) == IF o = "headed" THEN {None} \cup Truth ELSE IF o = "format" THEN {None, "jpeg"} ELSE {None, who}

NotRead == [value |-> "not read"]

Init ==
    /\ input \in UNION {[option : {o}, args : UNION {[1 .. n -> Tokens] : n \in 0 .. MaxArgs},
                         env : EnvValues(o), user : FileValues(o, "user"), project : FileValues(o, "project")]
                          : o \in Options}
    /\ result = NotRead

-----------------------------------------------------------------------------
(* Files and environment.                                                  *)

Or(a, b) == IF a # None THEN a ELSE b
AsList(v) == IF v = None THEN <<>> ELSE <<v>>

\* Config::merge: the project's file wins; lists are joined.
Merge(o, user, project) ==
    IF o = "ext" THEN AsList(user) \o AsList(project) ELSE Or(project, user)

\* parse_flags before it looks at the arguments.
Default(o, env, config) ==
    CASE o = "ext" -> IF env # None THEN <<env>> ELSE config
      [] o = "headed" -> IF env = "true" \/ config = "true" THEN "true" ELSE "false"
      [] o = "format" -> IF Valid(o, Or(env, config)) THEN Or(env, config) ELSE None
      [] OTHER -> Or(env, config)

-----------------------------------------------------------------------------
(* The three scanners.  Each says how many words the one at i takes.        *)

\* parse_flags and parse_bool_arg
Parses(args, i) ==
    IF args[i] \in Valued \/ (args[i] \in Booleans /\ i < Len(args) /\ args[i + 1] \in Truth) THEN 2 ELSE 1

\* The mutant does not know that the configuration takes a value.
CleansConfigAlone(args, i) ==
    IF args[i] \in Valued \ {"--config"}
       \/ (args[i] \in Booleans \cup Bare /\ i < Len(args) /\ args[i + 1] \in Truth) THEN 2 ELSE 1
\* clean_args: -v and -q are in its list of flags that may have a truth value.
Cleans(args, i) ==
    IF args[i] \in Valued
       \/ (args[i] \in Booleans \cup Bare /\ i < Len(args) /\ args[i + 1] \in Truth) THEN 2 ELSE 1

\* extract_config_path: flags that may have a truth value are not in its list.
Extracts(args, i) == IF args[i] \in Valued \ {"--config"} THEN 2 ELSE 1

\* The words a scanner looks at, as positions.
Starts(args, takes(_, _)) ==
    LET at[k \in 1 .. Len(args) + 1] ==
          IF k = 1 THEN 1 ELSE IF at[k - 1] > Len(args) THEN at[k - 1] ELSE at[k - 1] + takes(args, at[k - 1])
    IN  {at[k] : k \in DOMAIN at} \cap DOMAIN args

WordsAt(args, positions) == [k \in 1 .. Cardinality(positions) |-> args[SetToSortSeq(positions, <)[k]]]

\* The values parse_flags finds for an option; one that is not valid is skipped.
Given(o, args) ==
    LET hits == {i \in Starts(args, Parses) : args[i] = Flag[o]
                   /\ (o = "headed" \/ (i < Len(args) /\ Valid(o, args[i + 1])))}
        value(i) == IF o # "headed" THEN args[i + 1]
                    ELSE IF i < Len(args) /\ args[i + 1] = "false" THEN "false" ELSE "true"
    IN  [k \in 1 .. Cardinality(hits) |-> value(SetToSortSeq(hits, <)[k])]

\* parse_flags: the last occurrence wins, a list grows.
Parsed(o, args, base) ==
    IF o = "ext" THEN base \o Given(o, args)
    ELSE IF Given(o, args) = <<>> THEN base ELSE Last(Given(o, args))

\* clean_args keeps what is neither a flag nor the value of one.
Kept(args) == {i \in Starts(args, Cleans) : args[i] \notin Flags}
CleanArgs(args) == WordsAt(args, Kept(args))

\* Where extract_config_path finds the flag, if anywhere.
ConfigAt(args) ==
    LET hits == {i \in Starts(args, Extracts) : args[i] = "--config"}
    IN  IF hits = {} THEN 0 ELSE CHOOSE i \in hits : \A j \in hits : i <= j

Run ==
    /\ result = NotRead
    /\ LET o == input.option
           base == Default(o, input.env, Merge(o, input.user, input.project))
       IN  result' = [value |-> Parsed(o, input.args, base), words |-> CleanArgs(input.args),
                      kept |-> Kept(input.args), config |-> ConfigAt(input.args)]
    /\ UNCHANGED input

Next == Run
Spec == Init /\ [][Next]_vars

-----------------------------------------------------------------------------
(* Properties.                                                             *)

Read == result # NotRead

\* Project over user, environment over both, arguments over everything; but an
\* environment variable that says false is no answer, it leaves the word to the
\* files.
Precedence ==
    Read /\ input.option # "ext" =>
        LET given == Given(input.option, input.args)
            wanted == Or(IF given = <<>> THEN None ELSE Last(given),
                         Or(IF input.option = "headed" /\ input.env = "false" THEN None ELSE input.env,
                            Or(input.project, input.user)))
        IN  result.value = IF input.option = "headed" THEN Or(wanted, "false") ELSE wanted

\* No word is both a part of the command and a flag or its value, and none is
\* neither: clean_args keeps exactly the words parse_flags leaves alone, except
\* a truth value after -v, which clean_args takes for its value.
ScannersAgree ==
    Read => LET read == Starts(input.args, Parses)
            IN  result.kept = {i \in read : input.args[i] \notin Flags
                   /\ ~(input.args[i] \in Truth /\ i - 1 \in read /\ input.args[i - 1] \in Bare)}

\* The file load_config reads is the one the user named: the first --config that
\* parse_flags, too, takes for a flag, never the value of another flag.
ConfigIsTheFlag ==
    Read => LET hits == {i \in Starts(input.args, Parses) : input.args[i] = "--config"}
            IN  IF hits = {} THEN result.config = 0
                ELSE result.config \in hits /\ \A j \in hits : result.config <= j

=============================================================================

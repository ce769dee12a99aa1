------------------------------ MODULE Commands ------------------------------
(***************************************************************************)
(* From the arguments and the environment of a process to the command that *)
(* runs and its settings, or to an exit code.                              *)
(*                                                                         *)
(* Sources: internal/cli/cli.go (ParseFlags, RunWithWriters),              *)
(* internal/config/config.go.                                              *)
(*                                                                         *)
(* An argument is a word, or a word with a value ("--dir=x").  The value   *)
(* of a setting is an argument: "--dir" takes the next one, whatever it is.*)
(***************************************************************************)
EXTENDS Integers, Sequences

CONSTANTS
  Arguments,  \* the arguments that may be given
  Values,     \* the values that the environment may have
  Unpadded,   \* Unpadded[a]: what is left of a, which has blanks at an end
  MaxArgs     \* bound: how many arguments

Word(w) == [word |-> w, value |-> "none"]
With(w, v) == [word |-> w, value |-> v]

\* The empty string, which the code also uses for "not given".
Empty == Word("")

\* strings.TrimSpace
TrimSpace(a) == IF a \in DOMAIN Unpadded THEN Unpadded[a] ELSE a

Settings == {"url", "dir", "table"}
Switches == {"sql", "noLock", "json"}

\* The spellings of a flag that takes a value.
Spellings(setting) ==
  CASE setting = "url" -> {"--database-url", "-database-url"}
    [] setting = "dir" -> {"--dir", "-dir", "--migrations-dir", "-migrations-dir"}
    [] setting = "table" -> {"--table", "-table"}

\* The spellings of one that does not.
SwitchSpellings(switch) ==
  CASE switch = "sql" ->
         {Word("--sql"), Word("-sql"), Word("--show-sql"), Word("--verbose"), Word("-v")}
    [] switch = "noLock" -> {Word("--no-lock"), Word("-no-lock"), With("--lock", "false")}
    [] switch = "json" -> {Word("--json"), Word("-json"), With("--output", "json")}

ASSUME ArgumentsAssumption ==
  /\ Arguments \subseteq [word : STRING, value : STRING]
  /\ Values \subseteq [word : STRING, value : STRING]
  /\ \A a \in DOMAIN Unpadded : Unpadded[a] \notin DOMAIN Unpadded
  /\ Empty \notin DOMAIN Unpadded
  /\ MaxArgs \in Nat

VARIABLES
  args,       \* os.Args[1:]
  env         \* the environment's value of each setting, Empty if it has none

commandVars == <<args, env>>

-----------------------------------------------------------------------------
(***************************************************************************)
(* ParseFlags.                                                             *)
(***************************************************************************)

NoFlags ==
  [flag |-> [s \in Settings |-> Empty], on |-> {}, rest |-> <<>>, expects |-> {}]

SettingsOf(word) == {s \in Settings : word \in Spellings(s)}
SwitchesOf(a) == {s \in Switches : a \in SwitchSpellings(s)}

Gets(p, settings, value) ==
  [p EXCEPT !.flag = [s \in Settings |-> IF s \in settings THEN value ELSE @[s]],
            !.expects = {}]

MutParse(p, a) ==
  CASE a.value # "none" /\ SettingsOf(a.word) # {} -> Gets(p, SettingsOf(a.word), Word(a.value))
    [] a.value = "none" /\ SettingsOf(a.word) # {} -> [p EXCEPT !.expects = SettingsOf(a.word)]
    [] SwitchesOf(a) # {} -> [p EXCEPT !.on = @ \cup SwitchesOf(a)]
    [] p.expects # {} -> Gets(p, p.expects, a)
    [] OTHER -> [p EXCEPT !.rest = Append(@, a)]

\* One argument: the value that the flag before it takes, a flag, or a rest.  A
\* flag at the end that lacks its value is dropped.
Parse(p, a) ==
  IF p.expects # {} THEN Gets(p, p.expects, a)
  ELSE CASE SettingsOf(a.word) # {} /\ a.value # "none" ->
              Gets(p, SettingsOf(a.word), Word(a.value))
         [] SettingsOf(a.word) # {} /\ a.value = "none" ->
              [p EXCEPT !.expects = SettingsOf(a.word)]
         [] SwitchesOf(a) # {} -> [p EXCEPT !.on = @ \cup SwitchesOf(a)]
         [] OTHER -> [p EXCEPT !.rest = Append(@, a)]

\* The loop over the arguments.
ParseFlags(arguments) ==
  LET parsed[i \in 0..Len(arguments)] ==
        IF i = 0 THEN NoFlags ELSE Parse(parsed[i - 1], arguments[i])
  IN  parsed[Len(arguments)]

-----------------------------------------------------------------------------
(***************************************************************************)
(* RunWithWriters and config.NewWithOpts.                                  *)
(***************************************************************************)

\* What was given before the command wins over what is found after it.
Merged(p, sub) ==
  [flag |-> [s \in Settings |-> IF p.flag[s] = Empty THEN sub.flag[s] ELSE p.flag[s]],
   on |-> p.on \cup sub.on]

Default(setting) ==
  CASE setting = "url" -> Empty
    [] setting = "dir" -> Word("migrations")
    [] setting = "table" -> Word("schemago_migrations")

\* Flag, then environment, then default, without blanks at the ends; a blank value
\* counts as none.
Resolve(setting, flag) ==
  IF TrimSpace(flag) # Empty THEN TrimSpace(flag)
  ELSE IF TrimSpace(env[setting]) # Empty THEN TrimSpace(env[setting])
  ELSE Default(setting)

Stops(code) ==
  [runs |-> "none", exit |-> code, config |-> [s \in Settings |-> Empty], on |-> {}]

\* The handlers begin with their settings; without a URL they fail.
Handler(name, flags) ==
  LET config == [s \in Settings |-> Resolve(s, flags.flag[s])]
  IN  IF config["url"] = Empty THEN Stops(1)
      ELSE [runs |-> name, exit |-> -1, config |-> config, on |-> flags.on]

Handlers == {"status", "plan", "apply", "dry-run"}
Asks == {"version", "--version", "-version", "help", "-h", "--help"}

RunWithWriters(arguments) ==
  LET parsed == ParseFlags(arguments)
      command == Head(parsed.rest)
      flags == Merged(parsed, ParseFlags(Tail(parsed.rest)))
  IN  CASE parsed.rest = <<>> -> Stops(2)
        [] parsed.rest # <<>> /\ command \in {Word(h) : h \in Handlers} ->
             Handler(command.word, flags)
        [] parsed.rest # <<>> /\ command \in {Word(q) : q \in Asks} -> Stops(0)
        [] OTHER -> Stops(2)

-----------------------------------------------------------------------------
CommandsInit ==
  /\ args = <<>>
  /\ env = [s \in Settings |-> Empty]

\* Whoever sets up the environment of the process ...
Export(s, value) ==
  /\ args = <<>>
  /\ env' = [env EXCEPT ![s] = value]
  /\ UNCHANGED args

\* ... and types the command line.
Type(a) ==
  /\ Len(args) < MaxArgs
  /\ args' = Append(args, a)
  /\ UNCHANGED env

CommandsNext ==
  \/ \E s \in Settings, value \in Values : Export(s, value)
  \/ \E a \in Arguments : Type(a)

CommandsSpec == CommandsInit /\ [][CommandsNext]_commandVars

-----------------------------------------------------------------------------
(***************************************************************************)
(* What holds.                                                             *)
(***************************************************************************)

\* Argument i is taken as the value of the flag before it, which is not itself
\* such a value.
IsFlag(i) == SettingsOf(args[i].word) # {} /\ args[i].value = "none"
Value ==
  LET value[i \in 0..Len(args)] == i > 1 /\ IsFlag(i - 1) /\ ~value[i - 1]
  IN  value

\* The arguments that stand for themselves.
Own == {i \in DOMAIN args : ~Value[i]}
Words == {i \in Own : SettingsOf(args[i].word) = {} /\ SwitchesOf(args[i]) = {}}

\* Where the value of a setting is given, and with what.
GivenAt(s) ==
  {i \in Own : s \in SettingsOf(args[i].word) /\ (IsFlag(i) => i < Len(args))}
GivenBy(i) == IF IsFlag(i) THEN args[i + 1] ELSE Word(args[i].value)

\* The last value given for a setting, as a set of at most one.
LastGiven(s) ==
  {GivenBy(i) : i \in {j \in GivenAt(s) : \A k \in GivenAt(s) : k <= j}}

\* Flags may stand anywhere and the last one wins.  The command is the first word
\* that is neither a flag nor a flag's value: without one, or with an unknown one,
\* the exit code is 2, and a handler runs exactly if it is named and there is a
\* URL.  A setting is the last value given, unless that is blank, then the
\* environment's, then the default, and has no blanks at its ends.  The lock is omitted only if somebody asked for
\* that (not by a "--no-lock" that another flag takes for its value).
FlagsMeanWhatTheySay ==
  LET run == RunWithWriters(args)
      named == {args[i] : i \in {j \in Words : \A k \in Words : j <= k}}
      Named(words) == named \cap {Word(w) : w \in words} # {}
      Set(s) == LET given == {TrimSpace(v) : v \in LastGiven(s)} \ {Empty}
                    exported == {TrimSpace(env[s])} \ {Empty}
                IN  IF given # {} THEN given
                    ELSE IF exported # {} THEN exported ELSE {Default(s)}
  IN  /\ run.exit = 2 <=> ~Named(Handlers \cup Asks)
      /\ run.runs # "none" <=> Named(Handlers) /\ Set("url") # {Empty}
      /\ run.runs # "none" =>
           /\ Named({run.runs})
           /\ \A s \in Settings : run.config[s] \in Set(s)
           /\ "noLock" \in run.on <=>
                \E i \in Own : args[i] \in SwitchSpellings("noLock")

-----------------------------------------------------------------------------
\* The usage text and docs/observability.md: invalid flags are usage errors (code
\* 2).  An argument that ParseFlags does not know is dropped: "apply --dry-run"
\* and "apply --help" apply.
InvalidFlagsAreRefused ==
  RunWithWriters(args).runs # "none" =>
    \A i \in Words : args[i].word \notin {"--dry-run", "--help"}
=============================================================================

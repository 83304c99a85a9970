---------------------------- MODULE CommandLine ----------------------------
(***************************************************************************)
(* How the settings of a run come from the configuration file and the      *)
(* arguments (main.go, config.go). An argument is a word or an option      *)
(* -flag or -flag=value; -- is the option of no flag. The package flag is  *)
(* modelled from its documented behaviour.                                 *)
(***************************************************************************)
EXTENDS Naturals, Sequences, FiniteSetsExt, Lists

CONSTANT None   \* no value: of an option without =

BoolFlags == {"fix", "stdin", "git-diff", "git-staged", "audit-suppressions",
              "version", "list-checkers", "skip-vendor"}
ValueFlags == {"file", "checker", "group", "exclude", "severity", "output",
               "format", "go-version"}
Flags == BoolFlags \cup ValueFlags

ASSUME NoneAssumption == None \notin Flags

\* A literal is a string: true in TLA+, but no rule of the provers.
ASSUME LiteralsAssumption == {"", "true", "false", "INFO", "text", "-flag"} \subseteq STRING

Default == [f \in Flags |-> CASE f = "skip-vendor" -> "true"
                              [] f \in BoolFlags \ {"skip-vendor"} -> "false"
                              [] f = "severity" -> "INFO"
                              [] f = "format" -> "text"
                              [] OTHER -> ""]

\* What a text means for a boolean flag: strconv.ParseBool.
BoolTexts == [true |-> "true", t |-> "true", false |-> "false", f |-> "false"]

\* The texts normalizeSpacedBoolFlags takes for boolean literals; it folds case.
Literals == {"true", "false", "tRUE"}

Option(f, v) == [option |-> TRUE, flag |-> f, value |-> v]
Word(w) == [option |-> FALSE, flag |-> "", value |-> w]

\* A word is its text; an option may have a value.
Argument ==
  {a \in [option : BOOLEAN, flag : STRING, value : STRING \cup {None}] :
     a.option \/ a.value # None}

Accepts(f, v) == f \in ValueFlags \/ (f \in BoolFlags /\ v \in DOMAIN BoolTexts)
ValueFor(f, v) == IF f \in BoolFlags THEN BoolTexts[v] ELSE v

-----------------------------------------------------------------------------
(* The configuration: a function from the keys of the file to their values. *)

\* A report path that leaves the project is refused.
Escapes(config) == "output" \in DOMAIN config /\ config["output"] = "../report.md"

\* Mutant of Configured: every key of the file becomes a setting.
ConfiguredUnchecked(config) ==
  [f \in Flags \cup DOMAIN config |-> IF f \in DOMAIN config THEN config[f] ELSE Default[f]]

\* flag.Set: of a text that is no boolean it complains, but the flag is false then.
SetTo(f, v) == IF Accepts(f, v) THEN ValueFor(f, v) ELSE "false"

\* A key that is no flag, or whose value it does not accept, is warned about.
Configured(config) ==
  [f \in Flags |-> IF f \in DOMAIN config THEN SetTo(f, config[f]) ELSE Default[f]]

-----------------------------------------------------------------------------
(* normalizeSpacedBoolFlags *)

\* Argument i is a boolean flag that is followed by its value.
TakesNext(args, i) ==
  /\ i < Len(args)
  /\ args[i].option /\ args[i].flag \in BoolFlags /\ args[i].value = None
  /\ ~args[i + 1].option /\ args[i + 1].value \in Literals

\* The arguments, each such flag with its value.
Merged(args) ==
  [i \in DOMAIN args |-> IF TakesNext(args, i)
                         THEN Option(args[i].flag, args[i + 1].value) ELSE args[i]]

\* Mutant of Normalized: the value is merged into the flag and kept as well.
NormalizedTwice(args) == Merged(args)

Normalized(args) ==
  At(Merged(args), {i \in DOMAIN args : i = 1 \/ ~TakesNext(args, i - 1)})

-----------------------------------------------------------------------------
(* flag.Parse: options up to the first operand. *)

Start(settings) == [settings |-> settings, pending |-> None, operands |-> <<>>,
                    ended |-> FALSE, error |-> FALSE]

\* An argument that is no option here, whatever it looks like. All texts that
\* begin with a dash are one: nothing in main.go tells them apart.
Text(a) == IF a.option THEN "-flag" ELSE a.value

TakeValue(s, a) == [s EXCEPT !.settings[s.pending] = Text(a), !.pending = None]

TakeOption(s, a) ==
  CASE a.flag \notin Flags -> [s EXCEPT !.error = TRUE]
    [] a.flag \in ValueFlags /\ a.value = None -> [s EXCEPT !.pending = a.flag]
    [] a.flag \in BoolFlags /\ a.value = None -> [s EXCEPT !.settings[a.flag] = "true"]
    [] OTHER -> IF Accepts(a.flag, a.value)
                THEN [s EXCEPT !.settings[a.flag] = ValueFor(a.flag, a.value)]
                ELSE [s EXCEPT !.error = TRUE]

Take(s, a) ==
  CASE s.error -> s
    [] ~s.error /\ s.ended -> [s EXCEPT !.operands = Append(@, Text(a))]
    [] ~s.error /\ ~s.ended /\ s.pending # None -> TakeValue(s, a)
    [] ~s.error /\ ~s.ended /\ s.pending = None /\ ~a.option ->
         [s EXCEPT !.ended = TRUE, !.operands = <<Text(a)>>]
    [] ~s.error /\ ~s.ended /\ s.pending = None /\ a = Option("", None) ->
         [s EXCEPT !.ended = TRUE]
    [] OTHER -> TakeOption(s, a)

\* A flag that is still waiting for its value at the end is an error.
Parsed(args, settings) ==
  LET state[k \in 0..Len(args)] ==
        IF k = 0 THEN Start(settings) ELSE Take(state[k - 1], args[k])
      last == state[Len(args)]
  IN  [last EXCEPT !.error = @ \/ last.pending # None]

-----------------------------------------------------------------------------
(* What the author of a command line means. *)

\* Argument i is the value of the flag before it.
IsValue(args, i) ==
  /\ i > 1
  /\ \/ TakesNext(args, i - 1)
     \/ args[i - 1].option /\ args[i - 1].flag \in ValueFlags /\ args[i - 1].value = None

\* No value begins with a dash.
NoDashedValue(args) == \A i \in DOMAIN args : IsValue(args, i) => ~args[i].option

\* The options before the first operand.
Options(args) ==
  {i \in DOMAIN args :
     \A j \in 1..i : IsValue(args, j) \/ (args[j].option /\ args[j].flag # "")}
  \ {i \in DOMAIN args : IsValue(args, i)}

\* What option i sets its flag to.
Meant(args, i) ==
  LET f == args[i].flag
  IN  CASE args[i].value # None -> ValueFor(f, args[i].value)
        [] args[i].value = None /\ i < Len(args) /\ IsValue(args, i + 1) ->
             ValueFor(f, args[i + 1].value)
        [] OTHER -> "true"

\* The options that set a flag.
Given(args, f) == {i \in Options(args) : args[i].flag = f}

\* The last option of a flag counts, else what the configuration says of it,
\* else the flag's default: a setting of the configuration that the flag does
\* not accept, and that is warned about, says nothing.
Intended(args, config, f) ==
  LET given == Given(args, f)
  IN  IF given # {} THEN Meant(args, Max(given))
      ELSE IF f \in DOMAIN config /\ Accepts(f, config[f]) THEN ValueFor(f, config[f])
      ELSE Default[f]

\* Flags that are on by default and that a text which is no boolean switches off
\* all the same: skip-vendor = yes.
SwitchedOff(config) ==
  {f \in Flags \cap DOMAIN config : Default[f] = "true" /\ ~Accepts(f, config[f])}

=============================================================================

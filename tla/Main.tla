-------------------------------- MODULE Main -------------------------------
(***************************************************************************)
(* One run of goperfcheck (main.go): settings, selection, scan, report or  *)
(* fix, and the exit status. The scan is that of ScanPipeline without its  *)
(* workers: each path gives a batch of issues and the batches arrive in    *)
(* any order. What -fix makes of one file is FixFile; here a fix succeeds  *)
(* or fails, and the program may be killed between and within fixes.       *)
(***************************************************************************)
EXTENDS CommandLine, GoVersions, Report, Selection, SequencesExt

CONSTANTS
  Arguments,    \* command lines
  Configs,      \* configurations; Malformed is one with a line that has no =
  Malformed,
  Tree,         \* the files of the directory, in the order of their paths
  Named,        \* the texts of -file: the numbers of files, 0 for no Go file
  Patterns,     \* the texts of -exclude: sets of patterns
  Versions,     \* the texts of -go-version
  GoMods,       \* go.mod files from the directory upwards
  Batches,      \* what the checkers may find in a file, the file left out
  Lines,        \* lines that a diff may show as changed
  Narrow        \* bound: arguments of a run whose scan finds something

VARIABLES
  args, config,  \* the command line and the configuration
  phase,
  settings, operands,
  goVersion, checkers, paths,
  changedLines,  \* of -git-diff
  batches, raw, report,
  todo,          \* files that -fix has yet to look at
  disk,          \* of each file: "old", "cut" (half written), "new"
  failed,        \* files whose fix failed
  status         \* "running", "killed" or the exit status

vars == <<args, config, phase, settings, operands, goVersion, checkers, paths,
          changedLines, batches, raw, report, todo, disk, failed, status>>

input   == <<args, config>>
setting == <<settings, operands>>
choice  == <<goVersion, checkers, paths, changedLines>>
found   == <<batches, raw, report>>
fixing  == <<todo, disk, failed>>

Files == DOMAIN Tree
Stdin == 0

\* What a checker says of one place of a file.
Finding == [line : Nat \ {0}, column : Nat \ {0}, checker : AllCheckers,
            severity : DOMAIN Level, message : DOMAIN NameText,
            typed : BOOLEAN, fix : BOOLEAN, note : {FALSE}]

Issue == [file : Files \cup {Stdin}, line : Nat \ {0}, column : Nat \ {0},
          checker : AllCheckers, severity : DOMAIN Level, message : DOMAIN NameText,
          typed : BOOLEAN, fix : BOOLEAN, note : BOOLEAN]

ASSUME InputsAssumption ==
  /\ Arguments \subseteq Seq(Argument)
  /\ \A c \in Configs \ {Malformed} : c \in [DOMAIN c -> STRING]
  /\ Tree \in Seq([dirs : Seq(STRING), base : STRING])
  /\ Named \in [DOMAIN Named -> Files \cup {0}]
  /\ Batches \subseteq Seq(Finding)
  /\ Lines \subseteq Nat

\* Every file and every checker has a text, and no checker's has a colon.
ASSUME TextsAssumption ==
  /\ Files \cup {Stdin} \subseteq DOMAIN PathText
  /\ AllCheckers \subseteq DOMAIN NameText
  /\ \A c \in AllCheckers : \A i \in DOMAIN NameText[c] : NameText[c][i] # Colon

On(f) == settings[f] = "true"

Init ==
  /\ args \in Arguments /\ config \in Configs
  /\ phase = "start" /\ status = "running"
  /\ settings = Default /\ operands = <<>>
  /\ goVersion = Unknown /\ checkers = AllCheckers /\ paths = {} /\ changedLines = {}
  /\ batches = <<>> /\ raw = <<>> /\ report = <<>>
  /\ todo = {} /\ failed = {} /\ disk = [f \in Files |-> "old"]

Exit(code) == status' = code /\ phase' = "done"
Go(next) == status' = status /\ phase' = next

-----------------------------------------------------------------------------
(* Settings *)

\* The configuration is read before the arguments are.
LoadConfig ==
  /\ phase = "start"
  /\ IF config = Malformed \/ Escapes(config)
     THEN Exit("2") /\ UNCHANGED settings
     ELSE settings' = Configured(config) /\ Go("parse")
  /\ UNCHANGED <<input, operands, choice, found, fixing>>

ParseArguments ==
  /\ phase = "parse"
  /\ LET parsed == Parsed(Normalized(args), settings)
     IN  \/ parsed.error /\ Exit("2") /\ UNCHANGED setting
         \/ /\ ~parsed.error
            /\ settings' = parsed.settings /\ operands' = parsed.operands
            /\ Go("dispatch")
  /\ UNCHANGED <<input, choice, found, fixing>>

\* Options that cannot be used together.
Conflict ==
  \/ On("stdin") /\ (On("fix") \/ settings["file"] # "" \/ On("git-staged")
                     \/ On("audit-suppressions") \/ On("git-diff"))
  \/ On("git-diff") /\ (On("git-staged") \/ settings["file"] # "")
  \/ settings["checker"] # "" /\ settings["group"] # ""

\* explain with the name of a checker; other words are no subcommand.
Explained == Len(operands) > 1 /\ operands[2] \in AllCheckers

Dispatch ==
  /\ phase = "dispatch"
  /\ \/ On("version") /\ Exit("0")
     \/ /\ ~On("version") /\ operands # <<>>
        /\ Exit(IF operands[1] # "explain" THEN "2" ELSE IF Explained THEN "0" ELSE "1")
     \/ ~On("version") /\ operands = <<>> /\ On("list-checkers") /\ Exit("0")
     \/ /\ ~On("version") /\ operands = <<>> /\ ~On("list-checkers")
        /\ IF Conflict THEN Exit("1") ELSE Go("select")
  /\ UNCHANGED <<input, setting, choice, found, fixing>>

\* The version of the flag, or of go.mod; a flag that cannot be read hides
\* go.mod as well.
DetectVersion(mods) ==
  CASE settings["go-version"] # "" -> ParseGoVersion(Versions[settings["go-version"]])
    [] settings["go-version"] = "" /\ On("stdin") -> {}
    [] OTHER -> ReadModGoVersion(mods)

Select ==
  /\ phase = "select"
  /\ \E mods \in GoMods :
       goVersion' \in IF DetectVersion(mods) = {} THEN {Unknown} ELSE DetectVersion(mods)
  /\ checkers' = SelectedCheckers(settings["checker"], settings["group"])
  /\ IF checkers' = {} THEN Exit("1") ELSE Go("collect")
  /\ UNCHANGED <<input, setting, paths, changedLines, found, fixing>>

-----------------------------------------------------------------------------
(* Files *)

Excluded == Patterns[settings["exclude"]]

\* Standard input is read and parsed here.
ReadStdin ==
  /\ phase = "collect" /\ On("stdin")
  /\ \/ Exit("2") /\ UNCHANGED paths
     \/ paths' = {Stdin} /\ Go("scan")
  /\ UNCHANGED <<input, setting, goVersion, checkers, changedLines, found, fixing>>

\* The Go file of -file, if it is one.
NamedFile ==
  {f \in Files : settings["file"] \in DOMAIN Named /\ f = Named[settings["file"]]}

CollectFile ==
  /\ phase = "collect" /\ ~On("stdin") /\ settings["file"] # ""
  /\ IF NamedFile = {} THEN Exit("1") /\ UNCHANGED paths
     ELSE paths' = NamedFile /\ Go("scan")
  /\ UNCHANGED <<input, setting, goVersion, checkers, changedLines, found, fixing>>

\* The staged files, those in excluded directories and in vendor included.
CollectStaged ==
  /\ phase = "collect" /\ ~On("stdin") /\ settings["file"] = "" /\ On("git-staged")
  /\ \/ Exit("1") /\ UNCHANGED paths
     \/ /\ \E staged \in SUBSET Files :
             paths' = {f \in staged : Checked(Tree[f], Excluded)}
        /\ Go("scan")
  /\ UNCHANGED <<input, setting, goVersion, checkers, changedLines, found, fixing>>

\* The files of a diff and the lines that changed in them.
CollectDiff ==
  /\ phase = "collect" /\ On("git-diff")
  /\ \/ Exit("1") /\ UNCHANGED <<paths, changedLines>>
     \/ \E diff \in SUBSET Files :
          /\ paths' = {f \in diff : Checked(Tree[f], Excluded)}
          /\ changedLines' \in SUBSET (diff \X Lines)
          /\ IF paths' = {} THEN Exit("0") ELSE Go("scan")
  /\ UNCHANGED <<input, setting, goVersion, checkers, found, fixing>>

Walk ==
  /\ phase = "collect"
  /\ ~On("stdin") /\ ~On("git-diff") /\ ~On("git-staged") /\ settings["file"] = ""
  /\ \/ Exit("1") /\ UNCHANGED paths
     \/ /\ paths' = {f \in Files : Walked(Tree[f], Excluded, On("skip-vendor"))}
        /\ Go("scan")
  /\ UNCHANGED <<input, setting, goVersion, checkers, changedLines, found, fixing>>

-----------------------------------------------------------------------------
(* Issues *)

\* The audit of the suppressions ends the run (Suppress).
Audit ==
  /\ phase = "scan" /\ On("audit-suppressions")
  /\ Exit("0") \/ Exit("1")
  /\ UNCHANGED <<input, setting, choice, found, fixing>>

\* A finding with its file.
Located(f, finding) ==
  [x \in DOMAIN finding \cup {"file"} |-> IF x = "file" THEN f ELSE finding[x]]

\* The issues of a batch, from the checkers of this run.
BatchOf(f, batch) ==
  At([k \in DOMAIN batch |-> Located(f, batch[k])],
     {k \in DOMAIN batch : batch[k].checker \in checkers})

Scan ==
  /\ phase = "scan" /\ ~On("audit-suppressions")
  /\ \E b \in [paths -> IF Len(args) <= Narrow THEN Batches ELSE {<<>>}],
        order \in SetToSeqs(paths) :
       /\ batches' = [f \in paths |-> BatchOf(f, b[f])]
       /\ raw' = FlattenSeq([k \in DOMAIN order |-> batches'[order[k]]])
  /\ Go("narrow")
  /\ UNCHANGED <<input, setting, choice, report, fixing>>

NarrowDown ==
  /\ phase = "narrow"
  /\ report' \in
       Sortings(ApplyGoVersion(
         Narrowed(raw, ParseSeverity(settings["severity"]), On("git-diff"), changedLines),
         goVersion))
  /\ Go(IF On("fix") THEN "group" ELSE "report")
  /\ UNCHANGED <<input, setting, choice, batches, raw, fixing>>

\* The report in one of its forms. A file that cannot be written is an error,
\* and so is a standard output that JSON cannot be written to.
WriteReport ==
  /\ phase = "report"
  /\ \/ /\ settings["output"] # "" \/ settings["format"] = "json"
        /\ Exit("2")
     \/ Exit(IF report = <<>> THEN "0" ELSE "1")
  /\ UNCHANGED <<input, setting, choice, found, fixing>>

-----------------------------------------------------------------------------
(* applyFixes *)

GroupByFile ==
  /\ phase = "group"
  /\ todo' = Files \cap Fixable(report)
  /\ Go("fix")
  /\ UNCHANGED <<input, setting, choice, found, disk, failed>>

\* A file that is not touched: no edit applies, or it is a symlink, cannot be
\* read or parsed, or the result cannot be formatted.
LeaveFile ==
  /\ phase = "fix"
  /\ \E f \in todo :
       /\ todo' = todo \ {f}
       /\ failed' \in {failed, failed \cup {f}}
  /\ Go("fix")
  /\ UNCHANGED <<input, setting, choice, found, disk>>

\* os.WriteFile opens the file with O_TRUNC and writes it in place.
StartWrite ==
  /\ phase = "fix"
  /\ \E f \in todo : disk' = [disk EXCEPT ![f] = "cut"]
  /\ Go("write")
  /\ UNCHANGED <<input, setting, choice, found, todo, failed>>

FinishWrite ==
  /\ phase = "write"
  /\ \E f \in todo :
       /\ disk[f] = "cut"
       /\ todo' = todo \ {f}
       /\ \/ disk' = [disk EXCEPT ![f] = "new"] /\ UNCHANGED failed
          \/ failed' = failed \cup {f} /\ UNCHANGED disk
  /\ Go("fix")
  /\ UNCHANGED <<input, setting, choice, found>>

\* Mutant of EndFix: the first failure ends the fixing.
EndFixEarly ==
  /\ phase = "fix" /\ (todo = {} \/ failed # {})
  /\ Exit("0")
  /\ UNCHANGED <<input, setting, choice, found, fixing>>

EndFix ==
  /\ phase = "fix" /\ todo = {}
  /\ Exit("0")
  /\ UNCHANGED <<input, setting, choice, found, fixing>>

\* The process is killed while it fixes files.
Kill ==
  /\ phase \in {"fix", "write"}
  /\ Exit("killed")
  /\ UNCHANGED <<input, setting, choice, found, fixing>>

Next ==
  \/ LoadConfig \/ ParseArguments \/ Dispatch \/ Select
  \/ ReadStdin \/ CollectFile \/ CollectStaged \/ CollectDiff \/ Walk
  \/ Audit \/ Scan \/ NarrowDown \/ WriteReport
  \/ GroupByFile \/ LeaveFile \/ StartWrite \/ FinishWrite \/ EndFix \/ Kill

Spec == Init /\ [][Next]_vars

-----------------------------------------------------------------------------

\* Every variable keeps its type.
TypeOK ==
  /\ phase \in {"start", "parse", "dispatch", "select", "collect", "scan", "narrow",
                "report", "group", "fix", "write", "done"}
  /\ settings \in [Flags -> STRING] /\ operands \in Seq(STRING)
  /\ checkers \subseteq AllCheckers /\ paths \subseteq Files \cup {Stdin}
  /\ batches \in [DOMAIN batches -> Seq(Issue)]
  /\ raw \in Seq(Issue) /\ report \in Seq(Issue)
  /\ todo \subseteq Files /\ failed \subseteq Files
  /\ disk \in [Files -> {"old", "cut", "new"}]
  /\ status \in {"running", "killed", "0", "1", "2"}

\* A command line is read as its author means it: a flag has the value of its
\* last option, written with = or with a space, else that of the configuration,
\* else its default, provided no value begins with a dash. A setting that the
\* flag does not accept leaves it at its default - unless that is true and no
\* option sets the flag: flag.Set has switched it off before it complains.
FlagsMeanWhatTheySay ==
  phase \notin {"start", "parse", "done"} /\ NoDashedValue(args) =>
    \A f \in Flags :
      \/ settings[f] = Intended(args, config, f)
      \/ f \in SwitchedOff(config) /\ Given(args, f) = {}

\* The issue without what the version may change.
Plain(iss) == [iss EXCEPT !.note = FALSE, !.typed = FALSE]

Admitted(iss) ==
  /\ Severe(iss, ParseSeverity(settings["severity"]))
  /\ On("git-diff") => Changed(iss, changedLines)

\* An issue whose place Go writes as text without loss.
Ordinary(iss) == iss.line < 55296 /\ iss.column < 55296

Same(a, b) == \A x \in {"line", "column", "checker", "message"} : a[x] = b[x]

\* The report is the same whatever order the batches arrive in: in the order of
\* the files and lines (issues of one line in any order, as sort.Slice leaves
\* them), and with the first admitted issue of each place, checker
\* and message of a file's batch - of the lines below 55296, beyond which
\* DedupeIssues confuses some.
ReportIsExact ==
  phase \in {"report", "group", "fix", "write"} =>
    /\ InOrder(report)
    /\ \A k \in DOMAIN report : \E f \in paths : \E i \in DOMAIN batches[f] :
         Plain(report[k]) = Plain(batches[f][i]) /\ Admitted(batches[f][i])
    /\ \A f \in paths : \A i \in DOMAIN batches[f] :
         LET iss == batches[f][i]
         IN  Ordinary(iss) /\ Admitted(iss) =>
               \E first \in 1..i :
                 /\ Same(batches[f][first], iss) /\ Admitted(batches[f][first])
                 /\ Cardinality({k \in DOMAIN report :
                      report[k].file = f /\ Same(report[k], iss)}) = 1
                 /\ \E k \in DOMAIN report : Plain(report[k]) = Plain(batches[f][first])
                 /\ \A j \in 1..(first - 1) :
                      Admitted(batches[f][j]) => ~Same(batches[f][j], iss)

\* A source file is changed only where the author asks for -fix, only for an
\* issue the run found in it, and only by a run that does not exit as a check
\* that found issues or failed.
OnlyFixWrites ==
  \A f \in Files : disk[f] # "old" =>
    /\ NoDashedValue(args) => Intended(args, config, "fix") = "true"
    /\ f \in paths
    /\ \E i \in DOMAIN batches[f] : batches[f][i].fix /\ Admitted(batches[f][i])
    /\ status \in {"running", "killed", "0"}

\* One file that cannot be fixed does not keep another from it: when the run is
\* over every file with something to fix is fixed, kept as it was, or failed; at
\* most one is left half written by a kill, the others by a write that failed.
FixesAreIndependent ==
  /\ \A f \in Files : disk[f] = "new" => f \notin failed \cup todo
  /\ \A f, g \in Files : {disk[f], disk[g]} = {"cut"} /\ {f, g} \cap failed = {} => f = g
  /\ phase = "done" /\ status = "0" =>
       /\ todo = {}
       /\ \A f \in Files : disk[f] = "cut" => f \in failed

=============================================================================

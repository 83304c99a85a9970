---------------------------- MODULE CacheSession ---------------------------
(***************************************************************************)
(* The result cache over a long series of invocations: files are edited,   *)
(* copied and removed, days pass, and goperfcheck is run on them in its    *)
(* different modes. Each file of each run goes through checkFileConcurrent *)
(* (cmd/goperfcheck/scanner.go); here that call is one step and an entry   *)
(* is written whole (CacheStore has the file operations).                  *)
(*                                                                         *)
(* A content is a record:                                                  *)
(*   id         which text it is                                           *)
(*   parses     go/parser accepts it                                       *)
(*   generated  it carries a "// Code generated" comment                   *)
(*   seenBy     the checker selections that report its one issue           *)
(*   until      the last day its //goperfcheck:ignore comment suppresses   *)
(*              that issue (Never: no comment, Forever: no until: date)    *)
(* An issue is represented by the file name it carries.                    *)
(***************************************************************************)
EXTENDS Integers

CONSTANTS
  Paths,      \* the files
  Versions,   \* Versions[p]: the contents file p may have
  Missing,    \* the file does not exist
  Configs,    \* tool version and active checkers: what the config hash covers
  Modes,      \* how the runs select files, among "dir" "file" "staged" "diff"
  MaxDay,     \* bound: the days that pass
  Absent,     \* no cache entry
  NoRun       \* nothing has been scanned yet

Contents == UNION {Versions[p] : p \in Paths}
Never == -1
Forever == MaxDay + 1

ASSUME SessionAssumption ==
  /\ MaxDay \in Nat
  /\ Modes \subseteq {"dir", "file", "staged", "diff"}
  /\ Missing \notin Contents
  /\ \A c \in Contents : c.seenBy \subseteq Configs /\ c.until \in Never..Forever

VARIABLES
  tree,    \* the content of each file
  today,   \* the date
  cache,   \* .goperfcheck-cache/: what each entry holds
  last     \* the file just scanned: how, and what was and should be reported

vars == <<tree, today, cache, last>>

\* Mutant of NameOf: issues carry the base name of the file.
BaseName(p, mode) == <<"base", p>>

\* A directory walk joins names to -dir, "." by default; the other modes make
\* the path absolute.
NameOf(p, mode) == <<IF mode = "dir" THEN "rel" ELSE "abs", p>>
Names == {"rel", "abs"} \X Paths

\* main.go: -skip-generated does not apply to an explicit -file.
SkipGenerated(flag, mode) == flag /\ mode # "file"

\* Parsing, the generated-file rule, the checkers and FilterSuppressed, with
\* the file named by name and the date day.
Analysis(c, cfg, skip, day, name) ==
  IF /\ c.parses
     /\ ~(skip /\ c.generated)
     /\ cfg \in c.seenBy
     /\ day > c.until
  THEN {name} ELSE {}

\* Mutant of Key: the checkers are left out of the entry's name.
KeyOfContent(c, cfg) == <<c, CHOOSE g \in Configs : TRUE>>

\* cacheEntryName: the hash of the content and the hash of the configuration.
Key(c, cfg) == <<c, cfg>>

\* filterByChangedLines looks the file of an issue up among the absolute paths
\* of the diff; here every issue is on a changed line.
Shown(issues, p, mode) ==
  IF mode = "diff" THEN issues \cap {NameOf(p, "diff")} ELSE issues

Init ==
  /\ tree \in [Paths -> Contents \cup {Missing}]
  /\ \A p \in Paths : tree[p] \in Versions[p] \cup {Missing}
  /\ today = 0
  /\ cache = [k \in Contents \X Configs |-> Absent]
  /\ last = NoRun

\* An editor, git or a file manager: the file gets another content, possibly
\* that of another file (a copy, a rename), or goes away.
Edit(p, c) ==
  /\ tree[p] # c
  /\ tree' = [tree EXCEPT ![p] = c]
  /\ last' = NoRun
  /\ UNCHANGED <<today, cache>>

NextDay ==
  /\ today < MaxDay
  /\ today' = today + 1
  /\ last' = NoRun
  /\ UNCHANGED <<tree, cache>>

\* raw is what main gets for the file, fresh what an uncached run would get.
Record(p, mode, flag, cfg, issues) ==
  last' = [content |-> tree[p], cfg |-> cfg, path |-> p, mode |-> mode,
           day |-> today, raw |-> issues,
           fresh |-> Analysis(tree[p], cfg, SkipGenerated(flag, mode), today,
                              NameOf(p, mode))]

Hit(p, mode, flag, cfg) ==
  /\ tree[p] # Missing
  /\ cache[Key(tree[p], cfg)] # Absent
  /\ Record(p, mode, flag, cfg, cache[Key(tree[p], cfg)])
  /\ UNCHANGED <<tree, today, cache>>

\* Mutant of Miss: the issues are cached before FilterSuppressed.
MissCachesBeforeFilter(p, mode, flag, cfg) ==
  LET c == tree[p]
      skip == SkipGenerated(flag, mode)
      issues == Analysis(c, cfg, skip, today, NameOf(p, mode))
  IN  /\ c # Missing
      /\ cache[Key(c, cfg)] = Absent
      /\ cache' = [cache EXCEPT ![Key(c, cfg)] =
                     Analysis(c, cfg, skip, Forever + 1, NameOf(p, mode))]
      /\ Record(p, mode, flag, cfg, issues)
      /\ UNCHANGED <<tree, today>>

\* A text that does not parse is reported on stderr and not cached.
Miss(p, mode, flag, cfg) ==
  LET c == tree[p]
      skip == SkipGenerated(flag, mode)
      issues == Analysis(c, cfg, skip, today, NameOf(p, mode))
  IN  /\ c # Missing
      /\ cache[Key(c, cfg)] = Absent
      /\ cache' = IF c.parses THEN [cache EXCEPT ![Key(c, cfg)] = issues]
                              ELSE cache
      /\ Record(p, mode, flag, cfg, issues)
      /\ UNCHANGED <<tree, today>>

\* The entry was not written, or somebody deleted the directory.
EntryLost(k) ==
  /\ cache[k] # Absent
  /\ cache' = [cache EXCEPT ![k] = Absent]
  /\ last' = NoRun
  /\ UNCHANGED <<tree, today>>

Next ==
  \/ \E p \in Paths : \E c \in Versions[p] \cup {Missing} : Edit(p, c)
  \/ NextDay
  \/ \E p \in Paths, mode \in Modes, flag \in BOOLEAN, cfg \in Configs :
       Hit(p, mode, flag, cfg) \/ Miss(p, mode, flag, cfg)
  \/ \E k \in Contents \X Configs : EntryLost(k)

Spec == Init /\ [][Next]_vars

-----------------------------------------------------------------------------
(* Properties *)

Answers == SUBSET Names

TypeOK ==
  /\ \A p \in Paths : tree[p] \in Versions[p] \cup {Missing}
  /\ today \in 0..MaxDay
  /\ cache \in [Contents \X Configs -> Answers \cup {Absent}]
  /\ last = NoRun \/ last.raw \in Answers

\* A content whose analysis depends on nothing but the checkers: no until: date,
\* not generated, and not shared by two files.
Plain(c) ==
  /\ c.until \in {Never, Forever}
  /\ ~c.generated
  /\ \A p, q \in Paths : c \in Versions[p] \cap Versions[q] => p = q

Files(issues) == {name[2] : name \in issues}

\* Such a file gets the issues an uncached run would report, after any series
\* of edits, runs and lost entries (their path may be spelled as another mode
\* spells it).
CacheTransparent ==
  last # NoRun /\ Plain(last.content) => Files(last.raw) = Files(last.fresh)

\* Even where it is stale, what the cache hands back is the analysis of this
\* very content by these very checkers: another day's, another mode's, or under
\* another name of the file.
StaleOnlyInThreeWays ==
  last # NoRun =>
    \E day \in 0..last.day, skip \in BOOLEAN, name \in Names :
      last.raw = Analysis(last.content, last.cfg, skip, day, name)

\* Where the cache has no part in it.
FoundAfresh == last # NoRun /\ last.fresh # {}

\* "Suppressions whose until:YYYY-MM-DD date has passed are ignored - the issue
\* resurfaces automatically" (suppress.go).
ExpiredResurfaces ==
  FoundAfresh /\ ~last.content.generated /\ last.day > last.content.until
    => last.raw # {}

\* -git-diff reports the issues on changed lines whether or not they were
\* cached: both forms of disabling the cache "must produce the same findings as
\* the default (cache-enabled) run" (main_test.go).
DiffReportsChangedIssues ==
  FoundAfresh /\ last.mode = "diff" =>
    Shown(last.raw, last.path, "diff") # {}

=============================================================================

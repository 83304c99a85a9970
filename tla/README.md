# goperfcheck in TLA+

goperfcheck is a command-line tool that parses Go source files, runs a set of
syntax-tree checkers on each, and prints, writes or fixes what they report. This
directory models the parts of it in which order, concurrency, time and failure
matter, model-checks them with TLC and proves properties of them with TLAPS.

    tlc -workers 2 -config MCScanPipeline.cfg ScanPipeline
    tlapm ScanPipelineProofs.tla

`PROJECT.json` lists the components, the runs, the lines of Go behind every
definition, the hazards and the theorems.

## 1. The system

| Component | Source | State | Operations | Interacts with |
|---|---|---|---|---|
| Parallel scanner | `scanner.go`, `progress.go`, worker count in `main.go` | channels `jobs` and `results`, WaitGroup, atomic counter, channel `stop`, the progress line | `scanFiles`, `auditFiles`, `runScanWithProgress` | called by `main`; calls `checkFileConcurrent` for every file |
| Result cache | `cache.go` | `.goperfcheck-cache/`: one JSON file per content and configuration | `readCacheEntry`, `writeCacheEntry`, `computeConfigHash` | called by `checkFileConcurrent` from every worker; shared by all processes run on the tree |
| Suppression comments | `checker/suppress.go`, `audit.go` | none (the comments of a file, the date) | `FilterSuppressed`, `CollectSuppressions`, `printAuditReport` | filter runs before the cache is written; the audit bypasses the cache |
| Git diff reader | `diff.go` | none | `parseDiff`, `parseNewStart`, `filterByChangedLines` | selects files and lines for `-git-diff` |
| Report pipeline | `main.go`, `checker/checker.go`, `checker/goversion.go` | the issue list | severity filter, changed-line filter, `DedupeIssues`, `ApplyGoVersion`, sort, exit status | takes the scanner's list in completion order |
| Auto-fix | `fix.go` | the source files | `applyFixes`, `fixFile`, the three `*Edit` functions | takes the report's issues, reads the files again |
| Command line and configuration | `main.go`, `config.go`, `exclude.go`, `groups.go` | flags | `loadConfig`, `normalizeSpacedBoolFlags`, tree walk, `CheckersForGroup` | decides mode, paths and checkers |
| Go version | `checker/goversion.go` | none | `ReadModGoVersion`, `ParseGoVersion`, `AtLeast` | notes on issues |
| Checkers | `checker/*.go` | none | 19 visitors of the syntax tree | run by `checkFileConcurrent` |
| Writers | `report.go`, `sarif.go`, `color.go`, `metadata.go` | none | Markdown, SARIF, terminal output | end of `main` |

What is hard, and what makes each part correct:

* **Scanner.** A feeder, up to 512 workers, a closer, the collecting main
  goroutine and a progress goroutine meet on unbuffered channels. Nothing may be
  lost, reported twice, sent on a closed channel or left blocked; the progress
  line must be gone before results are printed.
* **Cache.** Several workers and several processes read and write the same entry
  through one temporary name; processes are killed and writes fail. The answer
  must be that of an uncached run, and a bad entry must not survive. Over time,
  a cached answer must not outlive what it was computed from.
* **Suppressions.** The audit must not call a comment removable when removing it
  would bring an issue back.
* **Diff reader.** The line numbers it reports must be those of added lines,
  whatever text the lines hold.
* **Report.** No distinct issue is dropped, none is duplicated, and the order
  does not depend on the goroutines.
* **Fixer.** Edits do not overlap, a second run has nothing left to do, the result
  compiles where it can, the checker that asked for a fix reports less than before, no
  struct grows, a failed file leaves the others fixed.
* **Command line.** A setting is what the last option says, else the configuration,
  however flags and values are spelled; a run exits with one status.

## 2. Plan

Modules in the order they were written.

1. `ScanPromise`, `ScanPipeline`, `ScanPipelineProofs` - done, proved.
2. `CacheStore`, `CacheStoreProofs`: the files of one entry under concurrency and
   faults - done, its safety proved.
3. `CacheSession`, `CacheSessionProofs`: keys and reuse over a series of runs -
   done, its safety proved.
4. `Suppress`, `SuppressProofs`: `FilterSuppressed` against `CollectSuppressions`,
   and the author who works off the audit's listing - done, proved.
5. `DiffReader`, `DiffReaderProofs`: the line-by-line state machine of `parseDiff`
   against the diff's meaning; the lines it mistakes for headers - done, proved.
6. `Prealloc`, `StructAlign`, `FixFile`, `FixFileProofs`: the two checkers that
   give hints to the fixer, and the fixer on one file - done, proved.
7. `CommandLine`, `Selection`, `GoVersions`, `Report`, `Main`, `MainProofs`: one
   run of the program from its arguments to its exit status, and `applyFixes` over
   several files with failures and kills - done, proved.
8. `Lists`, `ListLemmas`: the operators on lists that the others share, and what is
   known of them for lists of every length - done.

## 3. The models

### ScanPromise and ScanPipeline

`ScanPromise` is what a scan owes its caller: each file of the list is settled
once, a file with issues by appending its batch, and the function returns when
all are settled. `ScanPipeline` is `scanFiles` and `auditFiles` (which differ in
the counter only), `runScanWithProgress` and main's worker count, with one
variable per Go object: `jobs`, `results`, `stop` (open or closed), `wg`,
`progress`, `next` (the feeder's loop), `pc` and `path` (each worker), `ticker`
and `n` (the progress goroutine and the value it loaded), `screen` (the line),
`all` (main's slice) and `main` (where main is).

A send on an unbuffered channel and the receive that meets it are one step
(`SendJob`, `SendBatch`); everything else is a step of one goroutine. `Spawn(w)`
is an iteration of the spawning loop, so workers run while others are not started
yet; they block until the feeder, started by `Launch`, sends. Checking a file
touches no shared state except the cache, so `CheckFile` is one step and a file
is the outcome of checking it: `test`, `silent` or `issues`. `Launch` stands for
two `go` statements and merges them: between the two only the closer is missing,
and it does nothing before the workers end. A worker started by the model in any
order: the loop's order is not visible to anything else.

`Fairness`: every goroutine that can run is run (weak fairness), which the Go
scheduler gives; `TickerStop` has strong fairness, because `select` picks among
ready cases uniformly at random and a tick is ready only every 150 ms. No
fairness for `Tick`.

### CacheStore

One entry of the cache and every worker (of any process) that looks at a file with
this content. The file system is modelled as inodes: `tmp` and `entry` are the
inodes the two names have, `fd` the inode a worker has open, `disk` the content of
each inode. This is what makes the shared temporary name visible: `O_TRUNC`
empties whatever inode `name.tmp` is at that moment, a rename installs it even if
another worker is still writing it, and a reader may hold the inode that becomes
the target of a later write. A JSON text is a sequence of blocks; it parses only
when complete. Faults: failed create, write (any prefix written) and rename, a
killed process, and a power loss that cuts contents that were renamed but never
synced. `FairSpec` assumes that a started scan goes on and that scans are repeated.

### CacheSession

A tree of files, a date and a series of invocations. One `Hit` or `Miss` is one
call of `checkFileConcurrent`: the entry is looked up by content and configuration;
a miss parses, applies the generated-file rule, the checkers and
`FilterSuppressed`, and writes the entry. What the key does not contain (the path,
the date, the mode's generated-file rule) is exactly what differs between the
calls. `Edit` also covers copies and renames of files; `EntryLost` covers entries
that were not written and a deleted cache directory. `last` holds what the last
call returned and what an uncached call would have returned.

### Suppress

One file: a sequence of rows, each with the checkers that fire on it and perhaps a
comment, parsed by `Entry` (names, or all; the last date that is one). `Hidden` and
`FilterSuppressed` are what every scan does with its issues, `Stale` and
`Problematic` what the audit prints; both are translated from their own code, since
agreeing is what is in question. Around them is the use the audit is for: `Audit`
lists comments, the author removes listed ones (`RemoveLine` moves the rest of the
file up, `RemoveTrailing` does not), fixes code, and days pass, in any order.
`audited` keeps the file the listing was made from, so that properties can compare
what its comments would hide today with what is hidden. `HiddenThroughItsDate` pins the
date from both sides: on a new day nothing newly hides, and an issue comes back exactly
when the day that has passed was the last of every comment that hid it.

A row's `id` is the model's way to follow an issue whose line number changes. The
model has no `//line` directives, the only way to give two comments one line.

### DiffReader

`git diff HEAD` (external) writes a diff line by line and `parseDiff` reads it; a
line written and read is one step. git's side knows the section and the number of
the next line in the new file (`file`, `line`); the reader has what the Go code
has: `files`, `changed` (`changedLines`), `currentFile`, `newLine`, `inHunk`. One
action per case of the switch, in its order. A raw line is only what the switch
can tell about it, so the interesting freedom is in the text of an added line,
which git prefixes with one `+`: it may then look like a `+++` line or like the
header of a file, real or not. The forms of a section's `+++` line are those git
produces: plain, ended by a tab (a name with a space), quoted (a name that is not
ASCII; a configured prefix other than `b/` reads the same), `/dev/null`. `astray`
says how long the reader is misled: until the hunk ends or until the next file
header; `sure` are the lines added while it is not, and `exposed` the names for which
the reader may have wrong or missing lines: those of the section's file and of the file
a misleading text names. `HarmIsBounded` says that sure lines are recorded and that for
every other name exactly the added lines are. git names files from the top of the
repository and the reader joins the names with `-dir` (`Located`), which may be a directory below the
top (`below`). The empty string behind the last newline is
read as a context line when nothing follows, and left out.

### Prealloc, StructAlign and FixFile

`Prealloc` is the MemPrealloc checker and the capacity edits of `fixFile` on the body
of one function. A body is a sequence of statements in source order with their
depths, which is all that `ast.Inspect` and the position arithmetic of the code can
tell: `In` is "below a node", `Before` is "earlier in the same list". A statement
keeps what the checker looks at. A capacity (`Hint`) is `len(x)`, `x` or `x+1`, after
the kind of loop, of a name, a number, a call (`Call`: `exprStr` writes `f(...)`, which
is no Go) or a field without its operand (`Other`); a loop that yields no hint (`Odd`)
gives the default, 8. A `make` has a length as well. `listed` says whether a statement is in the
list of a `BlockStmt`, where the fixer looks for loops; a labelled loop is not.
Checker and fixer are translated separately: `LoopOf`, `SameFunction` and
`IsPreallocated` from `mem_prealloc.go`, `EnclosingLoop` and `SliceTarget` from
`fix.go`, since whether they mean the same loop and declaration is in question.
`Clean` is every outcome of an overlap filter whose sort is not stable.

`StructAlign` has a struct as lines of field types, so that two fields on a line and
comments of no field exist; an author may write `a bool; b int64` on one line, and the
formatter takes it apart (`Formatted`). `ApproxSize` is the checker's table, a type of
the model for every size and alignment in it (the selectors `sync.Once`, `sync.WaitGroup`,
`sync.Mutex` and `sync.RWMutex` included, and `pair` for a declaration of two names, of
which the checker counts one); `RealSize`, `Alignment` and `Layout` are the compiler's
(external), on 64 bits. The order of fields is that of the stable sort.

`FixFile` puts them together: an author writes a function and structs (external,
but only code that could compile: `Sensible`), `CheckFile` finds issues, an editor may
`Save` another version before `FixAll` reads the file again and applies the edits by
line and column; all of them, or none when the result does not parse. Runs are
repeated, so that what a fix does to its own output is seen. `Compiles` is what the
compiler says of capacities: an integer, declared where the statement stands, at most
one, and, when constant, not below the length. That a capacity which is no constant is
below the length, which stops the program at run time, is not part of it. A name has
one type wherever it is declared, and arrays, whose length is a constant, count as
names that may be of any type.

### CommandLine, Selection, GoVersions, Report and Main

The first four are pure operators. `CommandLine` has arguments as words and options
(an option that is no flag, and a word that begins with a dash, has one text, "-flag":
which one matters to nothing here); `Normalized` is `normalizeSpacedBoolFlags`, `Parsed` is the `flag` package
(external) with the settings of the configuration as defaults, and `Intended` says,
without either, what the author of a command line means. `flag.Set` of a text that is
no boolean reports an error and leaves `false` (`SetTo`), so `skip-vendor = yes` in the
configuration switches off a flag that is on by default, with a warning;
`FlagsMeanWhatTheySay` names that exception (`SwitchedOff`) and allows no other, and no
document says that an invalid setting leaves the default. `Selection` has the checkers
and groups with the exclusion rules, `GoVersions` the search for `go.mod` and the
notes on issues, `Report` the filters, `DedupeIssues` and every outcome of the unstable
sort. `Key` is the concatenation of the code, on sequences of code points: path, line
and column as one character each (with the loss of `string(rune(n))`), checker and
message, with colons between. It tells apart what it should because no path begins with
another path and a colon (`SpellingAssumption`) and no checker's name has a colon
(`TextsAssumption`); a message may.

`Lists` has the loops that copy some elements of a slice (the filters, `DedupeIssues`,
the merging of arguments), written without recursion: `At(s, S)` is the elements at the
positions `S`, and `Nth(S, n)` the position that comes n-th. A RECURSIVE operator
would put what is said of these loops out of the provers' reach.

`Main` is one run: an action for each stage of `main()`, in its order, with every exit
status; a configuration that does not parse (`Malformed`) ends it with 2. `Scan` replaces the pipeline of `ScanPipeline` by what it guarantees: one batch
for each path, in any order. `CollectStaged`, `CollectDiff` and `Walk` may fail or give
any set of files, `CollectDiff` with changed lines of their own for each. The map iteration in `applyFixes` takes the files in any order;
`LeaveFile` is every way in which a file is not touched, `StartWrite` and `FinishWrite`
are `os.WriteFile`, which truncates the file before it writes, and `Kill` may come
between any two steps of the fixing. A file on disk is `old`, `cut` or `new`; what
`new` contains is `FixFile`.

## 4. The runs

| Run | Shows | Bounds, and why they are enough |
|---|---|---|
| `scan_pipeline` | type, no lost or doubled batch, overtaking bounded by the flag and by the limit on workers, no send after close, exact counter, clean line, no goroutine left, count never goes back, termination, refinement of `ScanPromise` | 2 workers (a flag of 5 clamped by `MaxWorkers` = 2; flags below 1 are covered by the theorem) and lists of up to 3 files: more files than workers, so a worker comes back for another file while the other still sends; every mix of outcomes; threshold 2, so both kinds of scan occur on a terminal. The proofs remove the bounds for the safety properties |
| `cache_store` | the answer is the file's own whatever is torn or lost; a settled entry is usable; bad entries are replaced; once scans no longer overlap the entry is good for ever | 2 workers, 4 inodes (two names and two descriptors need no more), a text of 2 blocks (so that it can be torn), 2 faults |
| `cache_session` | a plain file gets the issues of an uncached run; a stale answer is stale in three ways only | 2 files with texts of their own, shared ones, one generated, one with an expiring suppression; 2 configurations, 2 modes, 2 days; unbounded number of runs |
| `session_expired` | violation: an expired suppression stays hidden | 2 files, 2 texts |
| `session_diff` | violation: `-git-diff` drops issues cached under a relative path | 2 files with a text of their own |
| `suppress` | the audit lists exactly the comments that hide nothing; working off the list, at once or days later, brings no issue back, hides one only by joining a comment to a line that was out of its reach, and leaves a clean audit; suppressions last through their date and not longer | files of up to 3 lines: a comment, a line of its own to remove and the code below; 4 comments: for all, for one with a date, misspelt, for two with several dates, one of them bad; 2 days, so a date is today's and yesterday's. The proofs remove the bounds |
| `diff_reader` | types (line numbers start at 1), no write to a nil set, the counter is git's unless misled, misleading lines harm only the files they are in or name, an ordinary diff is read exactly | 2 files, `-dir` at the top of the repository and below, every form of section, texts that look like `+++` and like the header of a file; 13 lines: a misleading section of five lines and two plain hunks after it; hunks start at up to line 3 |
| `diff_texts` | violation: an added line that begins with `++` is lost | the same, 10 lines |
| `fix_file` | types; the second run of `-fix` changes nothing of the function; a fix brings no finding of MemPrealloc about, even on a file saved meanwhile; a finding on a name declared once goes exactly when its declaration is rewritten; plain code still compiles; plain structs keep their fields, are no longer reported and, with types that pack, do not grow | one slice, one map, a slice and an int as parameters; 13 statements, among them a make longer than the default hint, a loop up to a number, to an int parameter, to a call, and an unlisted one (loops over `Other`, over an integer or over the slice itself are left to the proofs); `MaxStatements` = 5: declaration, outer loop, function literal or loop, append, and one more to come between; `MaxFields` = 5 structs, fields and comments: a struct of four fields, or two of one name of which one begins with three; `MixedBody` = 3 statements next to a struct, enough for one edit that fails to format; `MaxRuns` = 2; `Fits`: no statement after the last one that is reported at full length; types of 1, 8 and 12 bytes, and one whose size is not known |
| `fix_rewrites` | violation: a hint that is no Go blocks the file | the same |
| `fix_grows` | violation: a struct of known sizes grows | the same, without statements |
| `main` | types; flags mean what they say; the report is exact whatever the order of batches; only `-fix` writes; fixes of different files are independent | all command lines of up to 2 of 32 arguments, and of 3 when the first is a flag without value and the second a word, so that each flag meets each value and a third argument of 6; 6 configurations, one of them with texts that are no booleans for a flag that is off and one that is on by default; 2 files, the path of one a beginning of the other's, one in an excluded directory; line 1 of any file changed or not; batches with a duplicate, with lines beyond 55296, with fixable issues; `Narrow` = 2: with 3 arguments the scan finds nothing |

The runs of `DiffReader`, `FixFile` and `Main` turn the deadlock check off: a diff and
a series of fixes end with their bounds, and a run of the program with its exit
status. The others keep it: a finished scan stutters (`Returned`), the caches never
stop.

Two weaker liveness properties are stated on purpose. A single good entry does not
stay: `<>[]Usable(entry)` fails, because two workers that overlap in every scan can
each rename the file the other has just truncated. `CacheHeals` says it becomes
good again and again, and `QuietScansSettle` that it stays good once scans no
longer overlap.

### What the violations mean

* `session_expired`, `session_diff`: the cache key leaves out the date and the
  spelling of the path. `StaleOnlyInThreeWays` shows that there is one way more, the
  mode's generated-file rule (a generated file that a directory scan skipped is not
  checked by a later `-file` run either), and no other in the model; it includes two
  files of the same text, the second of which is reported under the first one's path.
* `diff_texts`: the case for `+++` lines comes before the one for added lines, so
  an added `++...` is dropped and the rest of its hunk is numbered too low; such
  an issue is then missing from `-git-diff`, or reported for an unchanged line.
  `HarmIsBounded` bounds the damage to the file it is in and the one its text names.
* `fix_rewrites`: edits of a file are applied together before the result is formatted,
  so the hint `f(...)` of one loop keeps every other declaration of the file as it was.
* `fix_grows`: `bool`, `sync.Once`, `int64` take 24 bytes, and sorted by size 32, because
  the 12 bytes of a `sync.Once` leave a gap in front of an `int64`. Without such a type
  (`Packs`) no struct grows.

The audit's own claim, "safe to remove the comment" (`audit.go:122`), is not a
violation run of its own, because `HidesOnlyByJoining` says how far it holds: of two
comments on lines of their own above the code, removing the lower one makes the
upper one cover the code, and an issue reported until then is hidden.

Other places where text and code differ, seen while modelling and shown by no run:

* `cache.go:85`: "atomically" (`cache.go:72`) does not hold among workers that write the
  same entry: `name.tmp` is shared, and one may rename what another has just
  truncated. A reader takes a cut entry for a miss, so no answer is wrong.
* `diff.go:50`: names that are relative to the top of the repository are joined with `-dir`;
  below the top, nothing that was changed is looked at (`below` in `DiffReader`; a diff read
  there is not `pure`, and all its files are `exposed`).
* `checker.go:96`: `string(rune(line))` writes all lines from 55296 to 57343 alike, and of two
  issues on such lines with one message the second is dropped, though only identical ones
  should be (`checker.go:91`). `ReportIsExact` says what holds of the others; it also
  leaves the order of issues of one line free, as `sort.Slice` does, and no document
  promises one.
* `mem_prealloc.go:301`: the hint for a map is the length of what a later loop of the list
  ranges over, and that may be an integer (`for i := range n`): `make(map[K]V, len(n))`
  does not compile, where `CHANGELOG.md:517-518` has "always safe, purely additive".
* `fix.go:361`: whole lines are moved. Fields that share a line are written once for each of
  them (the result does not compile), and a comment between fields that belongs to none
  is dropped, where `CHANGELOG.md:151-153` has the fields and comments kept.
  `PlainStructsImprove` says what holds with a field to a line.
* `main.go:193`: a `group` in the configuration makes `-checker` an error (exit 1),
  though flags override the configuration (`docs/usage.md:462`).
* `main.go:305-325`: directory patterns of `-exclude` have no effect on `-git-staged`,
  to which exclusion applies (`docs/usage.md:73`).
* Errors of git, of the walk and of unknown names exit with 1, the status of a run
  that found issues, where `docs/usage.md:109` has 2 for a tool error.
* `goversion.go:80`: a `go.mod` without a go directive does not end the search, as the
  comment at `goversion.go:70` has it; and an invalid `-go-version`, which is said to be
  ignored, hides `go.mod` too (`main.go:204-211`).

What the properties of the fixer leave open is on purpose as well. A finding on a name
that is declared twice in a function may go for the sake of the other declaration
(`GoneIffGivenCapacity` asks for one declaration, not of a map, which no append is
for), and a function that is not `Plain` may not compile after a fix: two appends in one
loop give `make` two capacities (which `NothingLeftToFix` takes for one), a capacity may
name what is declared later, the slice itself or an integer, and `make([]T, 10)` in
front of a loop that gives the default becomes `make([]T, 10, 8)`. `OnlyRemovesIssues` is
about the findings of MemPrealloc. Another checker may find something new: a `var line
[]byte` in an outer loop becomes `make([]byte, 0, n)`, an allocation in a loop that
ObjectPool reports (`object_pool.go:60-92`).

## 5. The proofs

`ScanPipelineProofs` proves every safety property of `scan_pipeline` for every
list length, worker flag, limit and threshold, from `PipelineAssumption` (types
of the constants) alone.

None of them is inductive. `IInv` adds

* `StartInv`: nothing happens before the goroutines are started;
* `ClosingInv`: `wg` is the number of live workers, and the order of the closes:
  `jobs` after the last send, a worker's end after `jobs`, `results` after all
  workers, main's exit after `results`;
* `HoldInv`: a file is held by at most one worker;
* `ReportInv`, `NoLossInv`: a sent file with issues is either reported or held by
  a worker that will report it, never both;
* `CountInv`: the counter plus the files held is the number of files sent;
* `ShowInv`: the printed value is at most the loaded one, which is at most the
  counter.

`CountMove` and `CountZero` give the arithmetic of moving one worker between
program points; each `*Step` lemma proves one part of `IInv` preserved, action by
action. `OrderBounded` needs a counting argument of its own: the files a batch
overtakes are held by distinct other workers (`HoldersBound`), of which there are fewer
than the limit allows and than the flag asks for, or none (`FewOvertaken`). `ImplementsPromise`
proves the refinement of `ScanPromise!Safety`; `SettleOne` is its core: exactly
one file leaves `Unsettled` when a worker settles one.

`CacheStoreProofs` proves the safety of `cache_store` for any number of workers,
inodes and faults, from `StoreAssumption`; `ReturnsOwnIssues` and
`SettledEntryUsable` also from `OnePath`, a content that belongs to one path: two
paths of one content share an entry and may return each other's issues. A reader
accepts whole texts only, so `ReturnsOwnIssues` needs just `ResultInv`, that a result
is the issues of some path. `SettledEntryUsable` is about the shared temporary name
while nothing fails: `WholeInv` says that every inode holds nothing or a whole text
(every writer overwrites with the same text, `OverwriteWhole`), that a named inode
which holds nothing has a writer, and that past the create there is always a name.
When no worker is writing, the entry is therefore whole.

`CacheSessionProofs` proves the safety of `cache_session` for any files, texts,
configurations, days and runs, from `SessionAssumption`. `CacheInv`: an entry is an
analysis (`AnalysisOf`) of the content and configuration it is stored under, made on
a day up to today, in some mode, of some file that may have the content. `LastInv`
keeps the same of the last answer, so `StaleOnlyInThreeWays` follows at once;
`CacheTransparent` needs `PlainAnalysis`, that for a plain content the day, the mode
and the spelling of the path do not matter.

`DiffReaderProofs` proves the five invariants of `diff_reader` for every number of
files, hunks and lines, from `DiffAssumption` (the texts and forms are among those
named). `ReadStep` is the reader alone: whatever line comes, its sets exist, and only
an added line records anything, for the current file at the counter's value. The
induction then needs git's side too: `TrackInv` says that unless a header was not
recognised the current file is the section's, `ExposedInv` that where a line may be
recorded that git does not mean, git's file and the reader's are both `exposed`, and `PureInv` that a
section with added lines is followed as long as nothing misled the reader.

`SuppressProofs` proves all of `suppress` for files of every length, any comments and
any number of days, from `SuppressAssumption`. `IInv` relates the file to the audited
one: every row left is a row of it with fewer issues at most and its comment unless
dead (`ThinnedInv`), what is listed is dead today, and as long as nothing but
removals happens what is dead is listed (`ListedInv`). Two facts carry the argument:
`HidingIsAlive` (a comment that hides an issue is not listed) and `Neighbours` (rows
that were neighbours in the audited file still are). `AuditIsExact` needs no
history: `AloneHides` and `AuditAgrees` hold of every file, and so does `LastDay`, which
`HiddenThroughItsDate` rests on.

`FixFileProofs` proves all of `fix_file` for bodies of every length, any structs and any
number of runs, from `PreallocAssumption`,
`TypesAssumption` and `FixFileAssumption` (the types of the constants).

* `Refines` says what an edit keeps: positions, depths, names and loops, with more
  capacities than before. From it follow `SameNesting` and `SameLoops` (the checker
  attributes appends to the same loops), hence `FewerIssues`: no finding after an edit
  is new, which gives `NoNewIssue` whatever file the issues came from. `NoEditLeft` is
  the other half: an edit possible after a fix was possible before it and was not
  applied, so the overlap filter dropped it, for another edit of the same declaration,
  which has a capacity since. `IInv` only adds that the issues are those of the file
  until it is saved by someone else.
* `TypeCorrect` is about the structs: `FileInv` adds to the types that the struct issues
  of a run are those of the file, and the work is in `OrderType` (the order of an issue
  is a permutation of the fields, by `Ranking`) and `ReplacementType` (lines moved are
  lines of the struct).
* `CheckerIsRight`: with one declaration of a name, the loop that the checker takes an
  append for and the declaration that the fixer rewrites mean each other
  (`GoneIffEdited`), in both directions and whichever loop the capacity is for.
* `FixesCompile`: in a plain function an edit comes from one append of one loop
  (`EditOrigin`, `OneLoopAfter`), so no two edits of a declaration differ (`OneEdit`). The
  hint is the default, a number not below the length, or comes from a parameter, which
  is visible everywhere and of the type the form of the hint needs (`PlainHint`).
* `StructsImprove` needs `FileInv` only, that the struct issues are those of the file
  when it is fixed: an editor changes the function, not the structs (`Save`). With a field
  to a line, moving lines is permuting fields (`FieldOfLine`, `ReorderedFields`) and
  every struct that is reported is found by its name (`ImprovedStructs`). The fields stay
  as they are in kind and number (`SameFieldBag`); in order no field is before a larger
  one, so none is reported (`ImprovedIsAligned`). For the size, `Weight` is what the
  fields take without gaps, which is the same in every order: no order takes less
  (`LayoutAtLeast`), and from the largest to the smallest there are no gaps, because
  each field ends where the alignment of the next one allows it to begin - which is what
  `Packs` asks of the types (`NoGap`,
  `LayoutDense`). The rounding at the end is the same for both (`ImprovedLayout`).

`MainProofs` proves all of `main` for any number of files, configurations, batches and
command lines of every length, from `InputsAssumption` (the types of what a run is
given), `SpellingAssumption` and `TextsAssumption` (how paths and checkers are spelled),
`NoneAssumption` and `LiteralsAssumption` (that a literal is a string, which the
provers do not know).

* `FixingInv` says where a half-written file may be: nowhere before the fixing, among
  the failed ones between two writes, and one more during a write (`FixesIndependent`).
* `FlagsCorrect` relates two readings of one command line. `MeansSo` is the invariant of
  the loop of `flag.Parse` over the merged arguments: it has ended at an argument that
  no flag can begin at (`Ended`), is between two options (`Between`) or waits for the
  value of one (`Waiting`), and has what the author means by the arguments below
  (`IntendedBelow`). `TakeMeans` is one turn of the loop, `ParseMeans` the induction,
  and `NormalizedReading` lets it run over the arguments as they were written, skipping
  the values that were merged. `SettingsInv` keeps the result for the rest of the run.
* `ReportCorrect`: `RawInv` says that the list of all issues is the batches one behind
  the other - `Offsets` says where each begins - in whatever order they arrived.
  `ReportElements` then follows one issue through the filters, `DedupeIssues` and the
  notes, and `KeysAreExact` says that below line and column 55296 the keys of
  `DedupeIssues` differ for issues that differ: `RuneOf` is injective there, and of two equal
  texts that are joined by a colon the parts are equal when neither first part begins
  with the other and a colon (`ColonsParts`).
* `OnlyFixIsAllowedToWrite`: `WriteInv` traces a file that is to be written back to an
  issue of its batch that passed the filters (`Due`).

`ListLemmas` holds what these proofs need to know of recursive functions, of the folds
behind `FlattenSeq`, and of `Lists`. The provers have no induction, so it is done by the
least element: the positions at which a statement fails are a set of numbers, its least
element is not 0 and its predecessor is no counterexample (`LeastNumber`, `AllNumbers`,
`AllPositions`). The statement is given as the set of numbers for which it holds.
`LoopStates` gives the values of a recursive function step by step, `FlattenSteps`,
`FlattenElements` and `JoinedPieces` say where the elements of a flattened list come
from, `AtCopies` and `AtKeeps` that `At` copies in order, `Ranking` that numbering
things by how many come before is a permutation, and the `Occurrences*` lemmas that
permuting, joining and flattening lists keeps how often each element occurs.

All of these rest on the named assumptions of the modules only, and on `OnePath` where it
is said.

Left to TLC: `ScanReturns`, the liveness half of `KeepsPromise`, `CacheHeals` and
`QuietScansSettle`, which need fairness. Every other property of a passing run is a
theorem.

## 6. Not modelled

* The other seventeen checkers: stateless pattern matches on the syntax tree; a model
  would repeat them. Their findings appear in `Main` as batches.
* The Markdown, SARIF and terminal writers and the metadata: formatting.
* In `Main`: the flags `-dir`, `-skip-tests`, `-skip-generated`, `-no-color`, `-cache` and
  `-workers` (the cache and the workers have models of their own), `-help`, the text of
  `.goperfcheck` beyond "a line without =", and kills outside the fixing, where nothing
  of the user's is written but the report.
* Capacities below a length at run time, when neither is a constant.
* In `FixFile`: several functions in one file, which neither checker nor fixer mixes
  except by name of a struct; declarations of two names; appends outside statements of
  their own.
* Hash collisions (128 bits of SHA-256 for the content, 32 bits for the configuration).
* `benchmarks/` holds Go benchmarks only.

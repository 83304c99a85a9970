----------------------------- MODULE DiffReader ----------------------------
(***************************************************************************)
(* parseDiff and parseNewStart (cmd/goperfcheck/diff.go) reading what git  *)
(* writes, line by line. git (external) writes a section per file: "diff   *)
(* --git" and other header lines, "--- a/f", "+++ b/f", then hunks; the    *)
(* reader classifies each line by its first characters and keeps a current *)
(* file, a line counter and a flag.                                        *)
(*                                                                         *)
(* A written line and the reading of it are one step. A raw line is a      *)
(* record: what parseDiff's switch can tell about it (class), the file     *)
(* named after "+++ b/", and the start of the new range after "@@". The    *)
(* text of an added line matters where, behind its "+", it looks like a    *)
(* header: PlusPlus is a text that begins with "++", and a file f as a     *)
(* text is one that begins with "++ b/f".                                  *)
(*                                                                         *)
(* The "+++" line of a section has one of these forms; a section without   *)
(* one (a rename, a mode, a binary file) ends after its other lines. git   *)
(* names files from the top of the repository, wherever it is run.         *)
(*   "plain"    "+++ b/f"                                                  *)
(*   "spaced"   the name has a space: git ends "+++ b/f" with a tab        *)
(*   "quoted"   the name is not ASCII: git writes +++ "b/..."              *)
(*   "deleted"  "+++ /dev/null"                                            *)
(***************************************************************************)
EXTENDS Integers, Sequences, SequencesExt

CONSTANTS
  Files,      \* the files that differ from HEAD
  Forms,      \* the forms of "+++" lines, among those above
  Texts,      \* the texts of added lines, among Plain, PlusPlus and the files
  Plain, PlusPlus,
  None,       \* no file
  Places,     \* where -dir may be: TRUE for below the top of the repository
  MaxStart,   \* bound: where a hunk may start
  MaxLines    \* bound: the lines git writes

ASSUME DiffAssumption ==
  /\ Forms \subseteq {"plain", "spaced", "quoted", "deleted"}
  /\ Texts \subseteq {Plain, PlusPlus} \cup Files
  /\ Plain \notin Files \cup {PlusPlus}
  /\ PlusPlus \notin Files
  /\ None \notin Files
  /\ Places \subseteq BOOLEAN
  /\ MaxStart \in Nat /\ MaxLines \in Nat

VARIABLES
  below,        \* -dir is a directory below the top of the repository
  files,        \* diffResult.files
  changed,      \* diffResult.changedLines, file by file
  currentFile, newLine, inHunk,
  todo,         \* git: the files not written yet
  at,           \* git: where it is in the section
  file, form,   \* git: the file of the section, and its form
  line,         \* git: the number, in the new file, of the next line
  written,      \* git: how many lines it has written
  added,        \* the lines added, as <<file, line>>
  astray,       \* until when the reader is misled: "no", "hunk" or "file"
  sure,         \* the lines added while it was not
  last,         \* the name behind the last "+++ b/", as the reader joins it
  exposed,      \* the names for which the reader may have wrong lines
  pure          \* nothing misleading has been written so far

readerVars == <<files, changed, currentFile, newLine, inHunk>>
gitVars ==
  <<below, todo, at, file, form, line, written, added, astray, sure, last,
    exposed, pure>>
vars == <<readerVars, gitVars>>

\* A name ended by a tab is another name.
Tabbed(f) == <<f, "tab">>

\* filepath.Join(root, rel), where root is -dir: below the top of the repository,
\* the path of another file, or of none.
Located(name) == IF below THEN <<"below", name>> ELSE name

Names == Files \cup {Tabbed(f) : f \in Files}
Named == Names \cup {<<"below", name>> : name \in Names}

Raw(class) == [class |-> class, file |-> None, start |-> 0]
Header(f) == [Raw("header") EXCEPT !.file = f]
Hunk(n) == [Raw("hunk") EXCEPT !.start = n]

\* git puts "+" before the text of an added line.
RawAdded(text) ==
  CASE text = Plain -> Raw("plus")
    [] text = PlusPlus -> Raw("triple")
    [] OTHER -> Header(Located(text))

\* The "+++" line of a section.
RawNew ==
  CASE form = "plain" -> Header(Located(file))
    [] form = "spaced" -> Header(Located(Tabbed(file)))
    [] OTHER -> Raw("triple")

Init ==
  /\ below \in Places
  /\ files = <<>>
  /\ changed = <<>>
  /\ currentFile = None
  /\ newLine = 0
  /\ inHunk = FALSE
  /\ todo = Files
  /\ at = "start"
  /\ file = None
  /\ form = "plain"
  /\ line = 0
  /\ written = 0
  /\ added = {}
  /\ astray = "file"
  /\ sure = {}
  /\ last = None
  /\ exposed = {}
  /\ pure = ~below

-----------------------------------------------------------------------------
(* parseDiff: one action per case of the switch, in its order *)

\* Mutant of ReadHeader: a file met again starts with an empty set.
ReadHeaderAgain(raw) ==
  /\ raw.class = "header"
  /\ currentFile' = raw.file
  /\ inHunk' = FALSE
  /\ files' = Append(files, raw.file)
  /\ changed' = [f \in DOMAIN changed \cup {raw.file} |->
                   IF f = raw.file THEN {} ELSE changed[f]]
  /\ UNCHANGED newLine

\* Mutant of ReadHeader: the set of the file's lines is not made.
ReadHeaderNoSet(raw) ==
  /\ raw.class = "header"
  /\ currentFile' = raw.file
  /\ inHunk' = FALSE
  /\ files' = IF raw.file \in ToSet(files) THEN files ELSE Append(files, raw.file)
  /\ UNCHANGED <<changed, newLine>>

ReadHeader(raw) ==
  /\ raw.class = "header"
  /\ currentFile' = raw.file
  /\ inHunk' = FALSE
  /\ IF raw.file \in ToSet(files)
     THEN UNCHANGED <<files, changed>>
     ELSE /\ files' = Append(files, raw.file)
          /\ changed' = [f \in DOMAIN changed \cup {raw.file} |->
                           IF f = raw.file THEN {} ELSE changed[f]]
  /\ UNCHANGED newLine

\* Mutant of NewStart: the lower limit is left out.
NewStartAsIs(n) == n

\* parseNewStart: an empty new range is written "+0,0".
NewStart(n) == IF n < 1 THEN 1 ELSE n

ReadHunk(raw) ==
  /\ raw.class = "hunk"
  /\ newLine' = NewStart(raw.start)
  /\ inHunk' = TRUE
  /\ UNCHANGED <<files, changed, currentFile>>

InText(raw) ==
  raw.class \notin {"header", "hunk"} /\ inHunk /\ currentFile # None

ReadOutside(raw) ==
  /\ raw.class \notin {"header", "hunk"}
  /\ ~inHunk \/ currentFile = None
  /\ UNCHANGED readerVars

ReadAdded(raw) ==
  /\ InText(raw)
  /\ raw.class = "plus"
  /\ changed' = [changed EXCEPT ![currentFile] = @ \cup {newLine}]
  /\ newLine' = newLine + 1
  /\ UNCHANGED <<files, currentFile, inHunk>>

\* Mutant of ReadSkipped: a "\ No newline" line is counted.
ReadSkippedCounting(raw) ==
  /\ InText(raw)
  /\ raw.class \in {"triple", "minus", "backslash"}
  /\ newLine' = IF raw.class = "backslash" THEN newLine + 1 ELSE newLine
  /\ UNCHANGED <<files, changed, currentFile, inHunk>>

\* Mutant of ReadSkipped: only "+++" and "\ No newline" lines are skipped.
ReadSkippedNotDeleted(raw) ==
  /\ InText(raw)
  /\ raw.class \in {"triple", "minus", "backslash"}
  /\ newLine' = IF raw.class = "minus" THEN newLine + 1 ELSE newLine
  /\ UNCHANGED <<files, changed, currentFile, inHunk>>

\* "+++", deleted lines and "\ No newline at end of file".
ReadSkipped(raw) ==
  /\ InText(raw)
  /\ raw.class \in {"triple", "minus", "backslash"}
  /\ UNCHANGED readerVars

\* Context, and the header lines of the next section.
ReadOther(raw) ==
  /\ InText(raw)
  /\ raw.class = "other"
  /\ newLine' = newLine + 1
  /\ UNCHANGED <<files, changed, currentFile, inHunk>>

Read(raw) ==
  \/ ReadHeader(raw) \/ ReadHunk(raw) \/ ReadOutside(raw)
  \/ ReadAdded(raw) \/ ReadSkipped(raw) \/ ReadOther(raw)

-----------------------------------------------------------------------------
(* git diff HEAD *)

Write(raw) ==
  /\ written < MaxLines /\ written' = written + 1
  /\ Read(raw)
  /\ UNCHANGED below

\* "diff --git"
WriteSection ==
  /\ at \in {"start", "preamble", "text"}
  /\ \E f \in todo : file' = f /\ todo' = todo \ {f}
  /\ form' \in Forms
  /\ at' = "preamble"
  /\ line' = 0
  /\ astray' = "file"
  /\ Write(Raw("other"))
  /\ UNCHANGED <<added, sure, last, exposed, pure>>

\* "index ...", a mode, a rename, or "Binary files ... differ"
WritePreamble ==
  /\ at = "preamble"
  /\ Write(Raw("other"))
  /\ UNCHANGED <<todo, at, file, form, line, added, astray, sure, last, exposed, pure>>

\* "--- a/f"
WriteOld ==
  /\ at = "preamble"
  /\ at' = "old"
  /\ Write(Raw("minus"))
  /\ UNCHANGED <<todo, file, form, line, added, astray, sure, last, exposed, pure>>

WriteNew ==
  /\ at = "old"
  /\ at' = "named"
  /\ Write(RawNew)
  /\ astray' = IF form = "plain" /\ ~below THEN "no" ELSE "file"
  /\ last' = CASE form = "plain" -> Located(file)
               [] form = "spaced" -> Located(Tabbed(file))
               [] OTHER -> last
  /\ exposed' = IF astray' = "no" \/ form = "deleted" THEN exposed
                ELSE exposed \cup {file, last'}
  /\ pure' = (pure /\ form \in {"plain", "deleted"})
  /\ UNCHANGED <<todo, file, form, line, added, sure>>

\* A new range is empty ("+0,0") only if the file is deleted or emptied.
WriteHunk ==
  /\ at \in {"named", "text"}
  /\ \E n \in IF at = "named" THEN 0..MaxStart ELSE line + 1..MaxStart :
       /\ form = "deleted" => n = 0
       /\ at = "text" => line > 0
       /\ line' = n
       /\ Write(Hunk(n))
  /\ at' = "hunk"
  /\ astray' = IF astray = "hunk" THEN "no" ELSE astray
  /\ UNCHANGED <<todo, file, form, added, sure, last, exposed, pure>>

WriteAdded(text) ==
  /\ at \in {"hunk", "text"}
  /\ line > 0
  /\ at' = "text"
  /\ line' = line + 1
  /\ Write(RawAdded(text))
  /\ added' = added \cup {<<file, line>>}
  /\ sure' = IF astray = "no" /\ text = Plain
             THEN sure \cup {<<file, line>>} ELSE sure
  /\ astray' = CASE text = Plain -> astray
                 [] text = PlusPlus /\ astray = "no" -> "hunk"
                 [] text = PlusPlus /\ astray # "no" -> astray
                 [] OTHER -> "file"
  /\ last' = IF text \in Files THEN Located(text) ELSE last
  /\ exposed' = exposed \cup CASE text = Plain -> {}
                               [] text = PlusPlus -> {file}
                               [] OTHER -> {file, last'}
  /\ pure' = (pure /\ text = Plain)
  /\ UNCHANGED <<todo, file, form>>

WriteContext ==
  /\ at \in {"hunk", "text"}
  /\ line > 0
  /\ at' = "text"
  /\ line' = line + 1
  /\ Write(Raw("other"))
  /\ UNCHANGED <<todo, file, form, added, astray, sure, last, exposed, pure>>

\* A deleted line, whatever its text, begins with "-".
WriteDeleted ==
  /\ at \in {"hunk", "text"}
  /\ at' = "text"
  /\ Write(Raw("minus"))
  /\ UNCHANGED <<todo, file, form, line, added, astray, sure, last, exposed, pure>>

\* "\ No newline at end of file", after the last line of either side
WriteNoNewline ==
  /\ at = "text"
  /\ Write(Raw("backslash"))
  /\ UNCHANGED <<todo, at, file, form, line, added, astray, sure, last, exposed, pure>>

Next ==
  \/ WriteSection \/ WritePreamble \/ WriteOld \/ WriteNew \/ WriteHunk
  \/ \E text \in Texts : WriteAdded(text)
  \/ WriteContext \/ WriteDeleted \/ WriteNoNewline

Spec == Init /\ [][Next]_vars

-----------------------------------------------------------------------------
(* Properties *)

TypeOK ==
  /\ below \in BOOLEAN
  /\ files \in Seq(Named)
  /\ DOMAIN changed \subseteq Named
  /\ \A f \in DOMAIN changed : changed[f] \subseteq Nat \ {0}
  /\ currentFile \in Named \cup {None}
  /\ newLine \in Nat /\ (inHunk => newLine > 0)
  /\ inHunk \in BOOLEAN
  /\ todo \subseteq Files
  /\ at \in {"start", "preamble", "old", "named", "hunk", "text"}
  /\ file \in Files \cup {None}
  /\ form \in {"plain", "spaced", "quoted", "deleted"}
  /\ at # "start" => file \in Files
  /\ line \in Nat
  /\ written \in 0..MaxLines
  /\ added \subseteq Files \X Nat
  /\ astray \in {"no", "hunk", "file"}
  /\ sure \subseteq added
  /\ last \in Named \cup {None}
  /\ exposed \subseteq Files \cup Named \cup {None}
  /\ pure \in BOOLEAN

\* What the reader has recorded so far.
Recorded == UNION {{f} \X changed[f] : f \in DOMAIN changed}

\* Recording a line never meets a nil set (the program would panic), whatever
\* headers the text pretends to, and every file is listed once.
EveryFileHasItsSet ==
  /\ currentFile # None => currentFile \in DOMAIN changed
  /\ ToSet(files) = DOMAIN changed
  /\ \A i, j \in DOMAIN files : files[i] = files[j] => i = j

\* The reader's counter is the line number git means, unless an added line of
\* this hunk looked like a "+++" line, or the file's header was not recognised.
CounterTracksFile ==
  astray = "no" /\ at \in {"hunk", "text"} =>
    inHunk /\ currentFile = file /\ newLine = NewStart(line)

\* What a misread line can do is bounded on both sides. The added lines of
\* every hunk in which nothing has misled the reader so far are recorded, and
\* stay recorded. And lines can be wrong or missing only for the file of the
\* misleading line, the file its text names, and, where a name is quoted or
\* ended by a tab or not joined with the top of the repository, for that file
\* and the name the reader takes it for: for every other file exactly the added
\* lines are recorded.
HarmIsBounded ==
  /\ sure \subseteq Recorded
  /\ {r \in Recorded : r[1] \notin exposed} = {a \in added : a[1] \notin exposed}

\* A diff in which nothing misleads the reader is read exactly.
PureDiffExact == pure => Recorded = added

\* "parseDiff ... returns which lines were added (+) in each file. Deleted and
\* context lines are excluded." (diff.go)
ReturnsAddedLines == Recorded = added

=============================================================================

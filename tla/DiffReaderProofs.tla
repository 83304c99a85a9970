-------------------------- MODULE DiffReaderProofs -------------------------
(***************************************************************************)
(* The invariants of DiffReader for every number of files, every length of *)
(* diff and every text of its lines. The reader's own invariant (its sets  *)
(* exist) does not depend on what git writes; the others relate the        *)
(* reader's counter to git's, for which IInv says where the current file   *)
(* is the section's.                                                       *)
(***************************************************************************)
EXTENDS DiffReader, TLAPS

Classes == {"header", "hunk", "plus", "triple", "minus", "backslash", "other"}

\* What a raw line can be.
IsRaw(raw) ==
  /\ raw.class \in Classes
  /\ raw.class = "header" => raw.file \in Named
  /\ raw.class = "hunk" => raw.start \in Nat

\* The reader's part, true whatever it reads.
ReaderInv ==
  /\ files \in Seq(Named)
  /\ changed = [f \in DOMAIN changed |-> changed[f]]
  /\ DOMAIN changed \subseteq Named
  /\ \A f \in DOMAIN changed : changed[f] \subseteq Nat \ {0}
  /\ currentFile \in Named \cup {None}
  /\ newLine \in Nat /\ (inHunk => newLine > 0)
  /\ inHunk \in BOOLEAN
  /\ EveryFileHasItsSet

\* git's part.
GitInv ==
  /\ below \in BOOLEAN
  /\ todo \subseteq Files
  /\ at \in {"start", "preamble", "old", "named", "hunk", "text"}
  /\ file \in Files \cup {None}
  /\ form \in {"plain", "spaced", "quoted", "deleted"}
  /\ at # "start" => file \in Files
  /\ line \in Nat /\ (at \in {"start", "preamble", "old", "named"} => line = 0)
  /\ written \in 0..MaxLines
  /\ added \subseteq Files \X Nat
  /\ astray \in {"no", "hunk", "file"}
  /\ sure \subseteq added
  /\ last \in Named \cup {None}
  /\ exposed \subseteq Files \cup Named \cup {None}
  /\ pure \in BOOLEAN

\* Unless a header misled it, the reader is in git's section and at its line.
TrackInv ==
  /\ astray # "file" => currentFile = file /\ at \in {"named", "hunk", "text"}
  /\ astray = "hunk" => at = "text"
  /\ CounterTracksFile

\* Where a line may be recorded that git does not mean, both files are exposed.
ExposedInv ==
  /\ currentFile = last
  /\ astray # "no" /\ at \in {"named", "hunk", "text"} =>
       \/ file \in exposed /\ currentFile \in exposed
       \/ form = "deleted" /\ line = 0

\* Without misleading lines, a section with added lines is a tracked one.
PureInv ==
  /\ pure => ~below
  /\ pure /\ at \in {"named", "hunk", "text"} =>
       \/ form = "plain" /\ astray = "no"
       \/ form = "deleted" /\ line = 0
  /\ PureDiffExact

IInv ==
  /\ ReaderInv /\ GitInv /\ TrackInv /\ ExposedInv /\ PureInv
  /\ HarmIsBounded

-----------------------------------------------------------------------------
(* The raw lines git writes *)

LEMMA RawIs ==
  /\ \A class \in Classes \ {"header", "hunk"} :
       IsRaw(Raw(class)) /\ Raw(class).class = class
  /\ \A f \in Named : IsRaw(Header(f)) /\ Header(f).class = "header"
                                       /\ Header(f).file = f
  /\ \A n \in Nat : IsRaw(Hunk(n)) /\ Hunk(n).class = "hunk"
                                   /\ Hunk(n).start = n
BY DEF Raw, Header, Hunk, IsRaw, Classes

LEMMA RawAddedIs ==
  ASSUME NEW text \in Texts
  PROVE  /\ IsRaw(RawAdded(text))
         /\ text = Plain => RawAdded(text).class = "plus"
         /\ text = PlusPlus => RawAdded(text).class = "triple"
         /\ text \notin {Plain, PlusPlus} =>
              /\ text \in Files /\ RawAdded(text).class = "header"
              /\ RawAdded(text).file = Located(text)
<1>1. CASE text = Plain
  BY <1>1, RawIs, DiffAssumption DEF RawAdded, Classes
<1>2. CASE text = PlusPlus
  BY <1>2, RawIs, DiffAssumption DEF RawAdded, Classes
<1>3. CASE text \notin {Plain, PlusPlus}
  <2>1. text \in Files /\ Located(text) \in Named
    BY <1>3, DiffAssumption DEF Named, Names, Located
  <2>2. RawAdded(text) = Header(Located(text))
    BY <1>3 DEF RawAdded
  <2> QED
    BY <1>3, <2>1, <2>2, RawIs
<1> QED
  BY <1>1, <1>2, <1>3

LEMMA RawNewIs ==
  ASSUME file \in Files, form \in {"plain", "spaced", "quoted", "deleted"}
  PROVE  /\ IsRaw(RawNew)
         /\ form = "plain" => RawNew.class = "header" /\ RawNew.file = Located(file)
         /\ form = "spaced" => /\ RawNew.class = "header"
                               /\ RawNew.file = Located(Tabbed(file))
         /\ form \notin {"plain", "spaced"} => RawNew.class = "triple"
<1>1. Located(file) \in Named /\ Located(Tabbed(file)) \in Named
  BY DEF Named, Names, Located
<1>2. CASE form = "plain"
  BY <1>1, <1>2, RawIs DEF RawNew
<1>3. CASE form = "spaced"
  BY <1>1, <1>3, RawIs DEF RawNew
<1>4. CASE form \notin {"plain", "spaced"}
  BY <1>4, RawIs DEF RawNew, Classes
<1> QED
  BY <1>2, <1>3, <1>4

-----------------------------------------------------------------------------
(* What reading one line does *)

\* The set of a newly met file is empty: nothing is recorded by a header.
LEMMA ReadHeaderStep ==
  ASSUME ReaderInv, NEW raw, IsRaw(raw), ReadHeader(raw)
  PROVE  /\ ReaderInv'
         /\ Recorded' = Recorded
         /\ currentFile' = raw.file
<1>1. raw.file \in Named /\ None \notin Files
  BY DiffAssumption DEF ReadHeader, IsRaw
<1>2. CASE raw.file \in ToSet(files)
  <2>1. /\ UNCHANGED <<files, changed, newLine>>
        /\ currentFile' = raw.file /\ inHunk' = FALSE
    BY <1>2 DEF ReadHeader
  <2>2. ToSet(files)' = ToSet(files) /\ Recorded' = Recorded
    BY <2>1 DEF Recorded
  <2>3. currentFile' \in DOMAIN changed'
    BY <1>2, <2>1 DEF ReaderInv, EveryFileHasItsSet
  <2> QED
    BY <1>1, <2>1, <2>2, <2>3 DEF ReaderInv, EveryFileHasItsSet
<1>3. CASE raw.file \notin ToSet(files)
  <2>1. /\ files' = Append(files, raw.file)
        /\ changed' = [f \in DOMAIN changed \cup {raw.file} |->
                         IF f = raw.file THEN {} ELSE changed[f]]
        /\ currentFile' = raw.file /\ inHunk' = FALSE /\ newLine' = newLine
    BY <1>3 DEF ReadHeader
  <2>2. raw.file \notin DOMAIN changed
    BY <1>3 DEF ReaderInv, EveryFileHasItsSet
  <2>3. Recorded' = Recorded
    BY <2>1, <2>2 DEF Recorded
  <2>4. /\ ToSet(files') = ToSet(files) \cup {raw.file}
        /\ \A i, j \in DOMAIN files' : files'[i] = files'[j] => i = j
        /\ files' \in Seq(Named)
    <3>1. files \in Seq(Named) /\ \A i \in DOMAIN files : files[i] # raw.file
      BY <1>3 DEF ReaderInv, ToSet
    <3>2. /\ DOMAIN files' = 1..Len(files) + 1
          /\ DOMAIN files = 1..Len(files)
          /\ Len(files) \in Nat
          /\ files'[Len(files) + 1] = raw.file
          /\ \A i \in 1..Len(files) : files'[i] = files[i]
      BY <2>1, <3>1, <1>1
    <3>3. \A i, j \in DOMAIN files : files[i] = files[j] => i = j
      BY DEF ReaderInv, EveryFileHasItsSet
    <3>4. ToSet(files') = ToSet(files) \cup {raw.file}
      BY <3>2 DEF ToSet
    <3>5. files' \in Seq(Named)
      BY <3>1, <2>1, <1>1
    <3> QED
      BY <3>1, <3>2, <3>3, <3>4, <3>5
  <2> QED
    BY <1>1, <2>1, <2>3, <2>4 DEF ReaderInv, EveryFileHasItsSet
<1> QED
  BY <1>2, <1>3

\* Only an added line is recorded, for the current file at the counter's value.
LEMMA ReadStep ==
  ASSUME ReaderInv, NEW raw, IsRaw(raw), Read(raw)
  PROVE  /\ ReaderInv'
         /\ Recorded \subseteq Recorded'
         /\ raw.class # "plus" => Recorded' = Recorded
         /\ raw.class = "header" => currentFile' = raw.file
         /\ raw.class # "header" => currentFile' = currentFile
         /\ raw.class = "hunk" => inHunk' /\ newLine' = NewStart(raw.start)
         /\ raw.class \notin {"header", "hunk"} => inHunk' = inHunk
         /\ InText(raw) /\ raw.class = "plus" =>
              /\ Recorded' = Recorded \cup {<<currentFile, newLine>>}
              /\ newLine' = newLine + 1
         /\ InText(raw) /\ raw.class = "other" => newLine' = newLine + 1
         /\ ~InText(raw) => Recorded' = Recorded
         /\ raw.class \in {"triple", "minus", "backslash"} => newLine' = newLine
<1>1. CASE ReadHeader(raw)
  BY <1>1, ReadHeaderStep DEF ReadHeader, InText
<1>2. CASE ReadHunk(raw)
  BY <1>2 DEF ReadHunk, ReaderInv, EveryFileHasItsSet, Recorded, NewStart,
     IsRaw, InText
<1>3. CASE ReadOutside(raw) \/ ReadSkipped(raw)
  BY <1>3 DEF ReadOutside, ReadSkipped, readerVars, ReaderInv,
     EveryFileHasItsSet, Recorded, InText
<1>4. CASE ReadAdded(raw)
  <2>1. /\ currentFile \in DOMAIN changed
        /\ newLine \in Nat \ {0}
        /\ changed' = [changed EXCEPT ![currentFile] = @ \cup {newLine}]
        /\ newLine' = newLine + 1
        /\ UNCHANGED <<files, currentFile, inHunk>>
        /\ raw.class = "plus" /\ inHunk
    BY <1>4 DEF ReadAdded, InText, ReaderInv, EveryFileHasItsSet
  <2>2. DOMAIN changed' = DOMAIN changed
    BY <2>1
  <2>3. \A f \in DOMAIN changed :
          changed'[f] = IF f = currentFile THEN changed[f] \cup {newLine}
                                           ELSE changed[f]
    BY <2>1 DEF ReaderInv
  <2>4. Recorded' = Recorded \cup {<<currentFile, newLine>>}
    BY <2>1, <2>2, <2>3 DEF Recorded
  <2>5. ReaderInv'
    <3>1. \A f \in DOMAIN changed' : changed'[f] \subseteq Nat \ {0}
      BY <2>1, <2>2, <2>3 DEF ReaderInv
    <3>2. changed' = [f \in DOMAIN changed' |-> changed'[f]]
      BY <2>1
    <3>3. ToSet(files)' = ToSet(files)
      BY <2>1
    <3> QED
      BY <2>1, <2>2, <3>1, <3>2, <3>3 DEF ReaderInv, EveryFileHasItsSet
  <2> QED
    <3>1. ReaderInv' /\ InText(raw) /\ raw.class = "plus"
      BY <1>4, <2>5 DEF ReadAdded
    <3>2. Recorded \subseteq Recorded'
      BY <2>4
    <3> QED
      BY <2>1, <2>4, <3>1, <3>2
<1>5. CASE ReadOther(raw)
  BY <1>5 DEF ReadOther, InText, ReaderInv, EveryFileHasItsSet, Recorded
<1> QED
  BY <1>1, <1>2, <1>3, <1>4, <1>5 DEF Read

-----------------------------------------------------------------------------
(* What each line of git does to the invariant *)

LEMMA InitInv == Init => IInv
<1> SUFFICES ASSUME Init PROVE IInv
  OBVIOUS
<1>1. ReaderInv
  <2>1. files = <<>> /\ changed = <<>> /\ DOMAIN changed = {}
    BY DEF Init
  <2>2. changed = [f \in DOMAIN changed |-> changed[f]]
    BY <2>1
  <2>3. EveryFileHasItsSet
    BY <2>1 DEF Init, EveryFileHasItsSet, ToSet
  <2>4. files \in Seq(Named)
    BY <2>1
  <2> QED
    BY <2>1, <2>2, <2>3, <2>4 DEF Init, ReaderInv
<1>2. GitInv
  BY DiffAssumption DEF Init, GitInv
<1>3. Recorded = {}
  BY DEF Init, Recorded
<1> QED
  BY <1>1, <1>2, <1>3 DEF Init, IInv, TrackInv, ExposedInv, PureInv, CounterTracksFile,
     PureDiffExact, HarmIsBounded

\* A line that is neither added nor a header or a hunk line leaves the section
\* where it is, and the counter follows if it is in the new file.
LEMMA PreambleStep ==
  ASSUME IInv, WriteSection \/ WritePreamble \/ WriteOld
  PROVE  IInv'
<1> USE DEF IInv
<1>1. PICK raw : /\ raw \in {Raw("other"), Raw("minus")} /\ Write(raw)
  BY DEF WriteSection, WritePreamble, WriteOld
<1>2. IsRaw(raw) /\ raw.class \in {"other", "minus"}
  BY <1>1, RawIs DEF Classes
<1>3. /\ ReaderInv' /\ Recorded' = Recorded /\ written' \in 0..MaxLines /\ below' = below
      /\ currentFile' = currentFile
  BY <1>1, <1>2, ReadStep, DiffAssumption DEF Write, GitInv
<1>4. GitInv'
  <2>1. CASE WriteSection
    BY <1>3, <2>1, DiffAssumption DEF WriteSection, GitInv
  <2>2. CASE WritePreamble
    BY <1>3, <2>2 DEF WritePreamble, GitInv
  <2>3. CASE WriteOld
    BY <1>3, <2>3 DEF WriteOld, GitInv
  <2> QED
    BY <2>1, <2>2, <2>3
<1>5. astray' = "file" /\ at' \notin {"named", "hunk", "text"}
  BY DEF WriteSection, WritePreamble, WriteOld, TrackInv, GitInv
<1>6. UNCHANGED <<added, sure, last, exposed, pure>>
  BY DEF WriteSection, WritePreamble, WriteOld
<1> QED
  BY <1>3, <1>4, <1>5, <1>6 DEF TrackInv, ExposedInv, CounterTracksFile, PureInv,
     PureDiffExact, HarmIsBounded

LEMMA NewStep ==
  ASSUME IInv, WriteNew
  PROVE  IInv'
<1> USE DEF IInv
<1>1. /\ at = "old" /\ at' = "named" /\ Write(RawNew)
      /\ astray' = IF form = "plain" /\ ~below THEN "no" ELSE "file"
      /\ last' = CASE form = "plain" -> Located(file)
                   [] form = "spaced" -> Located(Tabbed(file))
                   [] OTHER -> last
      /\ exposed' = IF astray' = "no" \/ form = "deleted" THEN exposed
                    ELSE exposed \cup {file, last'}
      /\ pure' = (pure /\ form \in {"plain", "deleted"})
      /\ UNCHANGED <<todo, file, form, line, added, sure>>
  BY DEF WriteNew
<1>2. /\ IsRaw(RawNew)
      /\ form = "plain" => RawNew.class = "header" /\ RawNew.file = Located(file)
      /\ form = "spaced" => /\ RawNew.class = "header"
                            /\ RawNew.file = Located(Tabbed(file))
      /\ form \notin {"plain", "spaced"} => RawNew.class = "triple"
      /\ RawNew.class \in {"header", "triple"}
  BY <1>1, RawNewIs DEF GitInv
<1>3. /\ ReaderInv' /\ Recorded' = Recorded /\ written' \in 0..MaxLines /\ below' = below
      /\ RawNew.class = "header" => currentFile' = RawNew.file
      /\ RawNew.class # "header" => currentFile' = currentFile
  BY <1>1, <1>2, ReadStep, DiffAssumption DEF Write, GitInv
<1>4. line = 0 /\ file \in Files
  BY <1>1 DEF GitInv
<1>5. currentFile' = last' /\ last' \in Named \cup {None}
  <2>1. CASE form = "plain"
    BY <1>1, <1>2, <1>3, <1>4, <2>1 DEF Named, Names, Located
  <2>2. CASE form = "spaced"
    BY <1>1, <1>2, <1>3, <1>4, <2>2 DEF Named, Names, Located
  <2>3. CASE form \notin {"plain", "spaced"}
    BY <1>1, <1>2, <1>3, <2>3 DEF ExposedInv, GitInv
  <2> QED
    BY <2>1, <2>2, <2>3
<1>6. GitInv'
  BY <1>1, <1>3, <1>4, <1>5 DEF GitInv
<1>7. TrackInv'
  <2>1. astray' # "file" => currentFile' = file
    BY <1>1, <1>2, <1>3 DEF Located
  <2> QED
    BY <1>1, <2>1 DEF TrackInv, CounterTracksFile
<1>8. ExposedInv'
  BY <1>1, <1>4, <1>5 DEF ExposedInv
<1>9. PureInv'
  BY <1>1, <1>3, <1>4 DEF PureInv, PureDiffExact, GitInv
<1>10. exposed \subseteq exposed'
  BY <1>1
<1> QED
  BY <1>1, <1>3, <1>6, <1>7, <1>8, <1>9, <1>10 DEF HarmIsBounded

LEMMA HunkStep ==
  ASSUME IInv, WriteHunk
  PROVE  IInv'
<1> USE DEF IInv
<1>1. PICK n \in Nat :
        /\ line' = n /\ Write(Hunk(n))
        /\ form = "deleted" => n = 0 /\ line = 0
        /\ at \in {"named", "text"} /\ at' = "hunk"
        /\ astray' = IF astray = "hunk" THEN "no" ELSE astray
        /\ UNCHANGED <<todo, file, form, added, sure, last, exposed, pure>>
  BY DiffAssumption DEF WriteHunk, GitInv
<1>2. /\ IsRaw(Hunk(n)) /\ Hunk(n).class = "hunk" /\ Hunk(n).start = n
  BY RawIs
<1>3. /\ ReaderInv' /\ Recorded' = Recorded /\ written' \in 0..MaxLines /\ below' = below
      /\ currentFile' = currentFile /\ inHunk' /\ newLine' = NewStart(n)
  BY <1>1, <1>2, ReadStep, DiffAssumption DEF Write, GitInv
<1>4. GitInv'
  BY <1>1, <1>3 DEF GitInv
<1>5. TrackInv'
  BY <1>1, <1>3 DEF TrackInv, CounterTracksFile, NewStart, GitInv
<1>6. PureInv'
  BY <1>1, <1>3 DEF PureInv, PureDiffExact, GitInv, TrackInv
<1>7. ExposedInv'
  BY <1>1, <1>3 DEF ExposedInv, GitInv
<1> QED
  BY <1>1, <1>3, <1>4, <1>5, <1>6, <1>7 DEF HarmIsBounded

\* Lines that are not added: context, deleted lines, "\ No newline".
LEMMA UnrecordedStep ==
  ASSUME IInv, WriteContext \/ WriteDeleted \/ WriteNoNewline
  PROVE  IInv'
<1> USE DEF IInv
<1>1. PICK raw : /\ raw \in {Raw("other"), Raw("minus"), Raw("backslash")}
                 /\ Write(raw)
                 /\ IF raw = Raw("other") THEN line > 0 /\ line' = line + 1
                                          ELSE line' = line
                 /\ at \in {"hunk", "text"} /\ at' = "text"
                 /\ UNCHANGED <<todo, file, form, added, astray, sure, last,
                                exposed, pure>>
  BY DEF WriteContext, WriteDeleted, WriteNoNewline, Raw
<1>2. /\ IsRaw(raw) /\ raw.class \in {"other", "minus", "backslash"}
      /\ raw = Raw("other") <=> raw.class = "other"
  BY <1>1, RawIs DEF Classes
<1>3. /\ ReaderInv' /\ Recorded' = Recorded /\ written' \in 0..MaxLines /\ below' = below
      /\ currentFile' = currentFile /\ inHunk' = inHunk
      /\ InText(raw) /\ raw = Raw("other") => newLine' = newLine + 1
      /\ raw # Raw("other") => newLine' = newLine
  BY <1>1, <1>2, ReadStep, DiffAssumption DEF Write, GitInv
<1>4. GitInv'
  BY <1>1, <1>3 DEF GitInv
<1>5. TrackInv'
  <2>1. CASE astray = "no"
    <3>1. inHunk /\ currentFile = file /\ newLine = NewStart(line)
      BY <1>1, <2>1 DEF TrackInv, CounterTracksFile
    <3>2. file \in Files /\ currentFile # None
      BY <1>1, <3>1, DiffAssumption DEF GitInv
    <3>3. InText(raw)
      BY <1>2, <3>1, <3>2 DEF InText
    <3> QED
      BY <1>1, <1>3, <2>1, <3>1, <3>3 DEF TrackInv, CounterTracksFile,
         NewStart, GitInv
  <2>2. CASE astray # "no"
    BY <1>1, <1>3, <2>2 DEF TrackInv, CounterTracksFile
  <2> QED
    BY <2>1, <2>2
<1>6. PureInv'
  BY <1>1, <1>3 DEF PureInv, PureDiffExact, GitInv, TrackInv
<1>7. ExposedInv'
  BY <1>1, <1>3 DEF ExposedInv, GitInv
<1> QED
  BY <1>1, <1>3, <1>4, <1>5, <1>6, <1>7 DEF HarmIsBounded

\* An added line of a section the reader follows is recorded as what it is.
LEMMA AddedStep ==
  ASSUME IInv, NEW text \in Texts, WriteAdded(text)
  PROVE  IInv'
<1> USE DEF IInv
<1> DEFINE raw == RawAdded(text)
<1>1. /\ at \in {"hunk", "text"} /\ at' = "text"
      /\ line > 0 /\ line' = line + 1
      /\ Write(raw)
      /\ added' = added \cup {<<file, line>>}
      /\ sure' = IF astray = "no" /\ text = Plain
                 THEN sure \cup {<<file, line>>} ELSE sure
      /\ astray' = CASE text = Plain -> astray
                     [] text = PlusPlus /\ astray = "no" -> "hunk"
                     [] text = PlusPlus /\ astray # "no" -> astray
                     [] OTHER -> "file"
      /\ last' = IF text \in Files THEN Located(text) ELSE last
      /\ exposed' = exposed \cup CASE text = Plain -> {}
                                   [] text = PlusPlus -> {file}
                                   [] OTHER -> {file, last'}
      /\ pure' = (pure /\ text = Plain)
      /\ UNCHANGED <<todo, file, form>>
  BY DEF WriteAdded
<1>2. /\ IsRaw(raw)
      /\ text = Plain => raw.class = "plus"
      /\ text = PlusPlus => raw.class = "triple"
      /\ text \notin {Plain, PlusPlus} =>
           text \in Files /\ raw.class = "header" /\ raw.file = Located(text)
  BY RawAddedIs
<1> HIDE DEF raw
<1>3. /\ ReaderInv' /\ Recorded \subseteq Recorded' /\ written' \in 0..MaxLines /\ below' = below
      /\ raw.class # "header" => currentFile' = currentFile /\ inHunk' = inHunk
      /\ raw.class = "header" => currentFile' = raw.file
      /\ raw.class # "plus" => Recorded' = Recorded
      /\ ~InText(raw) => Recorded' = Recorded
      /\ InText(raw) /\ raw.class = "plus" =>
           /\ Recorded' = Recorded \cup {<<currentFile, newLine>>}
           /\ newLine' = newLine + 1
  BY <1>1, <1>2, ReadStep, DiffAssumption DEF Write, GitInv, IsRaw, Classes
<1>4. Plain # PlusPlus /\ Plain \notin Files /\ PlusPlus \notin Files
  BY DiffAssumption
<1>5. ASSUME astray = "no", text = Plain
      PROVE  /\ Recorded' = Recorded \cup {<<file, line>>}
             /\ inHunk' /\ currentFile' = file /\ newLine' = line + 1
  <2>1. inHunk /\ currentFile = file /\ newLine = NewStart(line)
    BY <1>1, <1>5 DEF TrackInv, CounterTracksFile
  <2>2. newLine = line
    BY <1>1, <2>1 DEF NewStart, GitInv
  <2>3. InText(raw) /\ raw.class = "plus"
    BY <1>1, <1>2, <1>5, <2>1, DiffAssumption DEF InText, GitInv
  <2> QED
    BY <1>3, <2>1, <2>2, <2>3
<1>10. exposed' = IF text = Plain THEN exposed
                  ELSE IF text = PlusPlus THEN exposed \cup {file}
                  ELSE exposed \cup {file, last'}
  BY <1>1, <1>4
<1>11. currentFile' = last' /\ last' \in Named \cup {None}
  BY <1>1, <1>2, <1>3, <1>4 DEF ExposedInv, GitInv, Named, Names, Located
<1>12. file \in Files
  BY <1>1 DEF GitInv
<1>6. GitInv'
  <2>1. exposed' \subseteq Files \cup Named \cup {None}
    BY <1>10, <1>11, <1>12 DEF GitInv
  <2> QED
    BY <1>1, <1>3, <1>4, <1>11, <2>1 DEF GitInv
<1>13. ExposedInv'
  <2>1. CASE text = Plain
    <3>1. astray' = astray /\ exposed' = exposed /\ currentFile' = currentFile
      BY <1>1, <1>2, <1>3, <1>4, <1>10, <2>1
    <3>2. ~(form = "deleted" /\ line = 0)
      BY <1>1
    <3> QED
      BY <1>1, <1>11, <3>1, <3>2 DEF ExposedInv
  <2>2. CASE text = PlusPlus
    <3>1. astray = "no" => currentFile' = file
      BY <1>1, <1>2, <1>3, <1>4, <2>2 DEF TrackInv, CounterTracksFile
    <3>2. astray # "no" => currentFile' \in exposed
      BY <1>1, <1>2, <1>3, <1>4, <2>2 DEF ExposedInv
    <3> QED
      BY <1>1, <1>4, <1>10, <1>11, <2>2, <3>1, <3>2 DEF ExposedInv
  <2>3. CASE text \notin {Plain, PlusPlus}
    BY <1>1, <1>10, <1>11, <2>3 DEF ExposedInv
  <2> QED
    BY <2>1, <2>2, <2>3
<1>7. TrackInv'
  <2>1. CASE text = Plain
    <3>1. astray' = astray
      BY <1>1, <1>4, <2>1
    <3>2. CASE astray = "no"
      BY <1>1, <1>5, <2>1, <3>1, <3>2 DEF TrackInv, CounterTracksFile,
         NewStart, GitInv
    <3>3. CASE astray # "no"
      BY <1>1, <1>2, <1>3, <2>1, <3>1, <3>3 DEF TrackInv, CounterTracksFile
    <3> QED
      BY <3>2, <3>3
  <2>2. CASE text = PlusPlus
    <3>1. astray' = IF astray = "no" THEN "hunk" ELSE astray
      BY <1>1, <1>4, <2>2
    <3> QED
      BY <1>1, <1>2, <1>3, <2>2, <3>1 DEF TrackInv, CounterTracksFile
  <2>3. CASE text \notin {Plain, PlusPlus}
    <3>1. astray' = "file"
      BY <1>1, <2>3
    <3> QED
      BY <3>1 DEF TrackInv, CounterTracksFile
  <2> QED
    BY <2>1, <2>2, <2>3
<1>8. PureInv'
  <2>1. SUFFICES ASSUME pure' PROVE PureInv'
    BY DEF PureInv, PureDiffExact
  <2>2. pure /\ text = Plain
    BY <1>1, <2>1
  <2>3. form = "plain" /\ astray = "no"
    BY <1>1, <2>2 DEF PureInv, GitInv
  <2>4. Recorded' = added'
    BY <1>1, <1>5, <2>2, <2>3 DEF PureInv, PureDiffExact
  <2>5. astray' = "no" /\ form' = "plain"
    BY <1>1, <1>4, <2>2, <2>3
  <2> QED
    <3>1. ~below'
      BY <1>3, <2>2 DEF PureInv
    <3> QED
      BY <2>4, <2>5, <3>1 DEF PureInv, PureDiffExact
<1>14. sure' \subseteq Recorded'
  BY <1>1, <1>3, <1>5 DEF HarmIsBounded
<1>15. {r \in Recorded' : r[1] \notin exposed'} = {a \in added' : a[1] \notin exposed'}
  <2>1. {r \in Recorded : r[1] \notin exposed} = {a \in added : a[1] \notin exposed}
    BY DEF HarmIsBounded
  <2>2. exposed \subseteq exposed' /\ <<file, line>>[1] = file
    BY <1>10
  <2>3. CASE text # Plain
    <3>1. Recorded' = Recorded /\ file \in exposed'
      BY <1>2, <1>3, <1>10, <2>3
    <3> QED
      BY <1>1, <2>1, <2>2, <3>1
  <2>4. CASE text = Plain /\ astray = "no"
    <3>1. Recorded' = Recorded \cup {<<file, line>>} /\ exposed' = exposed
      BY <1>5, <1>10, <2>4
    <3> QED
      BY <1>1, <2>1, <3>1
  <2>5. CASE text = Plain /\ astray # "no"
    <3>1. file \in exposed /\ currentFile \in exposed /\ exposed' = exposed
      BY <1>1, <1>10, <2>5 DEF ExposedInv
    <3>2. Recorded' = Recorded \/ Recorded' = Recorded \cup {<<currentFile, newLine>>}
      BY <1>2, <1>3, <2>5
    <3>3. <<currentFile, newLine>>[1] = currentFile
      OBVIOUS
    <3> QED
      BY <1>1, <2>1, <2>2, <3>1, <3>2, <3>3
  <2> QED
    BY <2>3, <2>4, <2>5
<1> QED
  BY <1>3, <1>6, <1>7, <1>8, <1>13, <1>14, <1>15 DEF HarmIsBounded

-----------------------------------------------------------------------------
(* The theorems *)

\* Whatever git writes, the reader's sets exist and its counter is where IInv
\* says.
THEOREM Invariance == Spec => []IInv
<1>1. ASSUME IInv, [Next]_vars PROVE IInv'
  <2>1. CASE WriteSection \/ WritePreamble \/ WriteOld
    BY <1>1, <2>1, PreambleStep
  <2>2. CASE WriteNew
    BY <1>1, <2>2, NewStep
  <2>3. CASE WriteHunk
    BY <1>1, <2>3, HunkStep
  <2>4. CASE \E text \in Texts : WriteAdded(text)
    BY <1>1, <2>4, AddedStep
  <2>5. CASE WriteContext \/ WriteDeleted \/ WriteNoNewline
    BY <1>1, <2>5, UnrecordedStep
  <2>6. CASE UNCHANGED vars
    BY <1>1, <2>6 DEF vars, readerVars, gitVars, IInv, ReaderInv, GitInv,
       TrackInv, ExposedInv, PureInv, EveryFileHasItsSet, CounterTracksFile,
       PureDiffExact, HarmIsBounded, Recorded
  <2> QED
    BY <1>1, <2>1, <2>2, <2>3, <2>4, <2>5, <2>6 DEF Next
<1> QED
  BY <1>1, InitInv, PTL DEF Spec

\* Every variable of the reader and of git keeps its type (parseDiff).
THEOREM TypeCorrect == Spec => []TypeOK
<1>1. IInv => TypeOK
  BY DEF IInv, ReaderInv, GitInv, TypeOK
<1> QED
  BY <1>1, Invariance, PTL

\* Line 67 of diff.go never writes to a nil set, and no file is listed twice.
THEOREM SetsExist == Spec => []EveryFileHasItsSet
<1>1. IInv => EveryFileHasItsSet
  BY DEF IInv, ReaderInv
<1> QED
  BY <1>1, Invariance, PTL

\* In a section that nothing misleads, the reader's counter is git's.
THEOREM CounterExact == Spec => []CounterTracksFile
<1>1. IInv => CounterTracksFile
  BY DEF IInv, TrackInv
<1> QED
  BY <1>1, Invariance, PTL

\* What a misleading line does wrong is bounded: the lines of hunks that
\* nothing misled are recorded, and a file that is not exposed has exactly its
\* added lines (parseDiff).
THEOREM HarmBounded == Spec => []HarmIsBounded
<1>1. IInv => HarmIsBounded
  BY DEF IInv
<1> QED
  BY <1>1, Invariance, PTL

\* A diff in which nothing misleads the reader is read exactly.
THEOREM PureExact == Spec => []PureDiffExact
<1>1. IInv => PureDiffExact
  BY DEF IInv, PureInv
<1> QED
  BY <1>1, Invariance, PTL

=============================================================================

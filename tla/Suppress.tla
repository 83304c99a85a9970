------------------------------ MODULE Suppress -----------------------------
(***************************************************************************)
(* The //goperfcheck:ignore comments of one file (checker/suppress.go):    *)
(* FilterSuppressed, which hides issues from every scan, against           *)
(* CollectSuppressions, by which -audit-suppressions tells the author      *)
(* which comments are stale or expired. The author then removes comments   *)
(* the audit has listed, one after the other, and fixes code; days pass.   *)
(*                                                                         *)
(* A file is a sequence of rows. A row carries the checkers that fire on   *)
(* it (the audit runs all of them; a scan with fewer shows less of the     *)
(* same) and possibly a comment, which may be all there is on the row      *)
(* (own). A comment is the sequence of its tokens: names, dates (numbers)  *)
(* and until: tokens that are no date. A // comment runs to the end of its *)
(* line, so a row has one at most; the merging of several, which only      *)
(* //line directives could bring about, is left out. id, the row's first   *)
(* number, is the model's only: the program knows rows by their number.    *)
(***************************************************************************)
EXTENDS Naturals, Sequences, SequencesExt

CONSTANTS
  Checkers,
  Names,      \* what a comment may name: the checkers, and misspelt ones
  Comments,   \* the comments of a file, as sequences of tokens
  None,       \* no comment
  MaxRows,    \* bound: the length of a file
  MaxDay      \* bound: the last day

ASSUME SuppressAssumption ==
  /\ Checkers \subseteq Names
  /\ None \notin Comments
  /\ \A comment \in Comments : comment \in Seq(ToSet(comment))
  /\ MaxRows \in Nat /\ MaxDay \in Nat \ {0}

VARIABLES
  rows,       \* the file
  today,
  audited,    \* the file as the last audit saw it
  listed,     \* ids of the rows whose comment it listed, until removed
  quiet       \* there was an audit, and since then only removals

vars == <<rows, today, audited, listed, quiet>>

Line == [fires : SUBSET Checkers, comment : Comments \cup {None},
         own : BOOLEAN]

\* A line that is only a comment has no code.
IsLine(line) == line.own => line.comment # None /\ line.fires = {}

Row == [id : 1..MaxRows, fires : SUBSET Checkers,
        comment : Comments \cup {None}, own : BOOLEAN]

\* Any file a scan may meet.
Init ==
  /\ \E n \in 1..MaxRows : \E lines \in [1..n -> {l \in Line : IsLine(l)}] :
       rows = [i \in 1..n |->
                 [id |-> i, fires |-> lines[i].fires,
                  comment |-> lines[i].comment, own |-> lines[i].own]]
  /\ today = 1
  /\ audited = rows
  /\ listed = {}
  /\ quiet = FALSE

-----------------------------------------------------------------------------
(* parseSuppressionRest and buildSuppressions *)

Days == 1..MaxDay

\* The last until: token that is a date (none for a zero time.Time); one that
\* is not a date is dropped.
Until(comment) ==
  {d \in Days : \E k \in DOMAIN comment :
     comment[k] = d /\ \A l \in DOMAIN comment : l > k => comment[l] \notin Days}

Entry(comment) ==
  LET names == ToSet(comment) \cap Names
  IN  [all |-> names = {}, checkers |-> names, until |-> Until(comment)]

\* Mutant of Expired: a comment is not active on the day it names.
ExpiredOnTheDay(entry, day) == \E d \in entry.until : day >= d

\* A comment is active through the day it names.
Expired(entry, day) == \E d \in entry.until : day > d

-----------------------------------------------------------------------------
(* FilterSuppressed *)

\* Mutant of Covering: the row below is covered too, instead of the row above.
CoveringBelow(i) == {i, i + 1}

\* suppressed: the rows whose comment may hide an issue of row i.
Covering(i) == {i, i - 1}

Suppressed(file, day, i, checker) ==
  \E k \in Covering(i) \cap DOMAIN file :
    /\ file[k].comment # None
    /\ LET entry == Entry(file[k].comment)
       IN  /\ ~Expired(entry, day)
           /\ entry.all \/ checker \in entry.checkers

\* Issues are named by the row's id: their line changes as rows go.
Issues(file) ==
  UNION {{file[i].id} \X file[i].fires : i \in DOMAIN file}

Hidden(file, day) ==
  UNION {{<<file[i].id, c>> : c \in {c \in file[i].fires :
                                       Suppressed(file, day, i, c)}}
         : i \in DOMAIN file}

FilterSuppressed(file, day) == Issues(file) \ Hidden(file, day)

-----------------------------------------------------------------------------
(* CollectSuppressions and printAuditReport *)

\* The checkers that fire on a line of the file, which may be past its end.
Fires(file, line) == IF line \in DOMAIN file THEN file[line].fires ELSE {}

\* Mutant of Stale: the line after the next instead of the next.
StaleOffByOne(file, line) ==
  LET entry == Entry(file[line].comment)
      fires == Fires(file, line) \cup Fires(file, line + 2)
  IN  IF entry.all THEN fires = {} ELSE entry.checkers \cap fires = {}

\* Mutant of Stale: a comment is stale when one of its names is.
StaleInPart(file, line) ==
  LET entry == Entry(file[line].comment)
      fires == Fires(file, line) \cup Fires(file, line + 1)
  IN  IF entry.all THEN fires = {} ELSE ~(entry.checkers \subseteq fires)

Stale(file, line) ==
  LET entry == Entry(file[line].comment)
      fires == Fires(file, line) \cup Fires(file, line + 1)
  IN  IF entry.all THEN fires = {} ELSE entry.checkers \cap fires = {}

\* The rows whose comment the audit of this day prints.
Problematic(file, day) ==
  {i \in DOMAIN file : /\ file[i].comment # None
                       /\ \/ Stale(file, i)
                          \/ Expired(Entry(file[i].comment), day)}

\* Mutant of Audit: the line that is covered is listed.
AuditNextLine ==
  /\ listed' = {rows[i].id : i \in {k \in DOMAIN rows :
                                     k - 1 \in Problematic(rows, today)}}
  /\ audited' = rows
  /\ quiet' = TRUE
  /\ UNCHANGED <<rows, today>>

Audit ==
  /\ listed' = {rows[i].id : i \in Problematic(rows, today)}
  /\ audited' = rows
  /\ quiet' = TRUE
  /\ UNCHANGED <<rows, today>>

-----------------------------------------------------------------------------
(* The author *)

\* A comment of its own is removed with its line, and the rest moves up.
RemoveLine(i) ==
  /\ rows[i].id \in listed /\ rows[i].own
  /\ rows' = RemoveAt(rows, i)
  /\ listed' = listed \ {rows[i].id}
  /\ UNCHANGED <<today, audited, quiet>>

\* A comment behind code is removed, and the code stays.
RemoveTrailing(i) ==
  /\ rows[i].id \in listed /\ ~rows[i].own
  /\ rows' = [rows EXCEPT ![i].comment = None]
  /\ listed' = listed \ {rows[i].id}
  /\ UNCHANGED <<today, audited, quiet>>

Fix(i, checker) ==
  /\ checker \in rows[i].fires
  /\ rows' = [rows EXCEPT ![i].fires = @ \ {checker}]
  /\ quiet' = FALSE
  /\ UNCHANGED <<today, audited, listed>>

NextDay ==
  /\ today < MaxDay
  /\ today' = today + 1
  /\ quiet' = FALSE
  /\ UNCHANGED <<rows, audited, listed>>

Next ==
  \/ Audit
  \/ \E i \in DOMAIN rows :
       \/ RemoveLine(i)
       \/ RemoveTrailing(i)
       \/ \E checker \in Checkers : Fix(i, checker)
  \/ NextDay

Spec == Init /\ [][Next]_vars

-----------------------------------------------------------------------------
(* Properties *)

TypeOK ==
  /\ rows \in Seq(Row)
  /\ \A i, j \in DOMAIN rows : i < j => rows[i].id < rows[j].id
  /\ \A i \in DOMAIN rows : IsLine(rows[i])
  /\ today \in Days
  /\ listed \subseteq {rows[i].id : i \in {k \in DOMAIN rows :
                                             rows[k].comment # None}}
  /\ audited \in Seq(Row)
  /\ quiet \in BOOLEAN

\* The file with no comment but that of row i.
Alone(file, i) ==
  [k \in DOMAIN file |-> IF k = i THEN file[k]
                                  ELSE [file[k] EXCEPT !.comment = None]]

\* The audit and the filter agree: a comment is listed as stale or expired
\* exactly when it hides nothing, whatever the other comments do.
AuditExact ==
  LET problematic == Problematic(rows, today)
  IN  \A i \in DOMAIN rows :
        rows[i].comment # None =>
          (i \in problematic <=> Hidden(Alone(rows, i), today) = {})

\* Removing listed comments, in any order, some or all, at once or days later,
\* brings no issue back: what the comments of the audit would hide today,
\* those that are left hide.
NothingResurfaces ==
  Hidden(audited, today) \cap Issues(rows) \subseteq Hidden(rows, today)

\* The rows the last audit saw that are no longer there.
Gone == {audited[i].id : i \in DOMAIN audited} \ {rows[i].id : i \in DOMAIN rows}

\* Nor does it hide an issue that was reported, except in one way: removing a
\* line joins the row below with a comment above that did not reach it before.
\* (audit.go calls every stale comment "safe to remove".)
HidesOnlyByJoining ==
  LET reported == FilterSuppressed(audited, today)
  IN  \A i \in DOMAIN rows : \A c \in rows[i].fires :
        /\ <<rows[i].id, c>> \in reported
        /\ Suppressed(rows, today, i, c)
        => \E g \in Gone : i > 1 /\ rows[i - 1].id < g /\ g < rows[i].id

\* An author who removes all that is listed is done: the next audit is clean.
CleanAfterRemoval == quiet /\ listed = {} => Problematic(rows, today) = {}

\* The comments that hide checker c's issue of row i, each by itself.
Hiding(file, day, i, c) ==
  {k \in DOMAIN file : <<file[i].id, c>> \in Hidden(Alone(file, k), day)}

\* A suppression lasts through the day it names and not longer: a new day hides
\* nothing that was reported, and an issue comes back on the day after exactly
\* when that day was the last of every comment that hid it - not a day early
\* or late, and not at all while a comment without a date covers it.
HiddenThroughItsDate ==
  [][today' > today =>
       LET before == Hidden(rows, today)
           after  == Hidden(rows', today')
       IN  /\ after \subseteq before
           /\ \A i \in DOMAIN rows : \A c \in rows[i].fires :
                <<rows[i].id, c>> \in before =>
                  (<<rows[i].id, c>> \notin after <=>
                     \A k \in Hiding(rows, today, i, c) :
                       Until(rows[k].comment) = {today})]_vars

=============================================================================

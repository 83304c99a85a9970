------------------------------- MODULE Report ------------------------------
(***************************************************************************)
(* What main does with the issues of a scan before it reports or fixes     *)
(* them: severity, changed lines, duplicates, order (main.go, diff.go,     *)
(* checker.go). Files are numbered in the order of their paths.            *)
(***************************************************************************)
EXTENDS Naturals, Sequences, Lists

CONSTANTS
  PathText,   \* of each file, the code points of its path
  NameText    \* of each checker and message, its code points

Colon == 58

\* The text t begins with s and a colon.
Heads(s, t) == Len(s) < Len(t) /\ t[Len(s) + 1] = Colon /\ \A i \in DOMAIN s : s[i] = t[i]

\* Different names have different texts, and no path begins with another and a
\* colon.
ASSUME SpellingAssumption ==
  /\ \A f \in DOMAIN PathText : PathText[f] \in Seq(Nat)
  /\ \A n \in DOMAIN NameText : NameText[n] \in Seq(Nat)
  /\ \A f, g \in DOMAIN PathText :
       ~Heads(PathText[f], PathText[g]) /\ (PathText[f] = PathText[g] => f = g)
  /\ \A m, n \in DOMAIN NameText : NameText[m] = NameText[n] => m = n

Level == [ERROR |-> 3, WARN |-> 2, INFO |-> 1]

\* parseSeverity, of the text in upper case.
ParseSeverity(text) ==
  CASE text = "ERROR" -> "ERROR"
    [] text \in {"WARN", "WARNING"} -> "WARN"
    [] OTHER -> "INFO"

Severe(iss, min) == Level[iss.severity] >= Level[min]

\* filterByChangedLines: the pairs of a file and a line of it.
Changed(iss, changedLines) == <<iss.file, iss.line>> \in changedLines

\* string(rune(n)): what is no Unicode character becomes U+FFFD.
RuneOf(n) == IF n \in 55296..57343 \/ n > 1114111 THEN 65533 ELSE n

Colons(s, t) == s \o <<Colon>> \o t

\* What follows the path in a key. Mutant of Key: the file is not part of it.
KeyWithoutFile(iss) ==
  Colons(<<RuneOf(iss.line)>>,
         Colons(<<RuneOf(iss.column)>>, Colons(NameText[iss.checker], NameText[iss.message])))

Key(iss) == Colons(PathText[iss.file], KeyWithoutFile(iss))

\* DedupeIssues: the first issue of each key is kept.
DedupeIssues(issues) ==
  At(issues, {k \in DOMAIN issues : \A j \in 1..(k - 1) : Key(issues[j]) # Key(issues[k])})

\* The order of a report.
NotAfter(a, b) == a.file < b.file \/ (a.file = b.file /\ a.line <= b.line)

InOrder(issues) == \A j, k \in DOMAIN issues : j < k => NotAfter(issues[j], issues[k])

\* What sort.Slice may make of a list: it is not stable.
Sortings(issues) ==
  {s \in {[k \in DOMAIN issues |-> issues[p[k]]] :
            p \in {p \in [DOMAIN issues -> DOMAIN issues] :
                     \A j, k \in DOMAIN issues : p[j] = p[k] => j = k}} :
     InOrder(s)}

\* Mutant of Narrowed: the lines of the diff are forgotten.
NarrowedWholeFiles(raw, min, onlyChanged, changedLines) ==
  DedupeIssues(At(raw, {k \in DOMAIN raw : Severe(raw[k], min)}))

\* The issues a run reports, before the advice is adjusted to a Go version.
Narrowed(raw, min, onlyChanged, changedLines) ==
  DedupeIssues(At(raw, {k \in DOMAIN raw :
    /\ Severe(raw[k], min)
    /\ onlyChanged => Changed(raw[k], changedLines)}))

\* Files with something for -fix to do.
Fixable(issues) == {issues[k].file : k \in {k \in DOMAIN issues : issues[k].fix}}

=============================================================================

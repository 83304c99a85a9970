----------------------------- MODULE GoVersions ----------------------------
(***************************************************************************)
(* The Go version a project targets and the advice that depends on it      *)
(* (checker/goversion.go). The text of a version is its two components;    *)
(* a component is Bad when it does not begin with a number.                *)
(***************************************************************************)
EXTENDS Naturals, Sequences

CONSTANT Bad

Unknown == [major |-> 0, minor |-> 0]

AtLeast(v, major, minor) ==
  IF v.major # major THEN v.major > major ELSE v.minor >= minor

\* The version a text stands for, if any: what follows the major version may be
\* missing or anything.
ParseGoVersion(text) ==
  IF text.major = Bad THEN {}
  ELSE {[major |-> text.major, minor |-> IF text.minor = Bad THEN 0 ELSE text.minor]}

\* The first of a sequence of searches that found something.
FirstFound(found) ==
  UNION {found[k] : k \in {k \in DOMAIN found : \A j \in 1..(k - 1) : found[j] = {}}}

\* parseGoModFile: the first go directive that can be read.
ParseGoModFile(directives) ==
  FirstFound([k \in DOMAIN directives |-> ParseGoVersion(directives[k])])

\* ReadModGoVersion: the go.mod files from the directory up to the root; one
\* without a directive does not end the search.
ReadModGoVersion(files) ==
  FirstFound([k \in DOMAIN files |-> ParseGoModFile(files[k])])

-----------------------------------------------------------------------------
(* ApplyGoVersion *)

\* The advice of an issue depends on the version.
Affected(iss, v) ==
  \/ iss.checker = "GoroutinePool" /\ AtLeast(v, 1, 22)
  \/ iss.checker = "StackAlloc" /\ AtLeast(v, 1, 17)
  \/ iss.checker = "ZeroCopy" /\ ~AtLeast(v, 1, 20)
  \/ iss.checker = "AtomicMutex" /\ ~AtLeast(v, 1, 19) /\ iss.typed

\* The issue with a note; the suggestion of AtomicMutex is replaced, so that it
\* names no typed atomics any more.
WithVersion(iss, v) ==
  IF v = Unknown \/ ~Affected(iss, v) THEN iss
  ELSE [iss EXCEPT !.note = TRUE, !.typed = @ /\ iss.checker # "AtomicMutex"]

ApplyGoVersion(issues, v) == [k \in DOMAIN issues |-> WithVersion(issues[k], v)]

=============================================================================

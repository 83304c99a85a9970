----------------------------- MODULE MainProofs ----------------------------
(***************************************************************************)
(* What a run leaves on disk, for any number of files, in any order of     *)
(* fixes and with any failures; and the keys of DedupeIssues, for lines of *)
(* every size.                                                             *)
(***************************************************************************)
EXTENDS Main, ListLemmas, TLAPS

\* Where the fixing of files stands: before it nothing is touched; while it
\* lasts a file that waits is whole, but for the one being written.
FixingInv ==
  /\ disk \in [Files -> {"old", "cut", "new"}]
  /\ phase \in {"start", "parse", "dispatch", "select", "collect", "scan", "narrow",
                "report", "group", "fix", "write", "done"}
  /\ todo \subseteq Files /\ todo \cap failed = {}
  /\ \A f \in Files : disk[f] = "new" => f \notin failed \cup todo
  /\ phase \notin {"fix", "write", "done"} =>
       todo = {} /\ failed = {} /\ \A f \in Files : disk[f] = "old"
  /\ phase = "fix" => \A f \in Files : disk[f] = "cut" => f \in failed
  /\ \A f, g \in Files :
       disk[f] = "cut" /\ disk[g] = "cut" /\ f \notin failed /\ g \notin failed => f = g
  /\ phase = "done" /\ status = "0" =>
       todo = {} /\ \A f \in Files : disk[f] = "cut" => f \in failed

\* Steps that come before the fixing.
LEMMA EarlyStep ==
  ASSUME FixingInv, UNCHANGED fixing, phase \notin {"fix", "write", "done"},
         phase' \in {"start", "parse", "dispatch", "select", "collect", "scan", "narrow",
                     "report", "group", "done"}
  PROVE  FixingInv'
BY DEF FixingInv, fixing

\* Every action keeps the invariant.
LEMMA FixingStep == FixingInv /\ [Next]_vars => FixingInv'
<1> SUFFICES ASSUME FixingInv, [Next]_vars PROVE FixingInv'
  OBVIOUS
<1>1. CASE LoadConfig
  BY <1>1, EarlyStep DEF LoadConfig, Exit, Go
<1>2. CASE ParseArguments
  BY <1>2, EarlyStep DEF ParseArguments, Exit, Go
<1>3. CASE Dispatch
  BY <1>3, EarlyStep DEF Dispatch, Exit, Go
<1>4. CASE Select
  BY <1>4, EarlyStep DEF Select, Exit, Go
<1>5. CASE ReadStdin \/ CollectFile \/ CollectStaged \/ CollectDiff \/ Walk
  BY <1>5, EarlyStep DEF ReadStdin, CollectFile, CollectStaged, CollectDiff, Walk, Exit, Go
<1>6. CASE Audit \/ Scan \/ NarrowDown \/ WriteReport
  BY <1>6, EarlyStep DEF Audit, Scan, NarrowDown, WriteReport, Exit, Go
<1>7. CASE GroupByFile
  BY <1>7 DEF GroupByFile, Go, FixingInv
<1>8. CASE LeaveFile
  <2>1. PICK f \in todo : todo' = todo \ {f} /\ failed' \in {failed, failed \cup {f}}
    BY <1>8 DEF LeaveFile
  <2>2. phase = "fix" /\ phase' = "fix" /\ UNCHANGED <<disk, status>>
    BY <1>8 DEF LeaveFile, Go
  <2> QED
    BY <2>1, <2>2 DEF FixingInv
<1>9. CASE StartWrite
  <2>1. PICK f \in todo : disk' = [disk EXCEPT ![f] = "cut"]
    BY <1>9 DEF StartWrite
  <2>2. phase = "fix" /\ phase' = "write" /\ UNCHANGED <<todo, failed, status>>
    BY <1>9 DEF StartWrite, Go
  <2>3. \A g \in Files : disk'[g] = IF g = f THEN "cut" ELSE disk[g]
    BY <2>1 DEF FixingInv
  <2>4. disk' \in [Files -> {"old", "cut", "new"}]
    BY <2>1 DEF FixingInv
  <2> QED
    BY <2>1, <2>2, <2>3, <2>4 DEF FixingInv
<1>10. CASE FinishWrite
  <2>1. PICK f \in todo :
          /\ disk[f] = "cut"
          /\ todo' = todo \ {f}
          /\ \/ disk' = [disk EXCEPT ![f] = "new"] /\ failed' = failed
             \/ failed' = failed \cup {f} /\ disk' = disk
    BY <1>10 DEF FinishWrite
  <2>2. phase' = "fix" /\ status' = status
    BY <1>10 DEF FinishWrite, Go
  <2>3. CASE f \in Files /\ disk' = [disk EXCEPT ![f] = "new"] /\ failed' = failed
    <3>1. \A g \in Files : disk'[g] = IF g = f THEN "new" ELSE disk[g]
      BY <2>3 DEF FixingInv
    <3>2. disk' \in [Files -> {"old", "cut", "new"}]
      BY <2>3 DEF FixingInv
    <3>3. f \notin failed
      BY <2>1 DEF FixingInv
    <3> QED
      BY <2>1, <2>2, <2>3, <3>1, <3>2, <3>3 DEF FixingInv
  <2>4. CASE f \in Files /\ failed' = failed \cup {f} /\ disk' = disk
    <3>1. f \notin failed
      BY <2>1 DEF FixingInv
    <3> QED
      BY <2>1, <2>2, <2>4, <3>1 DEF FixingInv
  <2>5. f \in Files
    BY <1>10, <2>1 DEF FixingInv
  <2> QED
    BY <2>1, <2>3, <2>4, <2>5
<1>11. CASE EndFix
  BY <1>11 DEF EndFix, Exit, fixing, FixingInv
<1>12. CASE Kill
  BY <1>12 DEF Kill, Exit, fixing, FixingInv
<1>13. CASE UNCHANGED vars
  BY <1>13 DEF vars, FixingInv
<1> QED
  BY <1>1, <1>2, <1>3, <1>4, <1>5, <1>6, <1>7, <1>8, <1>9, <1>10, <1>11, <1>12, <1>13
     DEF Next

\* For any number of files: a file whose fix fails keeps no other from being
\* fixed, and a kill leaves at most one half written (applyFixes, fixFile).
THEOREM FixesIndependent == Spec => []FixesAreIndependent
<1>1. Init => FixingInv
  BY DEF Init, FixingInv
<1>2. FixingInv => FixesAreIndependent
  <2>1. SUFFICES ASSUME FixingInv PROVE FixesAreIndependent
    OBVIOUS
  <2>2. ASSUME NEW f \in Files, NEW g \in Files,
               {disk[f], disk[g]} = {"cut"}, {f, g} \cap failed = {}
        PROVE  f = g
    <3>1. disk[f] = "cut" /\ disk[g] = "cut"
      BY <2>2
    <3>2. f \notin failed /\ g \notin failed
      BY <2>2
    <3> QED
      BY <2>1, <3>1, <3>2 DEF FixingInv
  <2> QED
    BY <2>1, <2>2 DEF FixingInv, FixesAreIndependent
<1> QED
  BY <1>1, <1>2, FixingStep, PTL DEF Spec

-----------------------------------------------------------------------------

LEMMA ColonsType ==
  ASSUME NEW s \in Seq(Nat), NEW t \in Seq(Nat)
  PROVE  Colons(s, t) \in Seq(Nat)
BY DEF Colons, Colon

LEMMA ColonsReading ==
  ASSUME NEW s \in Seq(Nat), NEW t \in Seq(Nat)
  PROVE  /\ Len(Colons(s, t)) = Len(s) + 1 + Len(t)
         /\ \A i \in 1..Len(s) : Colons(s, t)[i] = s[i]
         /\ Colons(s, t)[Len(s) + 1] = Colon
         /\ \A i \in 1..Len(t) : Colons(s, t)[Len(s) + 1 + i] = t[i]
<1> DEFINE h == s \o <<Colon>>
<1>1. h \in Seq(Nat) /\ Len(h) = Len(s) + 1
      /\ (\A i \in 1..Len(s) : h[i] = s[i]) /\ h[Len(s) + 1] = Colon
  BY DEF Colon
<1> HIDE DEF h
<1>15. h \in Seq(Nat)
  BY <1>1
<1>2. /\ Len(h \o t) = Len(h) + Len(t)
      /\ \A i \in 1..Len(h) : (h \o t)[i] = h[i]
      /\ \A i \in 1..Len(t) : (h \o t)[Len(h) + i] = t[i]
  BY ONLY <1>15, t \in Seq(Nat)
<1>3. Colons(s, t) = h \o t
  BY DEF Colons, h
<1>4. Len(s) + 1 \in 1..Len(h) /\ \A i \in 1..Len(s) : i \in 1..Len(h)
  BY <1>1
<1>5. /\ \A i \in 1..Len(s) : (h \o t)[i] = s[i]
      /\ (h \o t)[Len(s) + 1] = Colon
  BY <1>1, <1>2, <1>4
<1> QED
  BY <1>1, <1>2, <1>3, <1>5

\* A text joined from two is joined from no other two, but where one of the first
\* parts begins with the other and a colon.
LEMMA ColonsParts ==
  ASSUME NEW s \in Seq(Nat), NEW t \in Seq(Nat), NEW u \in Seq(Nat), NEW v \in Seq(Nat),
         Colons(s, u) = Colons(t, v), ~Heads(s, t), ~Heads(t, s)
  PROVE  s = t /\ u = v
<1> DEFINE j == Colons(s, u)
<1>1. /\ Len(j) = Len(s) + 1 + Len(u) /\ Len(j) = Len(t) + 1 + Len(v)
      /\ \A i \in 1..Len(s) : j[i] = s[i]
      /\ \A i \in 1..Len(t) : j[i] = t[i]
      /\ j[Len(s) + 1] = Colon /\ j[Len(t) + 1] = Colon
      /\ \A i \in 1..Len(u) : j[Len(s) + 1 + i] = u[i]
      /\ \A i \in 1..Len(v) : j[Len(t) + 1 + i] = v[i]
  <2>1. j = Colons(t, v)
    OBVIOUS
  <2>2. /\ Len(j) = Len(s) + 1 + Len(u)
        /\ \A i \in 1..Len(s) : j[i] = s[i]
        /\ j[Len(s) + 1] = Colon
        /\ \A i \in 1..Len(u) : j[Len(s) + 1 + i] = u[i]
    BY ColonsReading
  <2> HIDE DEF j
  <2>3. /\ Len(j) = Len(t) + 1 + Len(v)
        /\ \A i \in 1..Len(t) : j[i] = t[i]
        /\ j[Len(t) + 1] = Colon
        /\ \A i \in 1..Len(v) : j[Len(t) + 1 + i] = v[i]
    BY <2>1, ColonsReading
  <2> QED
    BY <2>2, <2>3
<1> HIDE DEF j
<1>15. /\ Len(s) \in Nat /\ Len(t) \in Nat /\ Len(u) \in Nat /\ Len(v) \in Nat
       /\ DOMAIN s = 1..Len(s) /\ DOMAIN t = 1..Len(t)
  OBVIOUS
<1>2. ~(Len(s) < Len(t))
  <2> SUFFICES ASSUME Len(s) < Len(t) PROVE FALSE
    OBVIOUS
  <2>0. Len(s) + 1 \in 1..Len(t) /\ \A i \in 1..Len(s) : i \in 1..Len(t)
    BY <1>15
  <2>1. t[Len(s) + 1] = Colon
    BY <1>1, <2>0
  <2>2. \A i \in DOMAIN s : s[i] = t[i]
    BY <1>1, <1>15, <2>0
  <2> QED
    BY <2>1, <2>2 DEF Heads
<1>3. ~(Len(t) < Len(s))
  <2> SUFFICES ASSUME Len(t) < Len(s) PROVE FALSE
    OBVIOUS
  <2>0. Len(t) + 1 \in 1..Len(s) /\ \A i \in 1..Len(t) : i \in 1..Len(s)
    BY <1>15
  <2>1. s[Len(t) + 1] = Colon
    BY <1>1, <2>0
  <2>2. \A i \in DOMAIN t : t[i] = s[i]
    BY <1>1, <1>15, <2>0
  <2> QED
    BY <2>1, <2>2 DEF Heads
<1>4. Len(s) = Len(t) /\ Len(u) = Len(v)
  <2>1. \A m, n \in Nat : ~(m < n) /\ ~(n < m) => m = n
    OBVIOUS
  <2>2. Len(s) = Len(t)
    BY <1>15, <1>2, <1>3, <2>1
  <2>3. \A k, m, n \in Nat : k + 1 + m = k + 1 + n => m = n
    OBVIOUS
  <2>4. Len(s) + 1 + Len(u) = Len(s) + 1 + Len(v)
    BY <1>1, <2>2
  <2> QED
    BY <1>15, <2>2, <2>3, <2>4
<1>5. \A i \in 1..Len(s) : s[i] = t[i]
  BY <1>1, <1>4
<1>6. \A i \in 1..Len(u) : u[i] = v[i]
  BY <1>1, <1>15, <1>4
<1>7. ASSUME NEW x \in Seq(Nat), NEW y \in Seq(Nat),
             Len(x) = Len(y), \A i \in 1..Len(x) : x[i] = y[i]
      PROVE  x = y
  <2>1. x = [i \in 1..Len(x) |-> x[i]] /\ y = [i \in 1..Len(y) |-> y[i]]
    BY ONLY x \in Seq(Nat), y \in Seq(Nat)
  <2> QED
    BY <1>7, <2>1
<1> QED
  BY <1>4, <1>5, <1>6, <1>7

\* Below line and column 55296 DedupeIssues confuses no two issues that differ
\* in file, line, column, checker or message: its key strings them together with
\* colons, one character for the line and one for the column (string(rune(n))),
\* and a message may have colons of its own.
THEOREM KeysAreExact ==
  ASSUME NEW a \in Issue, NEW b \in Issue, Ordinary(a), Key(a) = Key(b)
  PROVE  a.file = b.file /\ Same(a, b)
<1> DEFINE p == PathText[a.file]
           q == PathText[b.file]
           r(n) == <<RuneOf(n)>>
           c == NameText[a.checker]
           d == NameText[b.checker]
           m == NameText[a.message]
           n == NameText[b.message]
<1>1. /\ p \in Seq(Nat) /\ q \in Seq(Nat) /\ ~Heads(p, q) /\ ~Heads(q, p)
      /\ p = q => a.file = b.file
  BY SpellingAssumption, TextsAssumption DEF Issue
<1>2. /\ c \in Seq(Nat) /\ d \in Seq(Nat) /\ m \in Seq(Nat) /\ n \in Seq(Nat)
      /\ c = d => a.checker = b.checker
      /\ m = n => a.message = b.message
  BY SpellingAssumption, TextsAssumption DEF Issue
<1>3. ~Heads(c, d) /\ ~Heads(d, c)
  <2>1. ASSUME NEW s \in Seq(Nat), NEW t \in Seq(Nat),
               \A i \in DOMAIN t : t[i] # Colon
        PROVE  ~Heads(s, t)
    BY <2>1 DEF Heads
  <2>2. /\ \A i \in DOMAIN c : c[i] # Colon
        /\ \A i \in DOMAIN d : d[i] # Colon
    BY TextsAssumption DEF Issue
  <2> HIDE DEF c, d
  <2> QED
    BY <1>2, <2>1, <2>2
<1>4. /\ a.line \in Nat /\ a.column \in Nat /\ b.line \in Nat /\ b.column \in Nat
  BY DEF Issue
<1>5. \A k \in Nat : r(k) \in Seq(Nat) /\ Len(r(k)) = 1 /\ r(k)[1] = RuneOf(k)
  BY DEF RuneOf
<1>6. \A j, k \in Nat : ~Heads(r(j), r(k))
  BY <1>5 DEF Heads
<1>7. \A j, k \in Nat : j < 55296 /\ r(j) = r(k) => j = k
  <2>1. ASSUME NEW j \in Nat, NEW k \in Nat, j < 55296, RuneOf(j) = RuneOf(k)
        PROVE  j = k
    BY <2>1 DEF RuneOf
  <2> QED
    BY <1>5, <2>1
<1>8. Colons(p, Colons(r(a.line), Colons(r(a.column), Colons(c, m)))) =
      Colons(q, Colons(r(b.line), Colons(r(b.column), Colons(d, n))))
  BY DEF Key, KeyWithoutFile
<1> HIDE DEF p, q, r, c, d, m, n
<1>9. /\ Colons(c, m) \in Seq(Nat) /\ Colons(d, n) \in Seq(Nat)
      /\ Colons(r(a.column), Colons(c, m)) \in Seq(Nat)
      /\ Colons(r(b.column), Colons(d, n)) \in Seq(Nat)
      /\ Colons(r(a.line), Colons(r(a.column), Colons(c, m))) \in Seq(Nat)
      /\ Colons(r(b.line), Colons(r(b.column), Colons(d, n))) \in Seq(Nat)
  BY <1>2, <1>4, <1>5, ColonsType
<1>10. /\ p = q
       /\ Colons(r(a.line), Colons(r(a.column), Colons(c, m))) =
          Colons(r(b.line), Colons(r(b.column), Colons(d, n)))
  BY <1>1, <1>8, <1>9, ColonsParts
<1>105. /\ r(a.line) \in Seq(Nat) /\ r(b.line) \in Seq(Nat)
        /\ r(a.column) \in Seq(Nat) /\ r(b.column) \in Seq(Nat)
        /\ ~Heads(r(a.line), r(b.line)) /\ ~Heads(r(b.line), r(a.line))
        /\ ~Heads(r(a.column), r(b.column)) /\ ~Heads(r(b.column), r(a.column))
  BY <1>4, <1>5, <1>6
<1>11. /\ r(a.line) = r(b.line)
       /\ Colons(r(a.column), Colons(c, m)) = Colons(r(b.column), Colons(d, n))
  BY <1>9, <1>10, <1>105, ColonsParts
<1>12. r(a.column) = r(b.column) /\ Colons(c, m) = Colons(d, n)
  BY <1>9, <1>105, <1>11, ColonsParts
<1>13. c = d /\ m = n
  BY <1>2, <1>3, <1>12, ColonsParts
<1>14. a.line = b.line /\ a.column = b.column
  BY <1>4, <1>7, <1>11, <1>12 DEF Ordinary
<1> QED
  BY <1>1, <1>2, <1>10, <1>13, <1>14 DEF Same

-----------------------------------------------------------------------------
(* The command line. *)

\* A state of flag.Parse.
ParseStates ==
  [settings : [Flags -> STRING], pending : Flags \cup {None}, operands : Seq(STRING),
   ended : BOOLEAN, error : BOOLEAN]

LEMMA ValueType ==
  ASSUME NEW f, NEW v \in STRING, Accepts(f, v)
  PROVE  ValueFor(f, v) \in STRING
<1>1. \A x \in DOMAIN BoolTexts : BoolTexts[x] \in STRING
  <2>1. DOMAIN BoolTexts = {"true", "t", "false", "f"}
    BY DEF BoolTexts
  <2>2. /\ BoolTexts["true"] = "true" /\ BoolTexts["t"] = "true"
        /\ BoolTexts["false"] = "false" /\ BoolTexts["f"] = "false"
    BY DEF BoolTexts
  <2> QED
    BY <2>1, <2>2, LiteralsAssumption
<1>2. f \in BoolFlags => v \in DOMAIN BoolTexts
  BY DEF Accepts, BoolFlags, ValueFlags
<1> QED
  BY <1>1, <1>2 DEF ValueFor

LEMMA DefaultType == Default \in [Flags -> STRING]
BY LiteralsAssumption DEF Default

LEMMA ConfiguredType ==
  ASSUME NEW c \in Configs, c # Malformed
  PROVE  Configured(c) \in [Flags -> STRING]
<1>1. \A f \in DOMAIN c : c[f] \in STRING
  BY InputsAssumption
<1>2. \A f \in Flags : Default[f] \in STRING
  BY DefaultType
<1>3. \A f \in Flags : f \in DOMAIN c => SetTo(f, c[f]) \in STRING
  BY <1>1, ValueType, LiteralsAssumption DEF SetTo
<1> QED
  BY <1>2, <1>3 DEF Configured

LEMMA ArgumentType ==
  ASSUME NEW a \in Argument
  PROVE  /\ a = [option |-> a.option, flag |-> a.flag, value |-> a.value]
         /\ a.option \in BOOLEAN /\ a.flag \in STRING /\ a.value \in STRING \cup {None}
         /\ a.option \/ a.value # None
         /\ Text(a) \in STRING
<1>1. /\ a = [option |-> a.option, flag |-> a.flag, value |-> a.value]
      /\ a.option \in BOOLEAN /\ a.flag \in STRING /\ a.value \in STRING \cup {None}
      /\ a.option \/ a.value # None
  BY DEF Argument
<1> QED
  BY <1>1, LiteralsAssumption DEF Text

\* One argument keeps the type of the state.
LEMMA TakeType ==
  ASSUME NEW s \in ParseStates, NEW a \in Argument
  PROVE  Take(s, a) \in ParseStates
<1>1. /\ a.flag \in STRING /\ a.value \in STRING \cup {None} /\ Text(a) \in STRING
  BY ArgumentType
<1>2. \A o \in Seq(STRING) : Append(o, Text(a)) \in Seq(STRING) /\ <<Text(a)>> \in Seq(STRING)
  BY <1>1
<1>3. \A f \in Flags : \A v \in STRING : [s EXCEPT !.settings[f] = v] \in ParseStates
  BY DEF ParseStates
<1>4. \A f \in Flags : \A v \in STRING :
        [s EXCEPT !.settings[f] = v, !.pending = None] \in ParseStates
  BY DEF ParseStates
<1>5. [s EXCEPT !.error = TRUE] \in ParseStates
  BY DEF ParseStates
<1>6. [s EXCEPT !.ended = TRUE] \in ParseStates
  BY DEF ParseStates
<1>7. /\ [s EXCEPT !.operands = Append(@, Text(a))] \in ParseStates
      /\ [s EXCEPT !.ended = TRUE, !.operands = <<Text(a)>>] \in ParseStates
  BY <1>2 DEF ParseStates
<1>8. \A f \in Flags : [s EXCEPT !.pending = f] \in ParseStates
  BY DEF ParseStates
<1>9. s.pending # None => s.pending \in Flags
  BY DEF ParseStates
<1>10. TakeOption(s, a) \in ParseStates
  <2>1. a.value # None /\ Accepts(a.flag, a.value) => ValueFor(a.flag, a.value) \in STRING
    BY <1>1, ValueType
  <2>2. "true" \in STRING
    BY LiteralsAssumption
  <2>3. a.flag \in Flags => a.flag \in ValueFlags \/ a.flag \in BoolFlags
    BY DEF Flags
  <2>4. CASE a.flag \notin Flags
    <3>1. a.flag \notin ValueFlags /\ a.flag \notin BoolFlags
      BY <2>4 DEF Flags
    <3>2. TakeOption(s, a) = [s EXCEPT !.error = TRUE]
      BY <2>4, <3>1 DEF TakeOption
    <3> QED
      BY <1>5, <3>2
  <2>5. CASE a.flag \in Flags /\ a.value = None
    <3>1. TakeOption(s, a) = [s EXCEPT !.pending = a.flag]
          \/ TakeOption(s, a) = [s EXCEPT !.settings[a.flag] = "true"]
      BY <2>3, <2>5 DEF TakeOption
    <3> QED
      BY <1>3, <1>8, <2>2, <2>5, <3>1
  <2>6. CASE a.flag \in Flags /\ a.value # None
    <3>1. TakeOption(s, a) = IF Accepts(a.flag, a.value)
                             THEN [s EXCEPT !.settings[a.flag] = ValueFor(a.flag, a.value)]
                             ELSE [s EXCEPT !.error = TRUE]
      BY <2>6 DEF TakeOption
    <3> QED
      BY <1>3, <1>5, <2>1, <2>6, <3>1
  <2> QED
    BY <2>4, <2>5, <2>6
<1>11. s.pending # None => TakeValue(s, a) \in ParseStates
  BY <1>1, <1>4, <1>9 DEF TakeValue
<1> QED
  BY <1>6, <1>7, <1>10, <1>11 DEF Take

\* The loop of flag.Parse: state[k] is where it stands after k arguments.
Parsing(list, s0, state) ==
  /\ state \in [0..Len(list) -> ParseStates]
  /\ state[0] = Start(s0)
  /\ \A k \in 1..Len(list) : state[k] = Take(state[k - 1], list[k])

LEMMA ParseRun ==
  ASSUME NEW list \in Seq(Argument), NEW s0 \in [Flags -> STRING]
  PROVE  \E state : /\ Parsing(list, s0, state)
                   /\ Parsed(list, s0) =
                        [state[Len(list)] EXCEPT !.error = @ \/ state[Len(list)].pending # None]
<1> DEFINE N == Len(list)
           Turn(f, k) == IF k = 0 THEN Start(s0) ELSE Take(f[k - 1], list[k])
           Equation(f) == f = [k \in 0..N |-> Turn(f, k)]
           F == CHOOSE f : Equation(f)
<1>1. N \in Nat /\ \A k \in 1..N : list[k] \in Argument
  OBVIOUS
<1>2. Start(s0) \in ParseStates
  BY DEF Start, ParseStates
<1>3. Parsed(list, s0) = [F[N] EXCEPT !.error = @ \/ F[N].pending # None]
  BY DEF Parsed
<1> HIDE DEF N
<1>4. \E f : Equation(f)
  <2> DEFINE step == [k \in 1..N |-> [v \in ParseStates |-> Take(v, list[k])]]
  <2>1. step \in [1..N -> [ParseStates -> ParseStates]]
    BY <1>1, TakeType
  <2>2. \A k \in 1..N : \A v \in ParseStates : step[k][v] = Take(v, list[k])
    OBVIOUS
  <2> HIDE DEF step
  <2>3. PICK f \in [0..N -> ParseStates] : LoopRun(N, Start(s0), step, f)
    BY <1>1, <1>2, <2>1, LoopStates
  <2>4. ASSUME NEW k \in 0..N PROVE f[k] = Turn(f, k)
    <3>1. CASE k = 0
      BY <2>3, <3>1 DEF LoopRun
    <3>2. CASE k # 0
      <4>1. k \in 1..N /\ k - 1 \in 0..N /\ f[k - 1] \in ParseStates
        BY <1>1, <3>2
      <4> QED
        BY <2>2, <2>3, <3>2, <4>1 DEF LoopRun
    <3> QED
      BY <3>1, <3>2
  <2>5. Equation(f)
    <3> HIDE DEF Turn
    <3> QED
      BY <2>4
  <2> HIDE DEF Equation
  <2> QED
    BY <2>5
<1>5. Equation(F)
  <2> HIDE DEF Equation
  <2> QED
    BY <1>4
<1>6. DOMAIN F = 0..N /\ \A k \in 0..N : F[k] = Turn(F, k)
  <2> HIDE DEF F, Turn
  <2> QED
    BY <1>5
<1>7. F = [k \in 0..N |-> F[k]]
  <2> HIDE DEF F
  <2>1. F = [k \in 0..N |-> Turn(F, k)]
    BY <1>5
  <2> HIDE DEF Turn
  <2> QED
    BY <2>1
<1> HIDE DEF F, Equation
<1>8. F[0] = Start(s0)
  BY <1>1, <1>6
<1>9. \A k \in 1..N : F[k] = Take(F[k - 1], list[k])
  BY <1>1, <1>6
<1>10. \A k \in 0..N : F[k] \in ParseStates
  <2> DEFINE T == {k \in 1..N : F[k] \in ParseStates}
  <2>1. N # 0 => 1 \in T
    <3> SUFFICES ASSUME N # 0 PROVE 1 \in T
      OBVIOUS
    <3>1. 1 \in 1..N
      BY <1>1
    <3>2. F[1] = Take(F[0], list[1])
      BY <1>9, <3>1
    <3> QED
      BY <1>1, <1>2, <1>8, <3>1, <3>2, TakeType
  <2>2. ASSUME NEW n \in 1..N, n \in T, n + 1 \in 1..N PROVE n + 1 \in T
    <3>1. PICK m \in 1..N : m = n + 1
      BY <2>2
    <3>2. m - 1 = n
      BY <3>1
    <3>3. F[m] = Take(F[n], list[m])
      BY <1>9, <3>2
    <3>4. F[m] \in ParseStates
      BY <1>1, <2>2, <3>3, TakeType
    <3> QED
      BY <3>1, <3>4
  <2>3. \A n \in 1..N : n \in T
    <3> HIDE DEF T
    <3> QED
      BY <1>1, <2>1, <2>2, AllPositions
  <2> QED
    BY <1>1, <1>2, <1>8, <2>3
<1>11. F \in [0..N -> ParseStates]
  BY <1>7, <1>10
<1>12. Parsing(list, s0, F)
  BY <1>8, <1>9, <1>11 DEF Parsing, N
<1> QED
  BY <1>3, <1>12 DEF N

\* The arguments that normalizeSpacedBoolFlags keeps, at the positions p: the
\* first, and after each the next that is not its value.
After(list, i) == IF TakesNext(list, i) THEN i + 2 ELSE i + 1

Reading(list, norm, p) ==
  /\ p \in [1..Len(norm) -> 1..Len(list)]
  /\ \A k \in 1..Len(norm) : norm[k] = Merged(list)[p[k]]
  /\ Len(norm) # 0 => p[1] = 1 /\ After(list, p[Len(norm)]) = Len(list) + 1
  /\ Len(norm) = 0 => Len(list) = 0
  /\ \A k \in 1..Len(norm) : k + 1 \in 1..Len(norm) => p[k + 1] = After(list, p[k])

LEMMA MergedType ==
  ASSUME NEW list \in Seq(Argument)
  PROVE  /\ DOMAIN Merged(list) = 1..Len(list)
         /\ \A i \in 1..Len(list) : Merged(list)[i] \in Argument
<1>1. DOMAIN list = 1..Len(list) /\ \A i \in 1..Len(list) : list[i] \in Argument
  OBVIOUS
<1>2. ASSUME NEW i \in 1..Len(list), TakesNext(list, i)
      PROVE  Option(list[i].flag, list[i + 1].value) \in Argument
  <2>1. i + 1 \in 1..Len(list)
    BY <1>2 DEF TakesNext
  <2>2. list[i] \in Argument /\ list[i + 1] \in Argument
    BY <1>1, <2>1
  <2>3. list[i].flag \in STRING /\ list[i + 1].value \in STRING \cup {None}
    BY <2>2, ArgumentType
  <2> QED
    BY <2>3 DEF Option, Argument
<1> QED
  BY <1>1, <1>2 DEF Merged

LEMMA NormalizedReading ==
  ASSUME NEW list \in Seq(Argument)
  PROVE  /\ Normalized(list) \in Seq(Argument)
         /\ \E p : Reading(list, Normalized(list), p)
<1> DEFINE n == Len(list)
           S == {i \in DOMAIN list : i = 1 \/ ~TakesNext(list, i - 1)}
           norm == Normalized(list)
<1>1. n \in Nat /\ DOMAIN list = 1..n /\ S \in SUBSET (1..n)
  OBVIOUS
<1>2. norm = At(Merged(list), S)
  BY DEF Normalized
<1>3. DOMAIN Merged(list) = 1..n /\ \A i \in 1..n : Merged(list)[i] \in Argument
  BY MergedType
<1>4. /\ n # 0 => 1 \in S
      /\ \A i \in 1..n : i # 1 => (i \in S <=> ~TakesNext(list, i - 1))
  BY <1>1
<1>5. ASSUME NEW i \in 1..n PROVE ~(TakesNext(list, i) /\ TakesNext(list, i + 1))
  BY DEF TakesNext
<1>6. \A i \in 1..n : TakesNext(list, i) => i + 1 \in 1..n
  BY <1>1 DEF TakesNext
<1> HIDE DEF n, S, norm
<1>7. PICK p \in [1..Cardinality(S) -> S] :
        /\ Cardinality(S) \in Nat
        /\ DOMAIN norm = 1..Cardinality(S)
        /\ \A k \in 1..Cardinality(S) : norm[k] = Merged(list)[p[k]]
        /\ \A j, k \in 1..Cardinality(S) : j < k => p[j] < p[k]
        /\ \A i \in S : \E k \in 1..Cardinality(S) : p[k] = i
  BY <1>1, <1>2, <1>3, AtElements
<1> DEFINE N == Cardinality(S)
<1>8. norm \in Seq(Argument) /\ Len(norm) = N
  <2>1. \A k \in 1..N : norm[k] \in Argument
    BY <1>1, <1>3, <1>7
  <2>2. norm = [k \in 1..N |-> norm[k]]
    BY <1>2, <1>7 DEF At
  <2> HIDE DEF N
  <2>3. norm \in [1..N -> Argument]
    BY <2>1, <2>2
  <2> QED
    BY <1>7, <2>3 DEF N
<1>9. \A k \in 1..N : p[k] \in S /\ p[k] \in 1..n
  BY <1>1, <1>7
<1> HIDE DEF N
\* Nothing that is kept lies between two that follow each other.
<1>10. ASSUME NEW i \in 1..n, NEW k \in 1..N, i > p[k], k + 1 \in 1..N => i < p[k + 1]
       PROVE  i \notin S
  <2> SUFFICES ASSUME i \in S PROVE FALSE
    OBVIOUS
  <2>1. PICK j \in 1..N : p[j] = i
    BY <1>7 DEF N
  <2>2. \A a, b \in 1..N : a < b => p[a] < p[b]
    BY <1>7 DEF N
  <2>3. N \in Nat /\ p[j] \in Nat /\ p[k] \in Nat
    BY <1>1, <1>7, <1>9 DEF N
  <2>4. j > k
    <3>1. j = k \/ j < k \/ j > k
      BY <2>3
    <3> QED
      BY <1>10, <2>1, <2>2, <2>3, <3>1
  <2>5. k + 1 \in 1..N /\ (j = k + 1 \/ k + 1 < j)
    BY <2>3, <2>4
  <2>6. p[k + 1] \in Nat /\ ~(p[j] < p[k + 1])
    BY <1>1, <1>9, <2>2, <2>3, <2>5
  <2> QED
    BY <1>10, <2>1, <2>5, <2>6
<1>11. ASSUME NEW k \in 1..N
       PROVE  /\ k + 1 \in 1..N => p[k + 1] = After(list, p[k])
              /\ k + 1 \notin 1..N => After(list, p[k]) = n + 1
  <2> DEFINE i == p[k]
             a == After(list, i)
  <2>1. i \in 1..n /\ n \in Nat
    BY <1>1, <1>9
  <2>2. a \in 1..n => a \in S
    <3>1. CASE TakesNext(list, i)
      <4>1. a = i + 2 /\ ~TakesNext(list, i + 1)
        BY <1>5, <2>1, <3>1 DEF After
      <4> HIDE DEF a, i
      <4>2. a # 1 /\ a - 1 = i + 1
        BY <2>1, <4>1
      <4> QED
        BY <1>4, <4>1, <4>2
    <3>2. CASE ~TakesNext(list, i)
      <4>1. a = i + 1
        BY <3>2 DEF After
      <4> HIDE DEF a, i
      <4>2. a # 1 /\ a - 1 = i
        BY <2>1, <4>1
      <4> QED
        BY <1>4, <3>2, <4>2
    <3> QED
      BY <3>1, <3>2
  <2>3. a \in 1..(n + 1)
    <3>1. TakesNext(list, i) => i + 1 \in 1..n
      BY <1>6, <2>1
    <3> HIDE DEF i
    <3> QED
      BY <2>1, <3>1 DEF After
  <2>4. \A j \in 1..n : i < j /\ j < a => j \notin S
    <3> SUFFICES ASSUME NEW j \in 1..n, i < j, j < a PROVE j \notin S
      OBVIOUS
    <3> HIDE DEF i
    <3>1. TakesNext(list, i) /\ j = i + 1
      BY <2>1 DEF After
    <3>2. j # 1 /\ j - 1 = i
      BY <2>1, <3>1
    <3> QED
      BY <1>4, <3>1, <3>2
  <2>5. i < a
    <3> HIDE DEF i
    <3> QED
      BY <2>1 DEF After
  <2>6. ASSUME k + 1 \in 1..N PROVE p[k + 1] = a
    <3>1. p[k + 1] \in S /\ p[k + 1] \in 1..n /\ i < p[k + 1]
      <4>1. k < k + 1
        OBVIOUS
      <4> QED
        BY <1>7, <1>9, <2>6, <4>1 DEF N
    <3>2. ~(p[k + 1] < a)
      BY <2>4, <3>1
    <3>3. ~(a < p[k + 1])
      <4> SUFFICES ASSUME a < p[k + 1] PROVE FALSE
        OBVIOUS
      <4> HIDE DEF a
      <4>1. a \in 1..n
        BY <2>1, <2>3, <3>1
      <4> QED
        BY <1>10, <2>2, <2>5, <4>1
    <3> HIDE DEF a, i
    <3> QED
      BY <2>1, <2>3, <3>1, <3>2, <3>3
  <2>7. ASSUME k + 1 \notin 1..N PROVE a = n + 1
    <3> SUFFICES ASSUME a # n + 1 PROVE FALSE
      OBVIOUS
    <3> HIDE DEF a
    <3>1. a \in 1..n
      BY <2>1, <2>3
    <3> QED
      BY <1>10, <2>2, <2>5, <2>7, <3>1
  <2> QED
    BY <2>6, <2>7
<1>12. N # 0 => p[1] = 1 /\ After(list, p[N]) = n + 1
  <2> SUFFICES ASSUME N # 0 PROVE p[1] = 1 /\ After(list, p[N]) = n + 1
    OBVIOUS
  <2>1. N \in Nat /\ 1 \in 1..N /\ N \in 1..N /\ N + 1 \notin 1..N
    BY <1>7 DEF N
  <2>2. n # 0 /\ 1 \in 1..n /\ 1 \in S
    BY <1>1, <1>4, <1>9, <2>1
  <2>3. PICK k \in 1..N : p[k] = 1
    BY <1>7, <2>2 DEF N
  <2>4. k = 1
    <3> SUFFICES ASSUME k # 1 PROVE FALSE
      OBVIOUS
    <3>1. 1 < k
      OBVIOUS
    <3>2. p[1] < p[k] /\ p[1] \in 1..n
      BY <1>7, <1>9, <2>1, <3>1 DEF N
    <3> QED
      BY <2>3, <3>2
  <2> QED
    BY <1>11, <2>1, <2>3, <2>4
<1>13. N = 0 => n = 0
  <2> SUFFICES ASSUME N = 0, n # 0 PROVE FALSE
    OBVIOUS
  <2>1. 1 \in S
    BY <1>4
  <2> QED
    BY <1>7, <2>1 DEF N
<1>14. p \in [1..N -> 1..n]
  BY <1>7, <1>9 DEF N
<1>15. Reading(list, norm, p)
  <2>1. \A k \in 1..N : norm[k] = Merged(list)[p[k]]
    BY <1>7 DEF N
  <2> QED
    BY <1>8, <1>11, <1>12, <1>13, <1>14, <2>1 DEF Reading, n
<1> QED
  BY <1>8, <1>15 DEF norm

-----------------------------------------------------------------------------
(* Types. *)

LEMMA ParsedType ==
  ASSUME NEW list \in Seq(Argument), NEW s0 \in [Flags -> STRING]
  PROVE  Parsed(list, s0) \in ParseStates
<1>1. PICK state : /\ Parsing(list, s0, state)
                   /\ Parsed(list, s0) =
                        [state[Len(list)] EXCEPT !.error = @ \/ state[Len(list)].pending # None]
  BY ParseRun
<1>2. state[Len(list)] \in ParseStates
  BY <1>1 DEF Parsing
<1> HIDE DEF ParseStates
<1> DEFINE last == state[Len(list)]
<1>3. \A x \in ParseStates : [x EXCEPT !.error = @ \/ x.pending # None] \in ParseStates
  BY DEF ParseStates
<1> QED
  BY <1>1, <1>2, <1>3

LEMMA LocatedType ==
  ASSUME NEW f \in Files \cup {Stdin}, NEW finding \in Finding
  PROVE  /\ Located(f, finding) \in Issue
         /\ Located(f, finding).file = f
         /\ Located(f, finding).checker = finding.checker
<1>1. DOMAIN finding = {"line", "column", "checker", "severity", "message", "typed",
                        "fix", "note"}
  BY DEF Finding
<1> QED
  BY <1>1 DEF Located, Finding, Issue

LEMMA BatchType ==
  ASSUME NEW f \in Files \cup {Stdin}, NEW batch \in Seq(Finding)
  PROVE  BatchOf(f, batch) \in Seq(Issue)
<1> DEFINE s == [k \in DOMAIN batch |-> Located(f, batch[k])]
           S == {k \in DOMAIN batch : batch[k].checker \in checkers}
<1>1. s \in Seq(Issue)
  <2>1. DOMAIN batch = 1..Len(batch) /\ Len(batch) \in Nat
        /\ \A k \in DOMAIN batch : batch[k] \in Finding
    OBVIOUS
  <2>2. s \in [1..Len(batch) -> Issue]
    BY <2>1, LocatedType
  <2> QED
    BY <2>1, <2>2
<1>2. S \in SUBSET DOMAIN s
  OBVIOUS
<1> HIDE DEF s, S
<1>3. At(s, S) \in Seq(Issue)
  BY <1>1, <1>2, AtType
<1> QED
  BY <1>3 DEF BatchOf, s, S

LEMMA NarrowedType ==
  ASSUME NEW list \in Seq(Issue), NEW min, NEW only, NEW lines
  PROVE  Narrowed(list, min, only, lines) \in Seq(Issue)
<1> DEFINE S == {k \in DOMAIN list : Severe(list[k], min) /\ (only => Changed(list[k], lines))}
           a == At(list, S)
           D == {k \in DOMAIN a : \A j \in 1..(k - 1) : Key(a[j]) # Key(a[k])}
<1>1. S \in SUBSET DOMAIN list
  OBVIOUS
<1> HIDE DEF S
<1>2. a \in Seq(Issue)
  BY <1>1, AtType
<1> HIDE DEF a
<1>3. D \in SUBSET DOMAIN a
  OBVIOUS
<1> HIDE DEF D
<1>4. At(a, D) \in Seq(Issue)
  BY <1>2, <1>3, AtType
<1> QED
  BY <1>4 DEF Narrowed, DedupeIssues, a, D, S

LEMMA ApplyGoVersionType ==
  ASSUME NEW list \in Seq(Issue), NEW v
  PROVE  /\ ApplyGoVersion(list, v) \in Seq(Issue)
         /\ Len(ApplyGoVersion(list, v)) = Len(list)
<1>1. ASSUME NEW iss \in Issue PROVE WithVersion(iss, v) \in Issue
  <2>1. [iss EXCEPT !.note = TRUE, !.typed = @ /\ iss.checker # "AtomicMutex"] \in Issue
    BY DEF Issue
  <2> QED
    BY <2>1 DEF WithVersion
<1>2. DOMAIN list = 1..Len(list) /\ Len(list) \in Nat
      /\ \A k \in 1..Len(list) : list[k] \in Issue
  OBVIOUS
<1>3. ApplyGoVersion(list, v) \in [1..Len(list) -> Issue]
  BY <1>1, <1>2 DEF ApplyGoVersion
<1> QED
  BY <1>2, <1>3

LEMMA SortingsType ==
  ASSUME NEW list \in Seq(Issue), NEW s \in Sortings(list)
  PROVE  s \in Seq(Issue)
<1>1. PICK p \in [DOMAIN list -> DOMAIN list] : s = [k \in DOMAIN list |-> list[p[k]]]
  BY DEF Sortings
<1>2. DOMAIN list = 1..Len(list) /\ Len(list) \in Nat
      /\ \A k \in 1..Len(list) : list[k] \in Issue
  OBVIOUS
<1>3. s \in [1..Len(list) -> Issue]
  BY <1>1, <1>2
<1> QED
  BY <1>2, <1>3

\* A set of files is finite, so it has an order.
LEMMA FilesFinite ==
  /\ \E N \in Nat : Files = 1..N
  /\ Stdin \notin Files
  /\ \A S \in SUBSET (Files \cup {Stdin}) : IsFiniteSet(S) /\ Cardinality(S) \in Nat
<1>1. PICK N \in Nat : Files = 1..N
  BY InputsAssumption DEF Files
<1>2. Stdin \notin Files
  BY <1>1 DEF Stdin
<1>3. IsFiniteSet(Files \cup {Stdin})
  <2>1. 1 \in Int /\ N \in Int
    OBVIOUS
  <2>2. IsFiniteSet(Files)
    BY <1>1, <2>1, FS_Interval
  <2> QED
    BY <2>2, FS_AddElement
<1>4. ASSUME NEW S \in SUBSET (Files \cup {Stdin})
      PROVE  IsFiniteSet(S) /\ Cardinality(S) \in Nat
  <2>1. IsFiniteSet(S)
    BY <1>3, FS_Subset
  <2> QED
    BY <2>1, FS_CardinalityType
<1> QED
  BY <1>1, <1>2, <1>4

TypeInv == TypeOK /\ args \in Arguments /\ config \in Configs

LEMMA TypeInit == Init => TypeInv
<1>1. Default \in [Flags -> STRING] /\ << >> \in Seq(STRING) /\ << >> \in Seq(Issue)
  BY DefaultType
<1>2. << >> \in [DOMAIN << >> -> Seq(Issue)]
  OBVIOUS
<1>3. [f \in Files |-> "old"] \in [Files -> {"old", "cut", "new"}]
  OBVIOUS
<1> QED
  BY <1>1, <1>2, <1>3 DEF Init, TypeInv, TypeOK

\* Every action keeps the types.
LEMMA TypeStep == TypeInv /\ [Next]_vars => TypeInv'
<1> SUFFICES ASSUME TypeInv, [Next]_vars PROVE TypeInv'
  OBVIOUS
<1> USE DEF Exit, Go, input, setting, choice, found, fixing
<1>1. CASE LoadConfig
  <2>1. settings' \in [Flags -> STRING]
    BY <1>1, ConfiguredType DEF LoadConfig, TypeInv, TypeOK
  <2> QED
    BY <1>1, <2>1 DEF LoadConfig, TypeInv, TypeOK
<1>2. CASE ParseArguments
  <2>1. args \in Seq(Argument) /\ settings \in [Flags -> STRING]
    BY InputsAssumption DEF TypeInv, TypeOK
  <2>2. Parsed(Normalized(args), settings) \in ParseStates
    BY <2>1, NormalizedReading, ParsedType
  <2>3. settings' \in [Flags -> STRING] /\ operands' \in Seq(STRING)
    <3>1. \A s \in ParseStates : s.settings \in [Flags -> STRING] /\ s.operands \in Seq(STRING)
      BY DEF ParseStates
    <3> QED
      BY <1>2, <2>2, <3>1 DEF ParseArguments, TypeInv, TypeOK
  <2> QED
    BY <1>2, <2>3 DEF ParseArguments, TypeInv, TypeOK
<1>3. CASE Dispatch
  BY <1>3 DEF Dispatch, TypeInv, TypeOK
<1>4. CASE Select
  <2>1. checkers' \subseteq AllCheckers
    <3>1. \A c, g : SelectedCheckers(c, g) \subseteq AllCheckers
      BY DEF SelectedCheckers, CheckersForGroup
    <3> QED
      BY <1>4, <3>1 DEF Select
  <2> QED
    BY <1>4, <2>1 DEF Select, TypeInv, TypeOK
<1>5. CASE ReadStdin
  BY <1>5 DEF ReadStdin, TypeInv, TypeOK
<1>6. CASE CollectFile
  BY <1>6 DEF CollectFile, NamedFile, TypeInv, TypeOK
<1>7. CASE CollectStaged
  BY <1>7 DEF CollectStaged, TypeInv, TypeOK
<1>8. CASE CollectDiff
  BY <1>8 DEF CollectDiff, TypeInv, TypeOK
<1>9. CASE Walk
  BY <1>9 DEF Walk, TypeInv, TypeOK
<1>10. CASE Audit \/ WriteReport
  BY <1>10 DEF Audit, WriteReport, TypeInv, TypeOK
<1>11. CASE Scan
  <2>1. PICK b \in [paths -> IF Len(args) <= Narrow THEN Batches ELSE {<<>>}],
             order \in SetToSeqs(paths) :
               /\ batches' = [f \in paths |-> BatchOf(f, b[f])]
               /\ raw' = FlattenSeq([k \in DOMAIN order |-> batches'[order[k]]])
    BY <1>11 DEF Scan
  <2>2. \A f \in paths : b[f] \in Seq(Finding)
    <3>1. << >> \in Seq(Finding)
      OBVIOUS
    <3> QED
      BY <2>1, <3>1, InputsAssumption
  <2>3. \A f \in paths : BatchOf(f, b[f]) \in Seq(Issue)
    BY <2>2, BatchType DEF TypeInv, TypeOK
  <2>4. batches' \in [paths -> Seq(Issue)]
    BY <2>1, <2>3
  <2>5. raw' \in Seq(Issue)
    <3> DEFINE N == Cardinality(paths)
               ss == [k \in DOMAIN order |-> batches'[order[k]]]
    <3>1. N \in Nat
      BY FilesFinite DEF TypeInv, TypeOK
    <3>2. order \in [1..N -> paths]
      BY <2>1 DEF SetToSeqs
    <3> HIDE DEF N
    <3>3. ss \in [1..N -> Seq(Issue)]
      BY <2>4, <3>2
    <3> HIDE DEF ss
    <3>4. FlattenSeq(ss) \in Seq(Issue)
      BY <3>1, <3>3, FlattenElements
    <3> QED
      BY <2>1, <3>4 DEF ss
  <2> QED
    BY <1>11, <2>4, <2>5 DEF Scan, TypeInv, TypeOK
<1>12. CASE NarrowDown
  <2>1. report' \in Seq(Issue)
    <3> DEFINE narrowed == Narrowed(raw, ParseSeverity(settings["severity"]), On("git-diff"),
                                    changedLines)
    <3>1. narrowed \in Seq(Issue)
      BY NarrowedType DEF TypeInv, TypeOK
    <3>2. report' \in Sortings(ApplyGoVersion(narrowed, goVersion))
      BY <1>12 DEF NarrowDown
    <3> HIDE DEF narrowed
    <3> QED
      BY <3>1, <3>2, ApplyGoVersionType, SortingsType
  <2> QED
    BY <1>12, <2>1 DEF NarrowDown, TypeInv, TypeOK
<1>13. CASE GroupByFile
  BY <1>13 DEF GroupByFile, TypeInv, TypeOK
<1>14. CASE LeaveFile
  BY <1>14 DEF LeaveFile, TypeInv, TypeOK
<1>15. CASE StartWrite
  <2>1. disk' \in [Files -> {"old", "cut", "new"}]
    BY <1>15 DEF StartWrite, TypeInv, TypeOK
  <2> QED
    BY <1>15, <2>1 DEF StartWrite, TypeInv, TypeOK
<1>16. CASE FinishWrite
  <2>1. PICK f \in todo :
          /\ disk[f] = "cut"
          /\ todo' = todo \ {f}
          /\ \/ disk' = [disk EXCEPT ![f] = "new"] /\ failed' = failed
             \/ failed' = failed \cup {f} /\ disk' = disk
    BY <1>16 DEF FinishWrite
  <2>2. disk' \in [Files -> {"old", "cut", "new"}] /\ failed' \subseteq Files
        /\ todo' \subseteq Files
    BY <2>1 DEF TypeInv, TypeOK
  <2> QED
    BY <1>16, <2>2 DEF FinishWrite, TypeInv, TypeOK
<1>17. CASE EndFix \/ Kill
  BY <1>17 DEF EndFix, Kill, TypeInv, TypeOK
<1>18. CASE UNCHANGED vars
  BY <1>18 DEF vars, TypeInv, TypeOK
<1> QED
  BY <1>1, <1>2, <1>3, <1>4, <1>5, <1>6, <1>7, <1>8, <1>9, <1>10, <1>11, <1>12, <1>13,
     <1>14, <1>15, <1>16, <1>17, <1>18 DEF Next

\* Every variable keeps its type, for command lines, configurations, trees and
\* batches of any size: what the flags become is a text or "true" or "false", and
\* what is reported are issues of the files of the run (main.go).
THEOREM TypeCorrect == Spec => []TypeOK
<1>1. TypeInv => TypeOK
  BY DEF TypeInv
<1> QED
  BY <1>1, TypeInit, TypeStep, PTL DEF Spec

-----------------------------------------------------------------------------
(* What a command line means and what flag.Parse makes of it. *)

\* An argument that does not end the options.
Readable(list, j) == IsValue(list, j) \/ (list[j].option /\ list[j].flag # "")

\* What is meant for f by the arguments before position n.
GivenBelow(list, n, f) == {i \in Options(list) : i < n /\ list[i].flag = f}

IntendedBelow(list, s0, n, f) ==
  LET given == GivenBelow(list, n, f)
  IN  IF given = {} THEN s0[f] ELSE Meant(list, Max(given))

\* How far flag.Parse has come when argument b is the next to read: it is past the
\* options, between two of them, or waits for the value of one.
Ended(list, s0, b, s) ==
  /\ s.ended /\ s.pending = None
  /\ \E e \in 1..(b - 1) : ~Readable(list, e)
  /\ \A f \in Flags : s.settings[f] = IntendedBelow(list, s0, Len(list) + 1, f)

Between(list, s0, b, s) ==
  /\ ~s.ended /\ s.pending = None
  /\ \A j \in 1..(b - 1) : Readable(list, j)
  /\ ~IsValue(list, b)
  /\ \A f \in Flags : s.settings[f] = IntendedBelow(list, s0, b, f)

Waiting(list, s0, b, s) ==
  /\ ~s.ended
  /\ \E i \in 1..Len(list) :
       /\ b = i + 1 /\ ~IsValue(list, i) /\ ~TakesNext(list, i)
       /\ list[i].option /\ list[i].flag \in ValueFlags /\ list[i].value = None
       /\ s.pending = list[i].flag /\ s.pending # None
       /\ \A f \in Flags : s.settings[f] = IntendedBelow(list, s0, i, f)
  /\ \A j \in 1..(b - 1) : Readable(list, j)

MeansSo(list, s0, b, s) ==
  s.error \/ Ended(list, s0, b, s) \/ Between(list, s0, b, s) \/ Waiting(list, s0, b, s)

LEMMA OptionsType ==
  ASSUME NEW list \in Seq(Argument)
  PROVE  /\ Options(list) \subseteq 1..Len(list)
         /\ \A i \in 1..Len(list) :
              i \in Options(list) <=> ~IsValue(list, i) /\ \A j \in 1..i : Readable(list, j)
<1>1. DOMAIN list = 1..Len(list)
  OBVIOUS
<1>2. \A i \in DOMAIN list :
        i \in Options(list) <=> ~IsValue(list, i) /\ \A j \in 1..i : Readable(list, j)
  BY DEF Options, Readable
<1>3. Options(list) \subseteq DOMAIN list
  BY DEF Options
<1> QED
  BY <1>1, <1>2, <1>3

\* The next argument is an option: it counts from now on.
LEMMA AddOption ==
  ASSUME NEW list \in Seq(Argument), NEW s0, NEW i \in Options(list), NEW f
  PROVE  IntendedBelow(list, s0, i + 1, f) =
           IF f = list[i].flag THEN Meant(list, i) ELSE IntendedBelow(list, s0, i, f)
<1>1. Options(list) \subseteq Nat
  <2>1. Options(list) \subseteq 1..Len(list) /\ Len(list) \in Nat
    BY OptionsType
  <2> QED
    BY <2>1
<1>2. CASE f = list[i].flag
  <2>1. i \in GivenBelow(list, i + 1, f)
    BY <1>1, <1>2 DEF GivenBelow
  <2>2. \A j \in GivenBelow(list, i + 1, f) : j \in Nat /\ j <= i
    BY <1>1 DEF GivenBelow
  <2> DEFINE last == Max(GivenBelow(list, i + 1, f))
  <2>3. last \in GivenBelow(list, i + 1, f) /\ i <= last
    <3> HIDE DEF GivenBelow
    <3>1. \E k \in GivenBelow(list, i + 1, f) : \A j \in GivenBelow(list, i + 1, f) : k >= j
      BY <1>1, <2>1, <2>2
    <3> QED
      BY <1>1, <2>1, <2>2, <3>1 DEF Max
  <2>4. last = i
    <3> HIDE DEF last
    <3> QED
      BY <1>1, <2>2, <2>3
  <2> QED
    BY <1>2, <2>1, <2>4 DEF IntendedBelow
<1>3. CASE f # list[i].flag
  <2>1. GivenBelow(list, i + 1, f) = GivenBelow(list, i, f)
    <3>1. \A j \in Options(list) : list[j].flag = f => (j < i + 1 <=> j < i)
      <4>1. \A j \in Options(list) : j \in Nat
        BY <1>1
      <4> QED
        BY <1>1, <1>3, <4>1
    <3> QED
      BY <3>1 DEF GivenBelow
  <2> QED
    BY <1>3, <2>1 DEF IntendedBelow
<1> QED
  BY <1>2, <1>3

\* The next argument is none: nothing changes.
LEMMA SkipArgument ==
  ASSUME NEW list \in Seq(Argument), NEW s0, NEW i \in Nat, i \notin Options(list), NEW f
  PROVE  IntendedBelow(list, s0, i + 1, f) = IntendedBelow(list, s0, i, f)
<1>1. \A j \in Options(list) : j \in Nat
  <2>1. Options(list) \subseteq 1..Len(list) /\ Len(list) \in Nat
    BY OptionsType
  <2> QED
    BY <2>1
<1>2. GivenBelow(list, i + 1, f) = GivenBelow(list, i, f)
  <2>1. \A j \in Options(list) : j < i + 1 <=> j < i
    BY <1>1
  <2> QED
    BY <2>1 DEF GivenBelow
<1> QED
  BY <1>2 DEF IntendedBelow

\* Behind the first argument that ends the options there is none.
LEMMA NoneBehind ==
  ASSUME NEW list \in Seq(Argument), NEW s0, NEW i \in 1..Len(list), ~Readable(list, i), NEW f
  PROVE  IntendedBelow(list, s0, Len(list) + 1, f) = IntendedBelow(list, s0, i, f)
<1>1. /\ \A j \in Options(list) : j \in 1..Len(list) /\ i \notin 1..j
      /\ Len(list) \in Nat
  BY OptionsType
<1>2. \A j \in Options(list) : j < Len(list) + 1 <=> j < i
  BY <1>1
<1>3. GivenBelow(list, Len(list) + 1, f) = GivenBelow(list, i, f)
  BY <1>2 DEF GivenBelow
<1> QED
  BY <1>3 DEF IntendedBelow

\* The cases of Take, one by one.
LEMMA TakeCases ==
  ASSUME NEW s \in ParseStates, NEW a \in Argument
  PROVE  /\ s.error => Take(s, a).error
         /\ ~s.error /\ s.ended =>
              /\ ~Take(s, a).error /\ Take(s, a).ended /\ Take(s, a).pending = s.pending
              /\ Take(s, a).settings = s.settings
         /\ ~s.error /\ ~s.ended /\ s.pending # None => Take(s, a) = TakeValue(s, a)
         /\ /\ ~s.error /\ ~s.ended /\ s.pending = None
            /\ ~a.option \/ a = Option("", None)
            => /\ ~Take(s, a).error /\ Take(s, a).ended /\ Take(s, a).pending = None
               /\ Take(s, a).settings = s.settings
         /\ /\ ~s.error /\ ~s.ended /\ s.pending = None
            /\ a.option /\ a # Option("", None)
            => Take(s, a) = TakeOption(s, a)
<1>1. s.error \in BOOLEAN /\ s.ended \in BOOLEAN /\ a.option \in BOOLEAN
  BY ArgumentType DEF ParseStates
<1>2. Option("", None).option
  BY DEF Option
<1>3. s.error => Take(s, a) = s
  BY <1>1 DEF Take
<1>4. ~s.error /\ s.ended => Take(s, a) = [s EXCEPT !.operands = Append(@, Text(a))]
  BY <1>1 DEF Take
<1>5. ~s.error /\ ~s.ended /\ s.pending # None => Take(s, a) = TakeValue(s, a)
  BY <1>1 DEF Take
<1>6. ~s.error /\ ~s.ended /\ s.pending = None /\ ~a.option =>
        Take(s, a) = [s EXCEPT !.ended = TRUE, !.operands = <<Text(a)>>]
  BY <1>1, <1>2 DEF Take
<1>7. ~s.error /\ ~s.ended /\ s.pending = None /\ a = Option("", None) =>
        Take(s, a) = [s EXCEPT !.ended = TRUE]
  BY <1>1, <1>2 DEF Take
<1>8. ~s.error /\ ~s.ended /\ s.pending = None /\ a.option /\ a # Option("", None) =>
        Take(s, a) = TakeOption(s, a)
  BY <1>1 DEF Take
<1>9. \A o : LET t == [s EXCEPT !.operands = o]
             IN  t.error = s.error /\ t.ended = s.ended /\ t.pending = s.pending
                 /\ t.settings = s.settings
  BY DEF ParseStates
<1>10. \A o : LET t == [s EXCEPT !.ended = TRUE, !.operands = o]
              IN  t.error = s.error /\ t.ended /\ t.pending = s.pending
                  /\ t.settings = s.settings
  BY DEF ParseStates
<1>11. LET t == [s EXCEPT !.ended = TRUE]
       IN  t.error = s.error /\ t.ended /\ t.pending = s.pending /\ t.settings = s.settings
  BY DEF ParseStates
<1>12. ~s.error /\ s.ended =>
         /\ ~Take(s, a).error /\ Take(s, a).ended /\ Take(s, a).pending = s.pending
         /\ Take(s, a).settings = s.settings
  BY <1>4, <1>9
<1>13. /\ ~s.error /\ ~s.ended /\ s.pending = None
       /\ ~a.option \/ a = Option("", None)
       => /\ ~Take(s, a).error /\ Take(s, a).ended /\ Take(s, a).pending = None
          /\ Take(s, a).settings = s.settings
  <2>1. ASSUME ~s.error, ~s.ended, s.pending = None, ~a.option
        PROVE  /\ ~Take(s, a).error /\ Take(s, a).ended /\ Take(s, a).pending = None
               /\ Take(s, a).settings = s.settings
    BY <1>6, <1>10, <2>1
  <2>2. ASSUME ~s.error, ~s.ended, s.pending = None, a = Option("", None)
        PROVE  /\ ~Take(s, a).error /\ Take(s, a).ended /\ Take(s, a).pending = None
               /\ Take(s, a).settings = s.settings
    BY <1>7, <1>11, <2>2
  <2> QED
    BY <2>1, <2>2
<1> QED
  BY <1>3, <1>5, <1>8, <1>12, <1>13

\* The cases of TakeOption.
LEMMA TakeOptionCases ==
  ASSUME NEW s \in ParseStates, NEW a \in Argument, ~s.error
  PROVE  /\ a.flag \notin Flags => TakeOption(s, a).error
         /\ a.flag \in ValueFlags /\ a.value = None =>
              TakeOption(s, a) = [s EXCEPT !.pending = a.flag]
         /\ a.flag \in BoolFlags /\ a.value = None =>
              TakeOption(s, a) = [s EXCEPT !.settings[a.flag] = "true"]
         /\ a.flag \in Flags /\ a.value # None =>
              \/ TakeOption(s, a).error
              \/ TakeOption(s, a) = [s EXCEPT !.settings[a.flag] = ValueFor(a.flag, a.value)]
<1>1. /\ a.flag \in Flags <=> a.flag \in ValueFlags \/ a.flag \in BoolFlags
      /\ ~(a.flag \in ValueFlags /\ a.flag \in BoolFlags)
  BY DEF Flags, ValueFlags, BoolFlags
<1>2. [s EXCEPT !.error = TRUE].error
  BY DEF ParseStates
<1> QED
  BY <1>1, <1>2 DEF TakeOption

\* An argument of the line and what normalizeSpacedBoolFlags makes of it.
LEMMA MergedCases ==
  ASSUME NEW list \in Seq(Argument), NEW i \in 1..Len(list)
  PROVE  /\ list[i] \in Argument /\ Merged(list)[i] \in Argument
         /\ ~TakesNext(list, i) => Merged(list)[i] = list[i] /\ After(list, i) = i + 1
         /\ TakesNext(list, i) =>
              /\ i + 1 \in 1..Len(list) /\ After(list, i) = i + 2
              /\ list[i].option /\ list[i].flag \in BoolFlags /\ list[i].value = None
              /\ ~list[i + 1].option /\ list[i + 1].value # None
              /\ Merged(list)[i].option
              /\ Merged(list)[i].flag = list[i].flag
              /\ Merged(list)[i].value = list[i + 1].value
<1>1. DOMAIN list = 1..Len(list) /\ Len(list) \in Nat
      /\ \A j \in 1..Len(list) : list[j] \in Argument
  OBVIOUS
<1>2. Merged(list)[i] = IF TakesNext(list, i) THEN Option(list[i].flag, list[i + 1].value)
                        ELSE list[i]
  BY <1>1 DEF Merged
<1>3. ASSUME TakesNext(list, i)
      PROVE  /\ i + 1 \in 1..Len(list)
             /\ list[i].option /\ list[i].flag \in BoolFlags /\ list[i].value = None
             /\ ~list[i + 1].option
  BY <1>3, <1>1 DEF TakesNext
<1>4. ASSUME TakesNext(list, i) PROVE list[i + 1].value # None
  <2>1. list[i + 1] \in Argument
    BY <1>1, <1>3, <1>4
  <2> QED
    BY <1>3, <1>4, <2>1, ArgumentType
<1>5. \A f, v : Option(f, v).option /\ Option(f, v).flag = f /\ Option(f, v).value = v
  BY DEF Option
<1>6. Merged(list)[i] \in Argument
  BY MergedType
<1> QED
  BY <1>1, <1>2, <1>3, <1>4, <1>5, <1>6 DEF After

\* Reading one argument keeps what the settings mean.
LEMMA TakeMeans ==
  ASSUME NEW list \in Seq(Argument), NoDashedValue(list), NEW s0 \in [Flags -> STRING],
         NEW s \in ParseStates, NEW i \in 1..Len(list), MeansSo(list, s0, i, s)
  PROVE  MeansSo(list, s0, After(list, i), Take(s, Merged(list)[i]))
<1> DEFINE x == list[i]
           a == Merged(list)[i]
           t == Take(s, a)
           b == After(list, i)
<1>1. /\ x \in Argument /\ a \in Argument
      /\ ~TakesNext(list, i) => a = x /\ b = i + 1
      /\ TakesNext(list, i) =>
           /\ i + 1 \in 1..Len(list) /\ b = i + 2
           /\ x.option /\ x.flag \in BoolFlags /\ x.value = None
           /\ ~list[i + 1].option /\ list[i + 1].value # None
           /\ a.option /\ a.flag = x.flag /\ a.value = list[i + 1].value
  BY MergedCases
<1>2. DOMAIN list = 1..Len(list) /\ Len(list) \in Nat /\ i \in Nat
  OBVIOUS
<1>3. b \in Nat /\ i \in 1..(b - 1)
  <2> HIDE DEF b
  <2> QED
    BY <1>1, <1>2
<1>4. \A f \in Flags : s.settings[f] \in STRING
  BY DEF ParseStates
<1>5. \A j \in 1..(i - 1) : j \in 1..(b - 1)
  <2> HIDE DEF b
  <2> QED
    BY <1>1, <1>2
<1> HIDE DEF x, a, t, b
<1>6. CASE s.error
  <2>1. t.error
    BY <1>1, <1>6, TakeCases DEF t
  <2> QED
    BY <2>1 DEF MeansSo, t, a
<1>7. CASE ~s.error /\ Ended(list, s0, i, s)
  <2>1. t.ended /\ t.pending = None /\ t.settings = s.settings
    BY <1>1, <1>7, TakeCases DEF t, Ended
  <2>2. Ended(list, s0, b, t)
    BY <1>5, <1>7, <2>1 DEF Ended
  <2> QED
    BY <2>2 DEF MeansSo, t, a, b
<1>8. CASE ~s.error /\ Waiting(list, s0, i, s)
  <2>1. PICK w \in 1..Len(list) :
          /\ i = w + 1 /\ ~IsValue(list, w) /\ ~TakesNext(list, w)
          /\ list[w].option /\ list[w].flag \in ValueFlags /\ list[w].value = None
          /\ s.pending = list[w].flag /\ s.pending # None
          /\ \A f \in Flags : s.settings[f] = IntendedBelow(list, s0, w, f)
    BY <1>8 DEF Waiting
  <2>2. ~s.ended /\ \A j \in 1..(i - 1) : Readable(list, j)
    BY <1>8 DEF Waiting
  <2>3. i > 1 /\ i - 1 = w /\ w < Len(list)
    BY <1>2, <2>1
  <2>4. IsValue(list, i)
    BY <2>1, <2>3 DEF IsValue
  <2>5. ~x.option
    BY <1>2, <2>4 DEF NoDashedValue, x
  <2>6. ~TakesNext(list, i) /\ a = x /\ b = i + 1
    BY <1>1, <2>5
  <2>7. x.value \in STRING /\ Text(a) = x.value
    BY <1>1, <2>5, <2>6, ArgumentType DEF Text
  <2>8. s.pending \in Flags /\ s.pending \notin BoolFlags
    BY <2>1 DEF Flags, BoolFlags, ValueFlags
  <2>9. t = [s EXCEPT !.settings[s.pending] = x.value, !.pending = None]
    BY <1>1, <1>8, <2>1, <2>2, <2>7, TakeCases DEF t, TakeValue
  <2>10. /\ ~t.ended /\ t.pending = None
         /\ \A g \in Flags : t.settings[g] = IF g = s.pending THEN x.value ELSE s.settings[g]
    <3> DEFINE v == x.value
    <3>1. t = [s EXCEPT !.settings[s.pending] = v, !.pending = None]
      BY <2>9
    <3> HIDE DEF v
    <3>2. /\ t.ended = s.ended /\ t.pending = None
          /\ \A g \in Flags : t.settings[g] = IF g = s.pending THEN v ELSE s.settings[g]
      BY <2>8, <3>1 DEF ParseStates
    <3> QED
      BY <2>2, <3>2 DEF v
  <2>11. w \in Options(list)
    BY <2>1, <2>2, <2>3, OptionsType
  <2>12. i \notin Options(list)
    BY <2>4, OptionsType
  <2>13. Meant(list, w) = x.value
    <3>1. IsValue(list, w + 1) /\ list[w + 1] = x
      BY <2>1, <2>4 DEF x
    <3> QED
      BY <2>1, <2>3, <2>8, <3>1 DEF Meant, ValueFor
  <2>14. ASSUME NEW f \in Flags PROVE t.settings[f] = IntendedBelow(list, s0, b, f)
    <3>1. IntendedBelow(list, s0, w + 1, f) =
            IF f = list[w].flag THEN Meant(list, w) ELSE IntendedBelow(list, s0, w, f)
      BY <2>11, AddOption
    <3>2. IntendedBelow(list, s0, i + 1, f) = IntendedBelow(list, s0, i, f)
      BY <1>2, <2>12, SkipArgument
    <3>3. IntendedBelow(list, s0, w + 1, f) = IntendedBelow(list, s0, i, f)
      BY <2>1
    <3>4. IntendedBelow(list, s0, i + 1, f) = IntendedBelow(list, s0, b, f)
      BY <2>6
    <3> QED
      BY <2>1, <2>10, <2>13, <3>1, <3>2, <3>3, <3>4
  <2>15. \A j \in 1..(b - 1) : Readable(list, j)
    <3>1. \A j \in 1..(b - 1) : j \in 1..(i - 1) \/ j = i
      BY <1>2, <2>6
    <3> QED
      BY <2>2, <2>4, <3>1 DEF Readable
  <2>16. ~IsValue(list, b)
    <3>1. b - 1 = i
      BY <1>2, <2>6
    <3> QED
      BY <2>5, <2>6, <3>1 DEF IsValue, x
  <2>17. Between(list, s0, b, t)
    BY <2>10, <2>14, <2>15, <2>16 DEF Between
  <2> QED
    BY <2>17 DEF MeansSo, t, a, b
<1>9. CASE ~s.error /\ Between(list, s0, i, s)
  <2>1. /\ ~s.ended /\ s.pending = None
        /\ \A j \in 1..(i - 1) : Readable(list, j)
        /\ ~IsValue(list, i)
        /\ \A f \in Flags : s.settings[f] = IntendedBelow(list, s0, i, f)
    BY <1>9 DEF Between
  <2>2. CASE ~a.option \/ a = Option("", None)
    <3>1. ~TakesNext(list, i) /\ a = x
      <4>1. Option("", None).value = None
        BY DEF Option
      <4> QED
        BY <1>1, <2>2, <4>1
    <3>2. ~Readable(list, i)
      <4>1. ~x.option \/ x.flag = ""
        <5>1. Option("", None).flag = ""
          BY DEF Option
        <5> QED
          BY <2>2, <3>1, <5>1
      <4> QED
        BY <2>1, <4>1 DEF Readable, x
    <3>3. t.ended /\ t.pending = None /\ t.settings = s.settings
      BY <1>1, <1>9, <2>1, <2>2, TakeCases DEF t
    <3>4. \A f \in Flags : t.settings[f] = IntendedBelow(list, s0, Len(list) + 1, f)
      BY <2>1, <3>2, <3>3, NoneBehind
    <3>5. Ended(list, s0, b, t)
      BY <1>3, <3>2, <3>3, <3>4 DEF Ended
    <3> QED
      BY <3>5 DEF MeansSo, t, a, b
  <2>3. CASE a.option /\ a # Option("", None)
    <3>1. t = TakeOption(s, a)
      BY <1>1, <1>9, <2>1, <2>3, TakeCases DEF t
    <3>2. /\ a.flag \notin Flags => t.error
          /\ a.flag \in ValueFlags /\ a.value = None => t = [s EXCEPT !.pending = a.flag]
          /\ a.flag \in BoolFlags /\ a.value = None =>
               t = [s EXCEPT !.settings[a.flag] = "true"]
          /\ a.flag \in Flags /\ a.value # None =>
               \/ t.error
               \/ t = [s EXCEPT !.settings[a.flag] = ValueFor(a.flag, a.value)]
      BY <1>1, <1>9, <3>1, TakeOptionCases
    <3>3. CASE t.error
      BY <3>3 DEF MeansSo, t, a
    <3>4. CASE ~t.error
      <4>1. a.flag \in Flags
        BY <3>2, <3>4
      <4>2. /\ a.flag \in ValueFlags \/ a.flag \in BoolFlags
            /\ ~(a.flag \in ValueFlags /\ a.flag \in BoolFlags)
            /\ a.flag # ""
        BY <4>1 DEF Flags, BoolFlags, ValueFlags
      <4>3. x.option /\ x.flag = a.flag
        BY <1>1, <2>3
      <4>4. Readable(list, i)
        BY <4>2, <4>3 DEF Readable, x
      <4>5. i \in Options(list)
        <5>1. \A j \in 1..i : j \in 1..(i - 1) \/ j = i
          BY <1>2
        <5> QED
          BY <2>1, <4>4, <5>1, OptionsType
      <4>6. \A f : IntendedBelow(list, s0, i + 1, f) =
               IF f = a.flag THEN Meant(list, i) ELSE IntendedBelow(list, s0, i, f)
        BY <4>3, <4>5, AddOption DEF x
      <4>7. CASE a.flag \in ValueFlags /\ a.value = None
        <5>1. ~TakesNext(list, i) /\ a = x /\ b = i + 1
          BY <1>1, <4>7
        <5>2. t = [s EXCEPT !.pending = a.flag]
          BY <3>2, <4>7
        <5>3. t.pending = a.flag /\ t.ended = s.ended /\ t.settings = s.settings
          BY <5>2 DEF ParseStates
        <5>4. a.flag # None
          BY <4>1, NoneAssumption
        <5>5. \A j \in 1..(b - 1) : Readable(list, j)
          <6>1. \A j \in 1..(b - 1) : j \in 1..(i - 1) \/ j = i
            BY <1>2, <5>1
          <6> QED
            BY <2>1, <4>4, <6>1
        <5>6. Waiting(list, s0, b, t)
          BY <2>1, <4>3, <4>7, <5>1, <5>3, <5>4, <5>5 DEF Waiting, x
        <5> QED
          BY <5>6 DEF MeansSo, t, a, b
      <4>8. CASE a.flag \in BoolFlags /\ a.value = None
        <5>1. ~TakesNext(list, i) /\ a = x /\ b = i + 1
          BY <1>1, <4>8
        <5>2. t = [s EXCEPT !.settings[a.flag] = "true"]
          BY <3>2, <4>8
        <5>4. /\ t.ended = s.ended /\ t.pending = s.pending
              /\ \A g \in Flags : t.settings[g] = IF g = a.flag THEN "true" ELSE s.settings[g]
          BY <4>1, <5>2 DEF ParseStates
        <5>5. ~IsValue(list, i + 1)
          <6>1. b - 1 = i
            BY <1>2, <5>1
          <6>2. ~IsValue(list, b)
            BY <4>2, <4>8, <5>1, <6>1 DEF IsValue, x
          <6> QED
            BY <5>1, <6>2
        <5>6. Meant(list, i) = "true"
          BY <4>8, <5>1, <5>5 DEF Meant, x
        <5>7. \A j \in 1..(b - 1) : Readable(list, j)
          <6>1. \A j \in 1..(b - 1) : j \in 1..(i - 1) \/ j = i
            BY <1>2, <5>1
          <6> QED
            BY <2>1, <4>4, <6>1
        <5>8. \A f \in Flags : t.settings[f] = IntendedBelow(list, s0, b, f)
          BY <2>1, <4>6, <5>1, <5>4, <5>6
        <5>9. Between(list, s0, b, t)
          BY <2>1, <5>1, <5>4, <5>5, <5>7, <5>8 DEF Between
        <5> QED
          BY <5>9 DEF MeansSo, t, a, b
      <4>9. CASE a.value # None
        <5> DEFINE v == ValueFor(a.flag, a.value)
        <5>1. t = [s EXCEPT !.settings[a.flag] = v]
          BY <3>2, <3>4, <4>1, <4>9
        <5>2. /\ t.ended = s.ended /\ t.pending = s.pending
              /\ \A g \in Flags : t.settings[g] = IF g = a.flag THEN v ELSE s.settings[g]
          <6> HIDE DEF v
          <6> QED
            BY <4>1, <5>1 DEF ParseStates
        <5>3. CASE ~TakesNext(list, i)
          <6>1. a = x /\ b = i + 1
            BY <1>1, <5>3
          <6>2. Meant(list, i) = v
            BY <4>9, <6>1 DEF Meant, x
          <6>3. ~IsValue(list, b)
            <7>1. b - 1 = i
              BY <1>2, <6>1
            <7> QED
              BY <4>9, <5>3, <6>1, <7>1 DEF IsValue, x
          <6>4. \A j \in 1..(b - 1) : Readable(list, j)
            <7>1. \A j \in 1..(b - 1) : j \in 1..(i - 1) \/ j = i
              BY <1>2, <6>1
            <7> QED
              BY <2>1, <4>4, <7>1
          <6>5. \A f \in Flags : t.settings[f] = IntendedBelow(list, s0, b, f)
            <7> HIDE DEF v
            <7> QED
              BY <2>1, <4>6, <5>2, <6>1, <6>2
          <6>6. Between(list, s0, b, t)
            BY <2>1, <5>2, <6>3, <6>4, <6>5 DEF Between
          <6> QED
            BY <6>6 DEF MeansSo, t, a, b
        <5>4. CASE TakesNext(list, i)
          <6>1. /\ i + 1 \in 1..Len(list) /\ b = i + 2
                /\ x.value = None /\ ~list[i + 1].option /\ a.value = list[i + 1].value
            BY <1>1, <5>4
          <6>2. IsValue(list, i + 1)
            <7>1. i + 1 > 1 /\ i + 1 - 1 = i
              BY <1>2
            <7> QED
              BY <5>4, <7>1 DEF IsValue
          <6>3. Meant(list, i) = v
            <7>1. i < Len(list)
              BY <1>2, <6>1
            <7> QED
              BY <4>3, <6>1, <6>2, <7>1 DEF Meant, x
          <6>4. ~IsValue(list, b)
            <7>1. b - 1 = i + 1 /\ ~TakesNext(list, i + 1)
              BY <1>2, <6>1 DEF TakesNext
            <7> QED
              BY <6>1, <7>1 DEF IsValue
          <6>5. \A j \in 1..(b - 1) : Readable(list, j)
            <7>1. \A j \in 1..(b - 1) : j \in 1..(i - 1) \/ j = i \/ j = i + 1
              BY <1>2, <6>1
            <7> QED
              BY <2>1, <4>4, <6>2, <7>1 DEF Readable
          <6>6. i + 1 \notin Options(list)
            BY <6>1, <6>2, OptionsType
          <6>7. \A f \in Flags : t.settings[f] = IntendedBelow(list, s0, b, f)
            <7> SUFFICES ASSUME NEW f \in Flags
                         PROVE  t.settings[f] = IntendedBelow(list, s0, b, f)
              OBVIOUS
            <7> HIDE DEF v
            <7>1. t.settings[f] = IntendedBelow(list, s0, i + 1, f)
              BY <2>1, <4>6, <5>2, <6>3
            <7>2. PICK m \in Nat : m = i + 1
              BY <1>2
            <7>3. IntendedBelow(list, s0, m + 1, f) = IntendedBelow(list, s0, m, f)
              BY <6>6, <7>2, SkipArgument
            <7>4. b = m + 1
              BY <1>2, <6>1, <7>2
            <7> QED
              BY <7>1, <7>2, <7>3, <7>4
          <6>8. Between(list, s0, b, t)
            BY <2>1, <5>2, <6>4, <6>5, <6>7 DEF Between
          <6> QED
            BY <6>8 DEF MeansSo, t, a, b
        <5> QED
          BY <5>3, <5>4
      <4> QED
        BY <4>2, <4>7, <4>8, <4>9
    <3> QED
      BY <3>3, <3>4
  <2> QED
    BY <2>2, <2>3
<1> QED
  BY <1>6, <1>7, <1>8, <1>9 DEF MeansSo

\* What flag.Parse makes of the normalized arguments is what the line means.
LEMMA ParseMeans ==
  ASSUME NEW list \in Seq(Argument), NoDashedValue(list), NEW s0 \in [Flags -> STRING],
         ~Parsed(Normalized(list), s0).error
  PROVE  \A f \in Flags :
           Parsed(Normalized(list), s0).settings[f] = IntendedBelow(list, s0, Len(list) + 1, f)
<1> DEFINE norm == Normalized(list)
           N == Len(norm)
<1>1. norm \in Seq(Argument)
  BY NormalizedReading
<1>2. PICK p : Reading(list, norm, p)
  BY NormalizedReading
<1> HIDE DEF norm
<1>3. N \in Nat /\ Len(list) \in Nat
  BY <1>1
<1>4. PICK state : /\ Parsing(norm, s0, state)
                   /\ Parsed(norm, s0) = [state[N] EXCEPT !.error = @ \/ state[N].pending # None]
  BY <1>1, ParseRun
<1>5. /\ \A k \in 0..N : state[k] \in ParseStates
      /\ state[0] = Start(s0)
      /\ \A k \in 1..N : state[k] = Take(state[k - 1], norm[k])
  BY <1>4 DEF Parsing
<1>6. /\ \A k \in 1..N : p[k] \in 1..Len(list) /\ norm[k] = Merged(list)[p[k]]
      /\ N # 0 => p[1] = 1 /\ After(list, p[N]) = Len(list) + 1
      /\ N = 0 => Len(list) = 0
      /\ \A k \in 1..N : k + 1 \in 1..N => p[k + 1] = After(list, p[k])
  BY <1>2 DEF Reading
<1> HIDE DEF N
<1>7. Between(list, s0, 1, Start(s0))
  <2>1. /\ ~Start(s0).ended /\ Start(s0).pending = None /\ Start(s0).settings = s0
        /\ ~Start(s0).error
    BY DEF Start
  <2>2. ~IsValue(list, 1)
    BY DEF IsValue
  <2>3. \A j : j \notin 1..(1 - 1)
    OBVIOUS
  <2>4. \A f \in Flags : IntendedBelow(list, s0, 1, f) = s0[f]
    <3> SUFFICES ASSUME NEW f \in Flags PROVE IntendedBelow(list, s0, 1, f) = s0[f]
      OBVIOUS
    <3>1. \A i \in Options(list) : ~(i < 1)
      BY <1>3, OptionsType
    <3>2. GivenBelow(list, 1, f) = {}
      BY <3>1 DEF GivenBelow
    <3> QED
      BY <3>2 DEF IntendedBelow
  <2> QED
    BY <2>1, <2>2, <2>3, <2>4 DEF Between
<1>8. N # 0 => MeansSo(list, s0, Len(list) + 1, state[N])
  <2> SUFFICES ASSUME N # 0 PROVE MeansSo(list, s0, Len(list) + 1, state[N])
    OBVIOUS
  <2> DEFINE T == {k \in 1..N : MeansSo(list, s0, After(list, p[k]), state[k])}
  <2>1. 1 \in T
    <3>1. 1 \in 1..N /\ 0 \in 0..N /\ p[1] = 1
      BY <1>3, <1>6
    <3>2. state[1] = Take(state[0], Merged(list)[1])
      <4>1. 1 - 1 = 0
        OBVIOUS
      <4> QED
        BY <1>5, <1>6, <3>1, <4>1
    <3>3. MeansSo(list, s0, 1, state[0]) /\ 1 \in 1..Len(list) /\ state[0] \in ParseStates
      BY <1>5, <1>6, <1>7, <3>1 DEF MeansSo
    <3>4. MeansSo(list, s0, After(list, 1), state[1])
      BY <3>2, <3>3, TakeMeans
    <3> QED
      BY <3>1, <3>4
  <2>2. ASSUME NEW n \in 1..N, n \in T, n + 1 \in 1..N PROVE n + 1 \in T
    <3>1. PICK m \in 1..N : m = n + 1
      BY <2>2
    <3>2. m - 1 = n /\ n \in 0..N
      BY <1>3, <3>1
    <3>3. state[m] = Take(state[n], Merged(list)[p[m]])
      BY <1>5, <1>6, <3>2
    <3>4. p[m] = After(list, p[n]) /\ p[m] \in 1..Len(list)
      BY <1>6, <3>1
    <3>5. MeansSo(list, s0, p[m], state[n]) /\ state[n] \in ParseStates
      BY <1>5, <2>2, <3>2, <3>4
    <3>6. MeansSo(list, s0, After(list, p[m]), state[m])
      BY <3>3, <3>4, <3>5, TakeMeans
    <3> QED
      BY <3>1, <3>6
  <2>3. N \in 1..N
    BY <1>3
  <2>4. N \in T
    <3> HIDE DEF T
    <3> QED
      BY <1>3, <2>1, <2>2, <2>3, AllPositions
  <2> QED
    BY <1>6, <2>4
<1>9. MeansSo(list, s0, Len(list) + 1, state[N])
  <2>1. CASE N = 0
    <3>1. Len(list) + 1 = 1 /\ state[N] = Start(s0)
      BY <1>5, <1>6, <2>1
    <3> QED
      BY <1>7, <3>1 DEF MeansSo
  <2> QED
    BY <1>8, <2>1
<1>10. state[N] \in ParseStates
  BY <1>3, <1>5
<1>11. ~state[N].error /\ state[N].pending = None
       /\ Parsed(norm, s0).settings = state[N].settings
  <2> DEFINE s == state[N]
             e == s.error \/ s.pending # None
  <2>1. Parsed(norm, s0) = [s EXCEPT !.error = e]
    BY <1>4
  <2>2. ~Parsed(norm, s0).error
    BY DEF norm
  <2>3. s \in ParseStates
    BY <1>10
  <2> HIDE DEF s, e
  <2>4. [s EXCEPT !.error = e].error = e /\ [s EXCEPT !.error = e].settings = s.settings
    BY <2>3 DEF ParseStates
  <2>5. ~e /\ Parsed(norm, s0).settings = s.settings
    BY <2>1, <2>2, <2>4
  <2> QED
    BY <2>5 DEF e, s
<1>12. Ended(list, s0, Len(list) + 1, state[N]) \/ Between(list, s0, Len(list) + 1, state[N])
  BY <1>9, <1>11 DEF MeansSo, Waiting
<1> QED
  BY <1>11, <1>12 DEF Ended, Between, norm

\* A flag is what the configuration says, but for one that is switched off.
LEMMA ConfiguredMeans ==
  ASSUME NEW c, NEW f \in Flags, f \notin SwitchedOff(c)
  PROVE  Configured(c)[f] = IF f \in DOMAIN c /\ Accepts(f, c[f])
                            THEN ValueFor(f, c[f]) ELSE Default[f]
<1>1. CASE f \in DOMAIN c /\ ~Accepts(f, c[f])
  <2>1. f \in BoolFlags /\ Default[f] # "true"
    BY <1>1 DEF SwitchedOff, Accepts, Flags
  <2>2. Default[f] = "false"
    BY <2>1 DEF Default, BoolFlags, Flags
  <2> QED
    BY <1>1, <2>2 DEF Configured, SetTo
<1>2. CASE f \notin DOMAIN c \/ Accepts(f, c[f])
  BY <1>2 DEF Configured, SetTo
<1> QED
  BY <1>1, <1>2

\* All options count in the end.
LEMMA IntendedIsBelowEnd ==
  ASSUME NEW list \in Seq(Argument), NEW c, NEW f \in Flags,
         f \notin SwitchedOff(c) \/ Given(list, f) # {}
  PROVE  IntendedBelow(list, Configured(c), Len(list) + 1, f) = Intended(list, c, f)
<1>1. \A i \in Options(list) : i < Len(list) + 1
  <2>1. Options(list) \subseteq 1..Len(list) /\ Len(list) \in Nat
    BY OptionsType
  <2> QED
    BY <2>1
<1>2. GivenBelow(list, Len(list) + 1, f) = Given(list, f)
  BY <1>1 DEF GivenBelow, Given
<1> QED
  BY <1>2, ConfiguredMeans DEF IntendedBelow, Intended

\* The settings when the arguments are to be read, and as long as a file may be
\* changed.
SettingsInv ==
  /\ phase = "parse" => config # Malformed /\ settings = Configured(config)
  /\ (phase \notin {"start", "parse", "done"} \/ \E f \in Files : disk[f] # "old")
     => (NoDashedValue(args) =>
           \A f \in Flags : \/ settings[f] = Intended(args, config, f)
                            \/ f \in SwitchedOff(config) /\ Given(args, f) = {})

LEMMA SettingsStep ==
  TypeInv /\ FixingInv /\ SettingsInv /\ [Next]_vars => SettingsInv'
<1> SUFFICES ASSUME TypeInv, FixingInv, SettingsInv, [Next]_vars PROVE SettingsInv'
  OBVIOUS
<1> USE DEF Exit, Go, input, setting, choice, found, fixing
<1>1. CASE LoadConfig
  <2>1. \A f \in Files : disk[f] = "old"
    BY <1>1 DEF LoadConfig, FixingInv
  <2> QED
    BY <1>1, <2>1 DEF LoadConfig, SettingsInv
<1>2. CASE ParseArguments
  <2>1. \A f \in Files : disk'[f] = "old"
    BY <1>2 DEF ParseArguments, FixingInv
  <2>2. CASE phase' = "done"
    BY <2>1, <2>2 DEF SettingsInv
  <2>3. CASE phase' # "done"
    <3> DEFINE parsed == Parsed(Normalized(args), settings)
    <3>1. ~parsed.error /\ settings' = parsed.settings /\ phase' = "dispatch"
          /\ phase = "parse" /\ UNCHANGED <<args, config>>
      BY <1>2, <2>3 DEF ParseArguments
    <3>2. args \in Seq(Argument) /\ settings \in [Flags -> STRING]
          /\ settings = Configured(config)
      BY <3>1, InputsAssumption DEF TypeInv, TypeOK, SettingsInv
    <3>3. NoDashedValue(args) =>
            \A f \in Flags : settings'[f] = IntendedBelow(args, settings, Len(args) + 1, f)
      BY <3>1, <3>2, ParseMeans
    <3>4. NoDashedValue(args) =>
            \A f \in Flags : \/ settings'[f] = Intended(args, config, f)
                             \/ f \in SwitchedOff(config) /\ Given(args, f) = {}
      BY <3>2, <3>3, IntendedIsBelowEnd
    <3> QED
      BY <3>1, <3>4 DEF SettingsInv
  <2> QED
    BY <2>2, <2>3
<1>3. CASE UNCHANGED <<args, config, settings, disk>> /\ phase \notin {"start", "parse", "done"}
           /\ phase' \notin {"start", "parse"}
  BY <1>3 DEF SettingsInv
<1>4. CASE Dispatch \/ Select \/ ReadStdin \/ CollectFile \/ CollectStaged \/ CollectDiff \/ Walk
  BY <1>3, <1>4 DEF Dispatch, Select, ReadStdin, CollectFile, CollectStaged, CollectDiff, Walk
<1>5. CASE Audit \/ Scan \/ NarrowDown \/ WriteReport \/ GroupByFile \/ LeaveFile \/ EndFix
           \/ Kill
  BY <1>3, <1>5 DEF Audit, Scan, NarrowDown, WriteReport, GroupByFile, LeaveFile, EndFix, Kill
<1>6. CASE StartWrite \/ FinishWrite
  <2>1. /\ UNCHANGED <<args, config, settings>> /\ phase \in {"fix", "write"}
        /\ phase' \in {"fix", "write"}
    BY <1>6 DEF StartWrite, FinishWrite
  <2> QED
    BY <2>1 DEF SettingsInv
<1>7. CASE UNCHANGED vars
  BY <1>7 DEF vars, SettingsInv
<1> QED
  BY <1>1, <1>2, <1>4, <1>5, <1>6, <1>7 DEF Next

\* For command lines of any length: normalizeSpacedBoolFlags and flag.Parse give
\* each flag the value its author means, over that of the configuration, if no
\* value begins with a dash; only a flag that is on by default and that the
\* configuration alone sets, to a text that is no boolean, is off (main.go,
\* config.go).
THEOREM FlagsCorrect == Spec => []FlagsMeanWhatTheySay
<1>1. Init => TypeInv /\ FixingInv /\ SettingsInv
  BY TypeInit DEF Init, FixingInv, SettingsInv
<1>2. TypeInv /\ FixingInv /\ SettingsInv /\ [Next]_vars =>
        TypeInv' /\ FixingInv' /\ SettingsInv'
  BY TypeStep, FixingStep, SettingsStep
<1>3. SettingsInv => FlagsMeanWhatTheySay
  BY DEF SettingsInv, FlagsMeanWhatTheySay
<1> QED
  BY <1>1, <1>2, <1>3, PTL DEF Spec

-----------------------------------------------------------------------------
(* The report. *)

LEMMA WithVersionKeeps ==
  ASSUME NEW iss \in Issue, NEW v
  PROVE  /\ WithVersion(iss, v) \in Issue
         /\ Plain(WithVersion(iss, v)) = Plain(iss)
         /\ WithVersion(iss, v).file = iss.file
         /\ WithVersion(iss, v).line = iss.line /\ WithVersion(iss, v).column = iss.column
         /\ WithVersion(iss, v).checker = iss.checker
         /\ WithVersion(iss, v).message = iss.message
<1> DEFINE t == iss.typed /\ iss.checker # "AtomicMutex"
           w == [iss EXCEPT !.note = TRUE, !.typed = t]
<1>1. t \in BOOLEAN
  BY DEF Issue
<1>2. WithVersion(iss, v) = iss \/ WithVersion(iss, v) = w
  BY DEF WithVersion
<1> HIDE DEF t
<1>3. /\ w \in Issue /\ w.file = iss.file /\ w.line = iss.line /\ w.column = iss.column
      /\ w.checker = iss.checker /\ w.message = iss.message
  BY <1>1 DEF Issue
<1>4. Plain(w) = Plain(iss)
  BY <1>1 DEF Plain, Issue
<1> HIDE DEF w
<1> QED
  BY <1>2, <1>3, <1>4

LEMMA PlainKeeps ==
  ASSUME NEW a \in Issue, NEW b \in Issue, Plain(a) = Plain(b)
  PROVE  a.file = b.file /\ a.fix = b.fix
<1>1. \A x \in Issue : Plain(x).file = x.file /\ Plain(x).fix = x.fix
  BY DEF Plain, Issue
<1> QED
  BY <1>1

\* Of the positions S the first of each key.
Firsts(list, S) == {q \in S : \A j \in S : j < q => Key(list[j]) # Key(list[q])}

\* The list d is what is at the positions F of a list, each of them once.
Picks(d, list, F) ==
  \E c \in [DOMAIN d -> F] :
    /\ \A n \in DOMAIN d : d[n] = list[c[n]]
    /\ \A m, n \in DOMAIN d : c[m] = c[n] => m = n
    /\ \A q \in F : \E n \in DOMAIN d : c[n] = q

\* What DedupeIssues keeps of the issues at the positions S: the first of each
\* key, once.
LEMMA DedupeElements ==
  ASSUME NEW list, NEW N \in Nat, DOMAIN list = 1..N, NEW S \in SUBSET (1..N)
  PROVE  Picks(DedupeIssues(At(list, S)), list, Firsts(list, S))
<1> DEFINE a == At(list, S)
           D == {k \in DOMAIN a : \A j \in 1..(k - 1) : Key(a[j]) # Key(a[k])}
           d == At(a, D)
<1>1. d = DedupeIssues(At(list, S))
  BY DEF DedupeIssues
<1>3. S \subseteq Nat
  OBVIOUS
<1> HIDE DEF a, D, d
<1>4. Copies(a, list, S)
  BY AtCopies DEF a
<1>45. PICK K \in Nat : \E p \in [1..K -> S] :
        /\ DOMAIN a = 1..K
        /\ \A n \in 1..K : a[n] = list[p[n]]
        /\ \A m, n \in 1..K : m < n => p[m] < p[n]
        /\ \A i \in S : \E n \in 1..K : p[n] = i
  BY <1>4 DEF Copies
<1>40. PICK p \in [1..K -> S] :
        /\ DOMAIN a = 1..K
        /\ \A n \in 1..K : a[n] = list[p[n]]
        /\ \A m, n \in 1..K : m < n => p[m] < p[n]
        /\ \A i \in S : \E n \in 1..K : p[n] = i
  BY <1>45
<1>5. D \in SUBSET (1..K)
  BY <1>40 DEF D
<1>6. Copies(d, a, D)
  <2>1. DOMAIN a = 1..K
    BY <1>40
  <2> QED
    BY <1>5, <2>1, AtCopies DEF d
<1>65. PICK L \in Nat : \E r \in [1..L -> D] :
        /\ DOMAIN d = 1..L
        /\ \A n \in 1..L : d[n] = a[r[n]]
        /\ \A m, n \in 1..L : m < n => r[m] < r[n]
        /\ \A i \in D : \E n \in 1..L : r[n] = i
  BY <1>6 DEF Copies
<1>60. PICK r \in [1..L -> D] :
        /\ DOMAIN d = 1..L
        /\ \A n \in 1..L : d[n] = a[r[n]]
        /\ \A m, n \in 1..L : m < n => r[m] < r[n]
        /\ \A i \in D : \E n \in 1..L : r[n] = i
  BY <1>65
<1>7. \A k \in 1..K : p[k] \in S /\ p[k] \in Nat
  BY <1>3, <1>40
<1>8. \A j, k \in 1..K : p[j] < p[k] => j < k
  <2> SUFFICES ASSUME NEW j \in 1..K, NEW k \in 1..K, p[j] < p[k], ~(j < k) PROVE FALSE
    OBVIOUS
  <2>1. j = k \/ k < j
    BY <1>40
  <2>2. p[j] \in Nat /\ p[k] \in Nat
    BY <1>7
  <2>3. k < j => p[k] < p[j]
    BY <1>40
  <2> QED
    BY <2>1, <2>2, <2>3
<1>9. ASSUME NEW k \in 1..K PROVE k \in D <=> p[k] \in Firsts(list, S)
  <2>1. ASSUME k \in D, NEW q \in S, q < p[k], Key(list[q]) = Key(list[p[k]]) PROVE FALSE
    <3>1. PICK j \in 1..K : p[j] = q
      BY <1>40
    <3>2. j < k
      BY <1>8, <2>1, <3>1
    <3>3. j \in 1..(k - 1)
      BY <1>40, <3>2
    <3>4. Key(a[j]) # Key(a[k])
      BY <2>1, <3>3 DEF D
    <3> QED
      BY <1>40, <2>1, <3>1, <3>4
  <2>2. ASSUME p[k] \in Firsts(list, S) PROVE k \in D
    <3>1. ASSUME NEW j \in 1..(k - 1) PROVE Key(a[j]) # Key(a[k])
      <4>1. j \in 1..K /\ j < k
        BY <1>40
      <4>2. p[j] \in S /\ p[j] < p[k]
        BY <1>40, <4>1
      <4>3. Key(list[p[j]]) # Key(list[p[k]])
        BY <2>2, <4>2 DEF Firsts
      <4> QED
        BY <1>40, <4>1, <4>3
    <3> QED
      BY <1>40, <3>1 DEF D
  <2> QED
    BY <1>7, <2>1, <2>2 DEF Firsts
<1> DEFINE c == [n \in 1..L |-> p[r[n]]]
<1>10. \A n \in 1..L : r[n] \in D /\ r[n] \in 1..K
  BY <1>5, <1>60
<1>11. c \in [1..L -> Firsts(list, S)]
  BY <1>9, <1>10
<1>12. \A n \in 1..L : d[n] = list[c[n]]
  BY <1>40, <1>60, <1>10
<1>13. \A m, n \in 1..L : c[m] = c[n] => m = n
  <2> SUFFICES ASSUME NEW m \in 1..L, NEW n \in 1..L, c[m] = c[n], m # n PROVE FALSE
    OBVIOUS
  <2>1. m < n \/ n < m
    BY <1>60
  <2>2. /\ m < n => p[r[m]] < p[r[n]]
        /\ n < m => p[r[n]] < p[r[m]]
    BY <1>40, <1>60, <1>10
  <2>3. p[r[m]] = p[r[n]] /\ p[r[n]] \in Nat
    BY <1>7, <1>10
  <2> QED
    BY <2>1, <2>2, <2>3
<1>14. ASSUME NEW q \in Firsts(list, S) PROVE \E n \in 1..L : c[n] = q
  <2>1. PICK k \in 1..K : p[k] = q
    BY <1>40 DEF Firsts
  <2>2. k \in D
    BY <1>9, <2>1
  <2>3. PICK n \in 1..L : r[n] = k
    BY <1>60, <2>2
  <2> QED
    BY <2>1, <2>3
<1> HIDE DEF c
<1>15. DOMAIN d = 1..L
  BY <1>60
<1>16. Picks(d, list, Firsts(list, S))
  BY <1>11, <1>12, <1>13, <1>14, <1>15 DEF Picks
<1> QED
  BY <1>1, <1>16

\* The positions of the issues that filterBySeverity and filterByChangedLines keep.
Chosen(list, min, only, lines) ==
  {k \in DOMAIN list : Severe(list[k], min) /\ (only => Changed(list[k], lines))}

\* What Narrowed keeps: the first chosen issue of each key, once.
LEMMA NarrowedElements ==
  ASSUME NEW list \in Seq(Issue), NEW min, NEW only, NEW lines
  PROVE  Picks(Narrowed(list, min, only, lines), list,
               Firsts(list, Chosen(list, min, only, lines)))
<1> DEFINE S == Chosen(list, min, only, lines)
<1>1. PICK N \in Nat : DOMAIN list = 1..N
  OBVIOUS
<1>2. S \in SUBSET (1..N)
  BY <1>1 DEF Chosen
<1>3. Narrowed(list, min, only, lines) = DedupeIssues(At(list, S))
  BY DEF Narrowed, Chosen
<1> HIDE DEF S
<1>4. Picks(DedupeIssues(At(list, S)), list, Firsts(list, S))
  BY <1>1, <1>2, DedupeElements
<1> QED
  BY <1>3, <1>4 DEF S

\* Where the issues of each batch lie in the list of all.
Offsets(off) ==
  /\ off \in [paths -> Nat]
  /\ \A f \in paths : \A i \in DOMAIN batches[f] :
       off[f] + i \in DOMAIN raw /\ raw[off[f] + i] = batches[f][i]
  /\ \A q \in DOMAIN raw : \E f \in paths : \E i \in DOMAIN batches[f] : q = off[f] + i

\* Batches hold issues of their file; the list of all issues is the batches, one
\* behind the other.
RawInv ==
  /\ batches \in [paths -> Seq(Issue)]
  /\ \A f \in paths : \A i \in DOMAIN batches[f] : batches[f][i].file = f
  /\ raw \in Seq(Issue)
  /\ \E off : Offsets(off)

LEMMA BatchFile ==
  ASSUME NEW f \in Files \cup {Stdin}, NEW batch \in Seq(Finding)
  PROVE  \A i \in DOMAIN BatchOf(f, batch) : BatchOf(f, batch)[i].file = f
<1> DEFINE s == [k \in DOMAIN batch |-> Located(f, batch[k])]
           S == {k \in DOMAIN batch : batch[k].checker \in checkers}
<1>1. PICK N \in Nat : DOMAIN batch = 1..N
  OBVIOUS
<1>2. \A k \in DOMAIN batch : s[k].file = f
  <2>1. \A k \in DOMAIN batch : batch[k] \in Finding
    OBVIOUS
  <2> QED
    BY <2>1, LocatedType
<1>3. DOMAIN s = 1..N /\ S \in SUBSET (1..N) /\ S \subseteq DOMAIN batch
  BY <1>1
<1> HIDE DEF s, S
<1>40. Copies(At(s, S), s, S)
  BY <1>3, AtCopies
<1>4. PICK K \in Nat : \E p \in [1..K -> S] :
           /\ DOMAIN At(s, S) = 1..K
           /\ \A n \in 1..K : At(s, S)[n] = s[p[n]]
  BY <1>40 DEF Copies
<1>5. ASSUME NEW i \in DOMAIN At(s, S)
      PROVE  At(s, S)[i].file = f
  <2>1. PICK p \in [1..K -> S] :
            /\ DOMAIN At(s, S) = 1..K
            /\ \A n \in 1..K : At(s, S)[n] = s[p[n]]
    BY <1>4
  <2>2. p[i] \in S /\ At(s, S)[i] = s[p[i]]
    BY <2>1, <1>5
  <2>3. s[p[i]].file = f
    BY <2>2, <1>2, <1>3
  <2> QED
    BY <2>2, <2>3
<1> QED
  BY <1>5 DEF BatchOf, s, S

\* A scan makes the list of all issues from the batches in some order.
LEMMA ScanRaw ==
  ASSUME TypeInv, Scan
  PROVE  RawInv'
<1> USE DEF Go, input, setting, choice, fixing
<1>1. PICK b \in [paths -> IF Len(args) <= Narrow THEN Batches ELSE {<<>>}],
           order \in SetToSeqs(paths) :
             /\ batches' = [f \in paths |-> BatchOf(f, b[f])]
             /\ raw' = FlattenSeq([k \in DOMAIN order |-> batches'[order[k]]])
  BY DEF Scan
<1>2. paths' = paths
  BY DEF Scan
<1>3. paths \subseteq Files \cup {Stdin}
  BY DEF TypeInv, TypeOK
<1>4. \A f \in paths : b[f] \in Seq(Finding)
  <2>1. << >> \in Seq(Finding)
    OBVIOUS
  <2> QED
    BY <1>1, <2>1, InputsAssumption
<1>5. batches' \in [paths -> Seq(Issue)]
  <2>1. \A f \in paths : BatchOf(f, b[f]) \in Seq(Issue)
    BY <1>3, <1>4, BatchType
  <2> QED
    BY <1>1, <2>1
<1>6. \A f \in paths : \A i \in DOMAIN batches'[f] : batches'[f][i].file = f
  BY <1>1, <1>3, <1>4, BatchFile
<1> DEFINE N == Cardinality(paths)
           ss == [k \in DOMAIN order |-> batches'[order[k]]]
<1>7. N \in Nat /\ IsFiniteSet(paths)
  BY <1>3, FilesFinite
<1>8. order \in [1..N -> paths] /\ \A i, j \in 1..N : i # j => order[i] # order[j]
  BY <1>1 DEF SetToSeqs
<1>9. \A f \in paths : \E k \in 1..N : order[k] = f
  <2>1. IsFiniteSet(1..N) /\ Cardinality(1..N) = N
    <3>1. 1 \in Int /\ N \in Int
      BY <1>7
    <3> HIDE DEF N
    <3> QED
      BY <1>7, <3>1, FS_Interval
  <2>2. \A i, j \in 1..N : order[i] = order[j] => i = j
    BY <1>8
  <2>3. Cardinality(1..N) = Cardinality(paths)
    BY <2>1
  <2> HIDE DEF N
  <2> QED
    BY <1>7, <1>8, <2>1, <2>2, <2>3, InjectiveOnto
<1> HIDE DEF N
<1>10. ss \in [1..N -> Seq(Issue)] /\ \A k \in 1..N : ss[k] = batches'[order[k]]
  BY <1>5, <1>8
<1>11. raw' = FlattenSeq(ss)
  BY <1>1
<1> HIDE DEF ss
<1>12. raw' \in Seq(Issue) /\ \E at \in [1..N -> Nat] : Flattened(at, N, ss, raw')
  BY <1>7, <1>10, <1>11, FlattenElements
<1>13. PICK at \in [1..N -> Nat] : Flattened(at, N, ss, raw')
  BY <1>12
<1> DEFINE place(f) == CHOOSE k \in 1..N : order[k] = f
           off == [f \in paths |-> at[place(f)]]
<1>14. \A f \in paths : place(f) \in 1..N /\ order[place(f)] = f
  BY <1>9
<1>15. \A k \in 1..N : order[k] \in paths /\ place(order[k]) = k
  BY <1>8, <1>14
<1> HIDE DEF place
<1>16. off \in [paths -> Nat]
  BY <1>14
<1>17. DOMAIN raw' = 1..Len(raw')
  BY <1>12
<1>18. \A f \in paths : DOMAIN batches'[f] = 1..Len(batches'[f])
  BY <1>5
<1>19. ASSUME NEW f \in paths, NEW i \in DOMAIN batches'[f]
       PROVE  off[f] + i \in DOMAIN raw' /\ raw'[off[f] + i] = batches'[f][i]
  <2>1. ss[place(f)] = batches'[f]
    BY <1>10, <1>14
  <2>2. i \in 1..Len(ss[place(f)])
    BY <1>18, <2>1
  <2> QED
    BY <1>13, <1>14, <1>17, <2>1, <2>2 DEF Flattened
<1>20. ASSUME NEW q \in DOMAIN raw'
       PROVE  \E f \in paths : \E i \in DOMAIN batches'[f] : q = off[f] + i
  <2>1. PICK k \in 1..N : \E i \in 1..Len(ss[k]) : q = at[k] + i
    BY <1>13, <1>17 DEF Flattened
  <2>2. order[k] \in paths /\ off[order[k]] = at[k] /\ ss[k] = batches'[order[k]]
    BY <1>10, <1>15
  <2> QED
    BY <1>18, <2>1, <2>2
<1> HIDE DEF off
<1>21. PICK g : g = off
  OBVIOUS
<1>22. Offsets(g)'
  BY <1>2, <1>16, <1>19, <1>20, <1>21 DEF Offsets
<1> QED
  BY <1>2, <1>5, <1>6, <1>12, <1>22 DEF RawInv

\* The report lists what Narrowed keeps: each of the first admitted issues of a
\* key, with the advice for the version, once.
LEMMA ReportElements ==
  ASSUME NEW list \in Seq(Issue), NEW min, NEW only, NEW lines, NEW v, NEW rep,
         rep \in Sortings(ApplyGoVersion(Narrowed(list, min, only, lines), v))
  PROVE  \E N \in Nat : \E e \in [1..N -> Firsts(list, Chosen(list, min, only, lines))] :
           /\ DOMAIN rep = 1..N
           /\ \A k \in 1..N : rep[k] = WithVersion(list[e[k]], v)
           /\ \A j, k \in 1..N : e[j] = e[k] => j = k
           /\ \A q \in Firsts(list, Chosen(list, min, only, lines)) : \E k \in 1..N : e[k] = q
<1> DEFINE F == Firsts(list, Chosen(list, min, only, lines))
           d == Narrowed(list, min, only, lines)
           g == ApplyGoVersion(d, v)
<1>1. d \in Seq(Issue) /\ Picks(d, list, F)
  BY NarrowedType, NarrowedElements
<1> HIDE DEF F, d
<1>2. PICK N \in Nat : DOMAIN d = 1..N
  BY <1>1
<1>3. DOMAIN g = 1..N /\ \A n \in 1..N : g[n] = WithVersion(d[n], v)
  BY <1>2 DEF ApplyGoVersion
<1>4. rep \in Sortings(g)
  BY DEF d
<1> HIDE DEF g
<1>50. PICK c \in [DOMAIN d -> F] :
         /\ \A n \in DOMAIN d : d[n] = list[c[n]]
         /\ \A m, n \in DOMAIN d : c[m] = c[n] => m = n
         /\ \A q \in F : \E n \in DOMAIN d : c[n] = q
  BY <1>1 DEF Picks
<1>5. /\ c \in [1..N -> F]
      /\ \A n \in 1..N : d[n] = list[c[n]]
      /\ \A m, n \in 1..N : c[m] = c[n] => m = n
      /\ \A q \in F : \E n \in 1..N : c[n] = q
  BY <1>2, <1>50
<1>6. PICK p \in [1..N -> 1..N] :
        /\ \A j, k \in 1..N : p[j] = p[k] => j = k
        /\ rep = [k \in 1..N |-> g[p[k]]]
  BY <1>3, <1>4 DEF Sortings
<1>7. \A n \in 1..N : \E k \in 1..N : p[k] = n
  <2>1. 1 \in Int /\ N \in Int
    BY <1>2
  <2>2. IsFiniteSet(1..N)
    BY <2>1, FS_Interval
  <2> DEFINE U == 1..N
  <2>3. p \in [U -> U] /\ \A j, k \in U : p[j] = p[k] => j = k
    BY <1>6
  <2>4. IsFiniteSet(U)
    BY <2>2
  <2> HIDE DEF U
  <2>5. \A n \in U : \E k \in U : p[k] = n
    BY <2>3, <2>4, PermutationOnto
  <2> QED
    BY <2>5 DEF U
<1> DEFINE e == [k \in 1..N |-> c[p[k]]]
<1>8. \A k \in 1..N : p[k] \in 1..N /\ e[k] = c[p[k]] /\ e[k] \in F
  BY <1>5, <1>6
<1>9. e \in [1..N -> F]
  BY <1>8
<1>10. DOMAIN rep = 1..N
  BY <1>6
<1>11. \A k \in 1..N : rep[k] = WithVersion(list[e[k]], v)
  <2>1. \A k \in 1..N : rep[k] = g[p[k]]
    BY <1>6
  <2> QED
    BY <1>3, <1>5, <1>8, <2>1
<1>12. \A j, k \in 1..N : e[j] = e[k] => j = k
  BY <1>5, <1>6, <1>8
<1>13. \A q \in F : \E k \in 1..N : e[k] = q
  <2> SUFFICES ASSUME NEW q \in F PROVE \E k \in 1..N : e[k] = q
    OBVIOUS
  <2>1. PICK n \in 1..N : c[n] = q
    BY <1>5
  <2>2. PICK k \in 1..N : p[k] = n
    BY <1>7
  <2> QED
    BY <1>8, <2>1, <2>2
<1> HIDE DEF e
<1> QED
  BY <1>2, <1>9, <1>10, <1>11, <1>12, <1>13 DEF F

LEMMA SameFields ==
  ASSUME NEW a, NEW b
  PROVE  Same(a, b) <=> /\ a.line = b.line /\ a.column = b.column
                        /\ a.checker = b.checker /\ a.message = b.message
BY DEF Same

\* What ReportIsExact says of a report.
Exact(rep) ==
  /\ InOrder(rep)
  /\ \A k \in DOMAIN rep : \E f \in paths : \E i \in DOMAIN batches[f] :
       Plain(rep[k]) = Plain(batches[f][i]) /\ Admitted(batches[f][i])
  /\ \A f \in paths : \A i \in DOMAIN batches[f] :
       LET iss == batches[f][i]
       IN  Ordinary(iss) /\ Admitted(iss) =>
             \E first \in 1..i :
               /\ Same(batches[f][first], iss) /\ Admitted(batches[f][first])
               /\ Cardinality({k \in DOMAIN rep : rep[k].file = f /\ Same(rep[k], iss)}) = 1
               /\ \E k \in DOMAIN rep : Plain(rep[k]) = Plain(batches[f][first])
               /\ \A j \in 1..(first - 1) :
                    Admitted(batches[f][j]) => ~Same(batches[f][j], iss)

LEMMA ReportExact ==
  ASSUME RawInv, NEW v, NEW rep,
         rep \in Sortings(ApplyGoVersion(
           Narrowed(raw, ParseSeverity(settings["severity"]), On("git-diff"), changedLines), v))
  PROVE  Exact(rep)
<1> DEFINE S == Chosen(raw, ParseSeverity(settings["severity"]), On("git-diff"), changedLines)
           F == Firsts(raw, S)
<1>1. PICK off : Offsets(off)
  BY DEF RawInv
<1>2. InOrder(rep)
  BY DEF Sortings
<1>3. raw \in Seq(Issue) /\ batches \in [paths -> Seq(Issue)]
  BY DEF RawInv
<1>4. PICK N \in Nat : \E e \in [1..N -> F] :
           /\ DOMAIN rep = 1..N
           /\ \A k \in 1..N : rep[k] = WithVersion(raw[e[k]], v)
           /\ \A j, k \in 1..N : e[j] = e[k] => j = k
           /\ \A q \in F : \E k \in 1..N : e[k] = q
  BY <1>3, ReportElements
<1>5. PICK e \in [1..N -> F] :
           /\ DOMAIN rep = 1..N
           /\ \A k \in 1..N : rep[k] = WithVersion(raw[e[k]], v)
           /\ \A j, k \in 1..N : e[j] = e[k] => j = k
           /\ \A q \in F : \E k \in 1..N : e[k] = q
  BY <1>4
<1>6. \A q : q \in S <=> q \in DOMAIN raw /\ Admitted(raw[q])
  BY DEF Chosen, Admitted
<1> HIDE DEF S
<1>7. \A q : q \in F <=> q \in S /\ \A j \in S : j < q => Key(raw[j]) # Key(raw[q])
  BY DEF Firsts
<1> HIDE DEF F
<1>8. \A q \in DOMAIN raw : q \in Nat /\ raw[q] \in Issue
  BY <1>3
<1>9. /\ off \in [paths -> Nat]
      /\ \A f \in paths : \A i \in DOMAIN batches[f] :
           off[f] + i \in DOMAIN raw /\ raw[off[f] + i] = batches[f][i]
      /\ \A q \in DOMAIN raw : \E f \in paths : \E i \in DOMAIN batches[f] : q = off[f] + i
  BY <1>1 DEF Offsets
<1>10. \A f \in paths : \A i \in DOMAIN batches[f] : batches[f][i].file = f
  BY DEF RawInv
<1>11. \A k \in 1..N : /\ e[k] \in F /\ e[k] \in DOMAIN raw /\ Admitted(raw[e[k]])
                       /\ Plain(rep[k]) = Plain(raw[e[k]]) /\ rep[k].file = raw[e[k]].file
                       /\ Same(rep[k], raw[e[k]])
  <2> SUFFICES ASSUME NEW k \in 1..N
               PROVE  /\ e[k] \in F /\ e[k] \in DOMAIN raw /\ Admitted(raw[e[k]])
                      /\ Plain(rep[k]) = Plain(raw[e[k]]) /\ rep[k].file = raw[e[k]].file
                      /\ Same(rep[k], raw[e[k]])
    OBVIOUS
  <2>1. e[k] \in F /\ e[k] \in DOMAIN raw /\ Admitted(raw[e[k]]) /\ raw[e[k]] \in Issue
    BY <1>5, <1>6, <1>7, <1>8
  <2>2. rep[k] = WithVersion(raw[e[k]], v)
    BY <1>5
  <2> QED
    BY <2>1, <2>2, WithVersionKeeps, SameFields
<1>12. \A k \in DOMAIN rep : \E f \in paths : \E i \in DOMAIN batches[f] :
          Plain(rep[k]) = Plain(batches[f][i]) /\ Admitted(batches[f][i])
  <2> SUFFICES ASSUME NEW k \in DOMAIN rep
               PROVE  \E f \in paths : \E i \in DOMAIN batches[f] :
                        Plain(rep[k]) = Plain(batches[f][i]) /\ Admitted(batches[f][i])
    OBVIOUS
  <2>0. k \in 1..N
    BY <1>5
  <2>1. PICK f \in paths : \E i \in DOMAIN batches[f] : e[k] = off[f] + i
    BY <1>9, <1>11, <2>0
  <2>2. PICK i \in DOMAIN batches[f] : raw[e[k]] = batches[f][i]
    BY <1>9, <2>1
  <2> QED
    BY <1>11, <2>0, <2>2
<1>13. ASSUME NEW f \in paths, NEW i \in DOMAIN batches[f],
              Ordinary(batches[f][i]), Admitted(batches[f][i])
       PROVE  \E first \in 1..i :
               /\ Same(batches[f][first], batches[f][i]) /\ Admitted(batches[f][first])
               /\ Cardinality({k \in DOMAIN rep :
                    rep[k].file = f /\ Same(rep[k], batches[f][i])}) = 1
               /\ \E k \in DOMAIN rep : Plain(rep[k]) = Plain(batches[f][first])
               /\ \A j \in 1..(first - 1) :
                    Admitted(batches[f][j]) => ~Same(batches[f][j], batches[f][i])
  <2> DEFINE iss == batches[f][i]
             M == {j \in 1..i : Same(batches[f][j], iss) /\ Admitted(batches[f][j])}
  <2>1. i \in Nat /\ i # 0 /\ \A j \in 1..i : j \in DOMAIN batches[f]
    BY <1>3
  <2>2. iss \in Issue /\ Same(iss, iss)
    BY <1>3, SameFields
  <2>3. M \subseteq Nat /\ i \in M
    BY <1>13, <2>1, <2>2
  <2>4. PICK first \in M : \A j \in M : first <= j
    <3> HIDE DEF M
    <3> QED
      BY <2>3, LeastNumber
  <2> DEFINE q0 == off[f] + first
  <2>5. first \in 1..i /\ first \in DOMAIN batches[f] /\ Same(batches[f][first], iss)
        /\ Admitted(batches[f][first])
    BY <2>1, <2>4
  <2>6. q0 \in DOMAIN raw /\ raw[q0] = batches[f][first] /\ raw[q0] \in Issue /\ q0 \in S
    BY <1>6, <1>8, <1>9, <2>5
  <2>7. ASSUME NEW j \in 1..(first - 1), Admitted(batches[f][j]), Same(batches[f][j], iss)
        PROVE  FALSE
    <3>1. j \in 1..i /\ j < first /\ ~(first <= j)
      BY <2>1, <2>5
    <3> QED
      BY <2>4, <2>7, <3>1
  <2> HIDE DEF M
  <2>8. Ordinary(raw[q0])
    BY <1>13, <2>5, <2>6, SameFields DEF Ordinary
  <2>9. q0 \in F
    <3> SUFFICES ASSUME NEW j \in S, j < q0, Key(raw[j]) = Key(raw[q0]) PROVE FALSE
      BY <1>7, <2>6
    <3>1. j \in DOMAIN raw /\ Admitted(raw[j]) /\ raw[j] \in Issue
      BY <1>6, <1>8
    <3>2. raw[q0].file = raw[j].file /\ Same(raw[q0], raw[j])
      <4> HIDE DEF q0
      <4> QED
        BY <2>6, <2>8, <3>1, KeysAreExact
    <3>30. PICK f2 \in paths : \E i2 \in DOMAIN batches[f2] : j = off[f2] + i2
      BY <1>9, <3>1
    <3>3. PICK i2 \in DOMAIN batches[f2] : j = off[f2] + i2
      BY <3>30
    <3>4. raw[j] = batches[f2][i2] /\ f2 = f
      BY <1>9, <1>10, <2>5, <2>6, <3>2, <3>3
    <3>5. Same(batches[f][i2], iss)
      BY <2>5, <2>6, <3>2, <3>4, SameFields
    <3>6. i2 \in Nat /\ i2 # 0 /\ first \in Nat /\ off[f] \in Nat
      <4>1. i2 \in DOMAIN batches[f] /\ batches[f] \in Seq(Issue)
        BY <1>3, <3>4
      <4>2. i2 \in Nat /\ i2 # 0
        BY <4>1
      <4>3. first \in Nat
        BY <2>1, <2>5
      <4> QED
        BY <1>9, <4>2, <4>3
    <3>7. i2 \in 1..(first - 1)
      BY <3>3, <3>4, <3>6
    <3> QED
      BY <2>7, <3>1, <3>4, <3>5, <3>7
  <2>10. PICK k0 \in 1..N : e[k0] = q0
    BY <1>5, <2>9
  <2>11. Plain(rep[k0]) = Plain(batches[f][first]) /\ rep[k0].file = f /\ Same(rep[k0], iss)
    <3>1. Plain(rep[k0]) = Plain(raw[q0]) /\ rep[k0].file = raw[q0].file
          /\ Same(rep[k0], raw[q0])
      BY <1>11, <2>10
    <3> QED
      BY <1>10, <2>5, <2>6, <3>1, SameFields
  <2>12. ASSUME NEW k \in 1..N, rep[k].file = f, Same(rep[k], iss) PROVE k = k0
    <3>1. raw[e[k]].file = f /\ Same(raw[e[k]], iss) /\ e[k] \in F /\ e[k] \in S
          /\ e[k] \in Nat
      BY <1>7, <1>8, <1>11, <2>12, SameFields
    <3>2. raw[q0].file = f /\ Same(raw[q0], iss) /\ q0 \in Nat
      BY <1>8, <1>10, <2>5, <2>6
    <3>3. Key(raw[e[k]]) = Key(raw[q0])
      BY <3>1, <3>2, SameFields DEF Key, KeyWithoutFile
    <3>4. ~(e[k] < q0) /\ ~(q0 < e[k])
      BY <1>7, <2>6, <2>9, <3>1, <3>3
    <3>5. e[k] = q0
      <4> HIDE DEF q0
      <4> QED
        BY <3>1, <3>2, <3>4
    <3> QED
      BY <1>5, <2>10, <3>5
  <2>13. {k \in DOMAIN rep : rep[k].file = f /\ Same(rep[k], iss)} = {k0}
    BY <1>5, <2>11, <2>12
  <2>14. Cardinality({k0}) = 1
    BY FS_Singleton
  <2> QED
    BY <1>5, <2>5, <2>7, <2>10, <2>11, <2>13, <2>14
<1> QED
  BY <1>2, <1>12, <1>13 DEF Exact

\* The list of all issues until it is narrowed down, and the report from then on.
ReportInv ==
  /\ phase \in {"narrow", "report", "group", "fix", "write"} => RawInv
  /\ phase \in {"report", "group", "fix", "write"} => Exact(report)

LEMMA RawKept ==
  ASSUME RawInv, UNCHANGED <<paths, batches, raw>>
  PROVE  RawInv'
<1>1. PICK off : Offsets(off)
  BY DEF RawInv
<1>2. Offsets(off)'
  BY <1>1 DEF Offsets
<1> QED
  BY <1>2 DEF RawInv

LEMMA ExactKept ==
  ASSUME NEW rep, Exact(rep), rep = report',
         UNCHANGED <<paths, batches, settings, changedLines>>
  PROVE  Exact(report)'
<1>1. \A iss : Admitted(iss) <=> Admitted(iss)'
  BY DEF Admitted, On
<1>2. InOrder(report')
  BY DEF Exact
<1>3. \A k \in DOMAIN report' : \E f \in paths' : \E i \in DOMAIN batches'[f] :
         Plain(report'[k]) = Plain(batches'[f][i]) /\ Admitted(batches[f][i])'
  <2> SUFFICES ASSUME NEW k \in DOMAIN rep
               PROVE  \E f \in paths' : \E i \in DOMAIN batches'[f] :
                        Plain(rep[k]) = Plain(batches'[f][i]) /\ Admitted(batches[f][i])'
    OBVIOUS
  <2>1. PICK f \in paths : \E i \in DOMAIN batches[f] :
          Plain(rep[k]) = Plain(batches[f][i]) /\ Admitted(batches[f][i])
    BY DEF Exact
  <2>2. PICK i \in DOMAIN batches[f] :
          Plain(rep[k]) = Plain(batches[f][i]) /\ Admitted(batches[f][i])
    BY <2>1
  <2>3. Admitted(batches[f][i])'
    BY <1>1, <2>2
  <2> QED
    BY <2>2, <2>3
<1> QED
  BY <1>1, <1>2, <1>3 DEF Exact

LEMMA ReportKept ==
  ASSUME ReportInv, UNCHANGED <<paths, batches, raw, report, settings, changedLines>>,
         phase' \in {"report", "group", "fix", "write"} =>
           phase \in {"report", "group", "fix", "write"},
         phase' # "narrow"
  PROVE  ReportInv'
<1>1. RawInv => RawInv'
  BY RawKept
<1>2. Exact(report) => Exact(report)'
  BY ExactKept
<1> QED
  BY <1>1, <1>2 DEF ReportInv

LEMMA ReportStep ==
  TypeInv /\ ReportInv /\ [Next]_vars => ReportInv'
<1> SUFFICES ASSUME TypeInv, ReportInv, [Next]_vars PROVE ReportInv'
  OBVIOUS
<1> USE DEF Exit, Go, input, setting, choice, found, fixing
<1>1. CASE phase' \notin {"narrow", "report", "group", "fix", "write"}
  BY <1>1 DEF ReportInv
<1>2. CASE LoadConfig \/ ParseArguments \/ Dispatch \/ Select
  BY <1>1, <1>2 DEF LoadConfig, ParseArguments, Dispatch, Select
<1>3. CASE ReadStdin \/ CollectFile \/ CollectStaged \/ CollectDiff \/ Walk
  BY <1>1, <1>3 DEF ReadStdin, CollectFile, CollectStaged, CollectDiff, Walk
<1>4. CASE Audit \/ WriteReport \/ EndFix \/ Kill
  BY <1>1, <1>4 DEF Audit, WriteReport, EndFix, Kill
<1>5. CASE Scan
  <2>1. RawInv' /\ phase' = "narrow"
    BY <1>5, ScanRaw DEF Scan
  <2> QED
    BY <2>1 DEF ReportInv
<1>6. CASE NarrowDown
  <2>1. RawInv /\ RawInv'
    BY <1>6, RawKept DEF NarrowDown, ReportInv
  <2>2. Exact(report')
    BY <1>6, <2>1, ReportExact DEF NarrowDown
  <2>3. Exact(report)'
    BY <1>6, <2>2, ExactKept DEF NarrowDown
  <2> QED
    BY <2>1, <2>3 DEF ReportInv
<1>7. CASE GroupByFile \/ LeaveFile \/ StartWrite \/ FinishWrite
  BY <1>7, ReportKept DEF GroupByFile, LeaveFile, StartWrite, FinishWrite
<1>8. CASE UNCHANGED vars
  <2>1. RawInv => RawInv'
    BY <1>8, RawKept DEF vars
  <2>2. Exact(report) => Exact(report)'
    BY <1>8, ExactKept DEF vars
  <2> QED
    BY <1>8, <2>1, <2>2 DEF vars, ReportInv
<1> QED
  BY <1>2, <1>3, <1>4, <1>5, <1>6, <1>7, <1>8 DEF Next

\* For any batches in any order of arrival: the report is in order, says nothing
\* that no checker found, and has the first admitted issue of each place, checker
\* and message of a file exactly once (filterBySeverity, filterByChangedLines,
\* DedupeIssues, ApplyGoVersion, sort.Slice in main.go).
THEOREM ReportCorrect == Spec => []ReportIsExact
<1>1. Init => TypeInv /\ ReportInv
  BY TypeInit DEF Init, ReportInv
<1>2. ReportInv => ReportIsExact
  BY DEF ReportInv, Exact, ReportIsExact
<1> QED
  BY <1>1, <1>2, TypeStep, ReportStep, PTL DEF Spec

-----------------------------------------------------------------------------
(* -fix *)

\* What justifies the change of a file.
Due(f) ==
  /\ f \in paths
  /\ \E i \in DOMAIN batches[f] : batches[f][i].fix /\ Admitted(batches[f][i])

WriteInv ==
  /\ phase # "done" => status = "running"
  /\ phase \in {"group", "fix", "write"} => On("fix")
  /\ phase \in {"fix", "write"} => \A f \in todo : Due(f)
  /\ \A f \in Files : disk[f] # "old" =>
       On("fix") /\ Due(f) /\ status \in {"running", "killed", "0"}

\* An issue that -fix can act on in the report is one of a batch of its file.
LEMMA FixableIsDue ==
  ASSUME TypeInv, RawInv, Exact(report), NEW f \in Fixable(report)
  PROVE  Due(f)
<1>1. PICK k \in DOMAIN report : report[k].fix /\ report[k].file = f
  BY DEF Fixable
<1>20. PICK g \in paths : \E i \in DOMAIN batches[g] :
         Plain(report[k]) = Plain(batches[g][i]) /\ Admitted(batches[g][i])
  BY DEF Exact
<1>2. PICK i \in DOMAIN batches[g] :
        Plain(report[k]) = Plain(batches[g][i]) /\ Admitted(batches[g][i])
  BY <1>20
<1>3. report[k] \in Issue
  BY DEF TypeInv, TypeOK
<1>4. batches[g][i] \in Issue /\ batches[g][i].file = g
  BY DEF RawInv
<1>5. batches[g][i].file = report[k].file /\ batches[g][i].fix = report[k].fix
  BY <1>2, <1>3, <1>4, PlainKeeps
<1> QED
  BY <1>1, <1>2, <1>4, <1>5 DEF Due

LEMMA WriteStep ==
  TypeInv /\ FixingInv /\ ReportInv /\ WriteInv /\ [Next]_vars => WriteInv'
<1> SUFFICES ASSUME TypeInv, FixingInv, ReportInv, WriteInv, [Next]_vars PROVE WriteInv'
  OBVIOUS
<1> USE DEF Exit, Go, input, setting, choice, found, fixing
<1>1. ASSUME UNCHANGED <<paths, batches, changedLines, settings>>
      PROVE  (On("fix") => On("fix")') /\ \A f : Due(f) => Due(f)'
  BY <1>1 DEF On, Due, Admitted
<1>2. CASE LoadConfig \/ ParseArguments \/ Dispatch \/ Select
  BY <1>2 DEF LoadConfig, ParseArguments, Dispatch, Select, WriteInv, FixingInv
<1>3. CASE ReadStdin \/ CollectFile \/ CollectStaged \/ CollectDiff \/ Walk
  BY <1>3 DEF ReadStdin, CollectFile, CollectStaged, CollectDiff, Walk, WriteInv, FixingInv
<1>4. CASE Audit \/ Scan \/ WriteReport
  BY <1>4 DEF Audit, Scan, WriteReport, WriteInv, FixingInv
<1>5. CASE NarrowDown
  <2>1. phase' \in {"group", "report"} /\ (phase' = "group" => On("fix"))
    BY <1>5 DEF NarrowDown
  <2>2. \A f \in Files : disk'[f] = "old"
    BY <1>5 DEF NarrowDown, FixingInv
  <2>3. On("fix") => On("fix")'
    BY <1>5 DEF NarrowDown, On
  <2> QED
    BY <1>5, <2>1, <2>2, <2>3 DEF NarrowDown, WriteInv
<1>6. CASE GroupByFile
  <2>1. \A f \in Files : disk'[f] = "old"
    BY <1>6 DEF GroupByFile, FixingInv
  <2>2. \A f \in todo' : Due(f)
    BY <1>6, FixableIsDue DEF GroupByFile, ReportInv
  <2>3. On("fix") /\ phase' = "fix" /\ status' = "running"
    BY <1>6 DEF GroupByFile, WriteInv
  <2>4. (On("fix") => On("fix")') /\ \A f : Due(f) => Due(f)'
    BY <1>1, <1>6 DEF GroupByFile
  <2> QED
    BY <2>1, <2>2, <2>3, <2>4 DEF WriteInv
<1>7. CASE LeaveFile \/ FinishWrite
  <2>1. (On("fix") => On("fix")') /\ \A f : Due(f) => Due(f)'
    BY <1>1, <1>7 DEF LeaveFile, FinishWrite
  <2>2. /\ todo' \subseteq todo /\ phase \in {"fix", "write"} /\ phase' = "fix"
        /\ status' = status
    BY <1>7 DEF LeaveFile, FinishWrite
  <2>3. \A f \in Files : disk'[f] # "old" => disk[f] # "old" \/ f \in todo
    BY <1>7 DEF LeaveFile, FinishWrite, FixingInv
  <2> QED
    BY <2>1, <2>2, <2>3 DEF WriteInv
<1>8. CASE StartWrite
  <2>1. (On("fix") => On("fix")') /\ \A f : Due(f) => Due(f)'
    BY <1>1, <1>8 DEF StartWrite
  <2>2. /\ todo' = todo /\ phase = "fix" /\ phase' = "write" /\ status' = status
    BY <1>8 DEF StartWrite
  <2>3. \A f \in Files : disk'[f] # "old" => disk[f] # "old" \/ f \in todo
    BY <1>8 DEF StartWrite, FixingInv
  <2> QED
    BY <2>1, <2>2, <2>3 DEF WriteInv
<1>9. CASE EndFix \/ Kill
  <2>1. (On("fix") => On("fix")') /\ \A f : Due(f) => Due(f)'
    BY <1>1, <1>9 DEF EndFix, Kill
  <2>2. phase' = "done" /\ status' \in {"killed", "0"} /\ disk' = disk
    BY <1>9 DEF EndFix, Kill
  <2> QED
    BY <2>1, <2>2 DEF WriteInv
<1>10. CASE UNCHANGED vars
  <2>1. (On("fix") => On("fix")') /\ \A f : Due(f) => Due(f)'
    BY <1>1, <1>10 DEF vars
  <2>2. UNCHANGED <<phase, status, todo, disk>>
    BY <1>10 DEF vars
  <2>3. On("fix")' => On("fix")
    BY <1>10 DEF vars, On
  <2> QED
    BY <2>1, <2>2, <2>3 DEF WriteInv
<1> QED
  BY <1>2, <1>3, <1>4, <1>5, <1>6, <1>7, <1>8, <1>9, <1>10 DEF Next

\* For any tree, batches and command line: a source file is changed only by -fix,
\* for an admitted issue a checker found in it, and never by a run that ends as a
\* failed check (main, applyFixes).
THEOREM OnlyFixIsAllowedToWrite == Spec => []OnlyFixWrites
<1>1. Init => TypeInv /\ FixingInv /\ SettingsInv /\ ReportInv /\ WriteInv
  BY TypeInit DEF Init, FixingInv, SettingsInv, ReportInv, WriteInv
<1>2. TypeInv /\ FixingInv /\ SettingsInv /\ ReportInv /\ WriteInv /\ [Next]_vars =>
        TypeInv' /\ FixingInv' /\ SettingsInv' /\ ReportInv' /\ WriteInv'
  BY TypeStep, FixingStep, SettingsStep, ReportStep, WriteStep
<1>3. SettingsInv /\ WriteInv => OnlyFixWrites
  <2> SUFFICES ASSUME SettingsInv, WriteInv, NEW f \in Files, disk[f] # "old"
               PROVE  /\ NoDashedValue(args) => Intended(args, config, "fix") = "true"
                      /\ f \in paths
                      /\ \E i \in DOMAIN batches[f] :
                           batches[f][i].fix /\ Admitted(batches[f][i])
                      /\ status \in {"running", "killed", "0"}
    BY DEF OnlyFixWrites
  <2>1. On("fix") /\ Due(f) /\ status \in {"running", "killed", "0"}
    BY DEF WriteInv
  <2>2. "fix" \in Flags
    BY DEF Flags, BoolFlags
  <2>25. "fix" \notin SwitchedOff(config)
    <3>1. "fix" \in Flags /\ Default["fix"] = "false"
      BY DEF Default, Flags, BoolFlags
    <3> QED
      BY <3>1 DEF SwitchedOff
  <2>3. NoDashedValue(args) => settings["fix"] = Intended(args, config, "fix")
    BY <2>2, <2>25 DEF SettingsInv
  <2> QED
    BY <2>1, <2>3 DEF On, Due
<1> QED
  BY <1>1, <1>2, <1>3, PTL DEF Spec

=============================================================================

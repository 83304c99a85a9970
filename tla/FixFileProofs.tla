---------------------------- MODULE FixFileProofs --------------------------
(***************************************************************************)
(* What -fix does to the findings of a function, for bodies of any length. *)
(* The argument: an edit changes a declaration's capacity and nothing the  *)
(* shape of the body depends on, so every finding after it was one before; *)
(* and an edit that were possible after a fix was possible before it, when *)
(* the overlap filter can have dropped it only for another edit of the     *)
(* same declaration. And what it does to structs: their lines are put in   *)
(* another order, from the largest field to the smallest, which leaves no  *)
(* gaps between fields of known sizes that pack.                           *)
(***************************************************************************)
EXTENDS FixFile, ListLemmas, TLAPS

\* What edits preserve: r has the loops, names and depths of p, and p's
\* capacities or more.
Refines(p, r) ==
  /\ DOMAIN r = DOMAIN p
  /\ \A i \in DOMAIN p :
       /\ r[i].depth = p[i].depth /\ r[i].name = p[i].name
       /\ r[i].over = p[i].over /\ r[i].listed = p[i].listed
       /\ r[i].length = p[i].length
       /\ \A k \in Kind \ {"zero", "make"} : r[i].kind = k <=> p[i].kind = k
       /\ p[i].kind = "make" => r[i].kind = "make"
       /\ r[i].caps = {} => p[i].caps = {}

\* Edits as fixFile makes them.
EditsOf(p, edits) ==
  \A e \in edits : /\ e.at \in DOMAIN p /\ p[e.at].kind \in {"zero", "make", "map"}
                   /\ e.line \in Nat /\ e.cap \in Hint

\* A statement of a body, and its parts.
LEMMA BodyStatement ==
  ASSUME NEW p \in Body
  PROVE  /\ DOMAIN p \subseteq Nat
         /\ \A i \in DOMAIN p : p[i] \in Statement
BY DEF Body

\* Targets are declarations.
LEMMA TargetIsDeclaration ==
  ASSUME NEW p, NEW iss, NEW d \in Target(p, iss)
  PROVE  /\ d \in DOMAIN p
         /\ p[d].kind = "zero" \/ (p[d].kind \in {"make", "map"} /\ p[d].caps = {})
BY DEF Target, MapTarget, SliceTarget

\* The edits of fixFile are edits of declarations.
LEMMA EditsAreEdits ==
  ASSUME NEW p, NEW found \in SUBSET Issue
  PROVE  EditsOf(p, Edits(p, found))
<1>1. SUFFICES ASSUME NEW e \in Edits(p, found)
               PROVE  /\ e.at \in DOMAIN p /\ p[e.at].kind \in {"zero", "make", "map"}
                      /\ e.line \in Nat /\ e.cap \in Hint
  BY DEF EditsOf
<1>2. PICK iss \in found :
             \E d \in Target(p, iss) : e = [at |-> d, line |-> iss.line, cap |-> iss.cap]
  BY <1>1 DEF Edits
<1>3. iss \in Issue
  OBVIOUS
<1>4. iss.line \in Nat /\ iss.cap \in Hint
  BY <1>3 DEF Issue
<1> QED
  BY <1>2, <1>4, TargetIsDeclaration

\* An edited body is a body.
LEMMA ApplyIsBody ==
  ASSUME NEW p \in Body, NEW edits, EditsOf(p, edits)
  PROVE  Apply(p, edits) \in Body
<1> DEFINE r == Apply(p, edits)
<1>1. PICK n \in Nat : DOMAIN p = 1..n
  BY DEF Body
<1>2. DOMAIN r = 1..n
  BY <1>1 DEF Apply
<1>3. ASSUME NEW i \in 1..n
      PROVE  r[i] \in Statement
  <2>1. p[i] \in Statement
    BY <1>1, BodyStatement
  <2>2. CASE \E e \in edits : e.at = i
    <3> DEFINE kind == IF p[i].kind = "map" THEN "map" ELSE "make"
               caps == {[line |-> e.line, cap |-> e.cap] : e \in {f \in edits : f.at = i}}
    <3>1. r[i] = [p[i] EXCEPT !.kind = kind, !.caps = caps]
      BY <1>1, <2>2 DEF Apply
    <3>2. caps \subseteq [line : Nat, cap : Hint]
      BY DEF EditsOf
    <3>3. kind \in Kind
      BY DEF Kind, Decl
    <3> QED
      BY <2>1, <3>1, <3>2, <3>3 DEF Statement
  <2>3. CASE ~ \E e \in edits : e.at = i
    BY <1>1, <2>1, <2>3 DEF Apply
  <2> QED
    BY <2>2, <2>3
<1>4. r = [i \in 1..n |-> r[i]]
  BY <1>1 DEF Apply
<1> QED
  BY <1>2, <1>3, <1>4 DEF Body

\* An edited body has the shape of the body.
LEMMA ApplyRefines ==
  ASSUME NEW p \in Body, NEW edits, EditsOf(p, edits)
  PROVE  Refines(p, Apply(p, edits))
<1> DEFINE r == Apply(p, edits)
<1>1. DOMAIN r = DOMAIN p
  BY DEF Apply
<1>2. ASSUME NEW i \in DOMAIN p
      PROVE  /\ r[i].depth = p[i].depth /\ r[i].name = p[i].name
             /\ r[i].over = p[i].over /\ r[i].listed = p[i].listed
             /\ r[i].length = p[i].length
             /\ \A k \in Kind \ {"zero", "make"} : r[i].kind = k <=> p[i].kind = k
             /\ p[i].kind = "make" => r[i].kind = "make"
             /\ r[i].caps = {} => p[i].caps = {}
  <2>1. p[i] \in Statement
    BY BodyStatement
  <2>2. CASE \E e \in edits : e.at = i
    <3> DEFINE kind == IF p[i].kind = "map" THEN "map" ELSE "make"
               caps == {[line |-> e.line, cap |-> e.cap] : e \in {f \in edits : f.at = i}}
    <3>1. r[i] = [p[i] EXCEPT !.kind = kind, !.caps = caps]
      BY <2>2 DEF Apply
    <3>2. p[i].kind \in {"zero", "make", "map"}
      BY <2>2 DEF EditsOf
    <3>3. caps # {}
      BY <2>2
    <3>4. r[i].kind = kind /\ r[i].caps = caps
      BY <2>1, <3>1 DEF Statement
    <3> QED
      BY <2>1, <3>1, <3>2, <3>3, <3>4 DEF Statement
  <2>3. CASE ~ \E e \in edits : e.at = i
    BY <2>3 DEF Apply
  <2> QED
    BY <2>2, <2>3
<1> QED
  BY <1>1, <1>2 DEF Refines

-----------------------------------------------------------------------------
(* Findings of p and of a body r that refines it. *)

\* The nesting is that of p.
LEMMA SameNesting ==
  ASSUME NEW p \in Body, NEW r \in Body, Refines(p, r)
  PROVE  \A i, j \in DOMAIN p : /\ In(r, i, j) <=> In(p, i, j)
                                /\ Before(r, i, j) <=> Before(p, i, j)
<1>1. DOMAIN r = DOMAIN p /\ \A k \in DOMAIN p : r[k].depth = p[k].depth
  BY DEF Refines
<1>2. PICK n \in Nat : DOMAIN p = 1..n
  BY DEF Body
<1>3. ASSUME NEW i \in DOMAIN p, NEW j \in DOMAIN p
      PROVE  /\ In(r, i, j) <=> In(p, i, j)
             /\ Before(r, i, j) <=> Before(p, i, j)
  <2>1. \A k \in (i + 1)..j : r[k].depth = p[k].depth
    BY <1>1, <1>2
  <2>2. \A k \in i..j : r[k].depth = p[k].depth
    BY <1>1, <1>2
  <2>3. r[i].depth = p[i].depth /\ r[j].depth = p[j].depth
    BY <1>1
  <2>4. In(r, i, j) <=> In(p, i, j)
    BY <2>1, <2>3 DEF In
  <2>5. Before(r, i, j) <=> Before(p, i, j)
    BY <2>2, <2>3 DEF Before
  <2> QED
    BY <2>4, <2>5
<1> QED
  BY <1>3

\* A loop of p is one of r.
LEMMA SameKinds ==
  ASSUME NEW p \in Body, NEW r \in Body, Refines(p, r)
  PROVE  /\ DOMAIN r = DOMAIN p
         /\ \A i \in DOMAIN p :
              /\ r[i].kind \in Loop <=> p[i].kind \in Loop
              /\ \A k \in {"range", "func", "append", "write", "map"} :
                   r[i].kind = k <=> p[i].kind = k
BY DEF Refines, Kind, Loop, Decl

\* The loops and functions around a statement are those of p.
LEMMA SameLoops ==
  ASSUME NEW p \in Body, NEW r \in Body, Refines(p, r), NEW i \in DOMAIN p
  PROVE  /\ LoopOf(r, i) = LoopOf(p, i)
         /\ SameFunction(r, i) = SameFunction(p, i)
<1>1. {l \in DOMAIN r : r[l].kind \in Loop /\ In(r, l, i)}
        = {l \in DOMAIN p : p[l].kind \in Loop /\ In(p, l, i)}
  BY SameNesting, SameKinds
<1>2. {f \in DOMAIN r : r[f].kind = "func" /\ In(r, f, i)}
        = {f \in DOMAIN p : p[f].kind = "func" /\ In(p, f, i)}
  BY SameNesting, SameKinds
<1> DEFINE func == Nearest({f \in DOMAIN p : p[f].kind = "func" /\ In(p, f, i)})
<1>3. func \subseteq DOMAIN p
  BY DEF Nearest
<1>4. {d \in DOMAIN r : \A f \in func : In(r, f, d)}
        = {d \in DOMAIN p : \A f \in func : In(p, f, d)}
  BY <1>3, SameNesting, SameKinds
<1>5. LoopOf(r, i) = LoopOf(p, i)
  BY <1>1 DEF LoopOf
<1>6. SameFunction(r, i) = SameFunction(p, i)
  BY <1>2, <1>4 DEF SameFunction
<1> QED
  BY <1>5, <1>6

\* No capacity is lost.
LEMMA StaysPreallocated ==
  ASSUME NEW p \in Body, NEW r \in Body, Refines(p, r), NEW name, NEW l \in DOMAIN p,
         IsPreallocated(p, name, l)
  PROVE  IsPreallocated(r, name, l)
<1>1. PICK d \in SameFunction(p, l) :
        d < l /\ p[d].kind = "make" /\ p[d].name = name /\ p[d].caps # {}
  BY DEF IsPreallocated
<1>2. d \in DOMAIN p
  BY DEF SameFunction
<1>3. r[d].kind = "make" /\ r[d].name = name /\ r[d].caps # {}
  BY <1>1, <1>2 DEF Refines
<1> QED
  BY <1>1, <1>3, SameLoops DEF IsPreallocated

\* No finding about an append is new.
LEMMA FewerAppendIssues ==
  ASSUME NEW p \in Body, NEW r \in Body, Refines(p, r)
  PROVE  AppendIssues(r) \subseteq AppendIssues(p)
<1>1. SUFFICES ASSUME NEW iss \in AppendIssues(r) PROVE iss \in AppendIssues(p)
  OBVIOUS
<1>2. PICK i \in DOMAIN r :
        iss \in {[line |-> i, column |-> r[i].depth, fix |-> "slice_cap",
                 name |-> r[i].name, cap |-> LoopHint(r, l)] : l \in GrowingIn(r, i)}
  BY <1>1 DEF AppendIssues
<1>3. PICK l \in GrowingIn(r, i) :
        iss = [line |-> i, column |-> r[i].depth, fix |-> "slice_cap",
               name |-> r[i].name, cap |-> LoopHint(r, l)]
  BY <1>2
<1>4. i \in DOMAIN p
  BY SameKinds
<1>5. l \in LoopOf(p, i) /\ r[i].kind = "append" /\ ~IsPreallocated(r, r[i].name, l)
  BY <1>4, SameLoops DEF GrowingIn
<1>6. l \in DOMAIN p
  BY <1>5 DEF LoopOf, Nearest
<1>7. r[i].name = p[i].name /\ r[i].depth = p[i].depth /\ p[i].kind = "append"
  BY <1>4, <1>5, SameKinds DEF Refines
<1>8. l \in GrowingIn(p, i)
  BY <1>5, <1>6, <1>7, StaysPreallocated DEF GrowingIn
<1>9. LoopHint(r, l) = LoopHint(p, l)
  <2>1. r[l].over = p[l].over
    BY <1>6 DEF Refines
  <2>2. r[l].kind = p[l].kind
    <3>1. p[l].kind \in Loop
      BY <1>5 DEF LoopOf, Nearest
    <3> QED
      BY <1>6, <3>1 DEF Refines, Kind, Loop, Decl
  <2> QED
    BY <2>1, <2>2 DEF LoopHint
<1>10. iss \in {[line |-> i, column |-> p[i].depth, fix |-> "slice_cap",
                name |-> p[i].name, cap |-> LoopHint(p, k)] : k \in GrowingIn(p, i)}
  BY <1>3, <1>7, <1>8, <1>9
<1> QED
  BY <1>4, <1>10 DEF AppendIssues

\* No finding about a map is new.
LEMMA FewerMapIssues ==
  ASSUME NEW p \in Body, NEW r \in Body, Refines(p, r)
  PROVE  MapIssues(r) \subseteq MapIssues(p)
<1> DEFINE fills(b, i) == {x \in DOMAIN b :
              /\ Before(b, i, x)
              /\ b[x].kind = "range" /\ b[x].listed /\ b[x].over # Odd
              /\ \E w \in DOMAIN b : /\ In(b, x, w) /\ b[w].kind = "write"
                                     /\ b[w].name = b[i].name}
<1>1. ASSUME NEW i \in DOMAIN p
      PROVE  MapHints(r, i) = MapHints(p, i)
  <2>1. ASSUME NEW x \in DOMAIN p
        PROVE  x \in fills(r, i) <=> x \in fills(p, i)
    <3>1. /\ Before(r, i, x) <=> Before(p, i, x)
          /\ r[x].kind = "range" <=> p[x].kind = "range"
          /\ r[x].listed = p[x].listed /\ r[x].over = p[x].over
      <4>1. r[x].kind = "range" <=> p[x].kind = "range"
        BY SameKinds
      <4>2. Before(r, i, x) <=> Before(p, i, x)
        BY SameNesting
      <4>3. r[x].listed = p[x].listed /\ r[x].over = p[x].over
        BY DEF Refines
      <4> QED
        BY <4>1, <4>2, <4>3
    <3>2. \A w \in DOMAIN p :
            /\ In(r, x, w) <=> In(p, x, w)
            /\ r[w].kind = "write" <=> p[w].kind = "write"
            /\ r[w].name = p[w].name
      BY SameNesting, SameKinds DEF Refines
    <3>3. DOMAIN r = DOMAIN p
      BY DEF Refines
    <3> QED
      BY <3>1, <3>2, <3>3
  <2>2. FillingLoop(r, i) = FillingLoop(p, i)
    <3>1. fills(r, i) = fills(p, i)
      BY <2>1 DEF Refines
    <3> QED
      BY <3>1 DEF FillingLoop
  <2>3. FillingLoop(p, i) \subseteq DOMAIN p
    BY DEF FillingLoop, Earliest
  <2>4. r[i].listed = p[i].listed /\ \A x \in DOMAIN p : r[x].over = p[x].over
    BY DEF Refines
  <2>5. {[form |-> "len", of |-> r[x].over] : x \in FillingLoop(r, i)}
          = {[form |-> "len", of |-> p[x].over] : x \in FillingLoop(p, i)}
    BY <2>2, <2>3, <2>4
  <2> QED
    BY <2>2, <2>4, <2>5 DEF MapHints
<1>2. SUFFICES ASSUME NEW iss \in MapIssues(r) PROVE iss \in MapIssues(p)
  OBVIOUS
<1>3. PICK i \in {k \in DOMAIN r : r[k].kind = "map" /\ r[k].caps = {}} :
        iss \in {[line |-> i, column |-> r[i].depth, fix |-> "map_cap",
                 name |-> r[i].name, cap |-> h] : h \in MapHints(r, i)}
  BY <1>2 DEF MapIssues
<1>4. i \in DOMAIN p /\ p[i].kind = "map"
  BY SameKinds
<1>5. p[i].caps = {} /\ r[i].depth = p[i].depth /\ r[i].name = p[i].name
  BY <1>3, <1>4 DEF Refines
<1>6. iss \in {[line |-> i, column |-> p[i].depth, fix |-> "map_cap",
               name |-> p[i].name, cap |-> h] : h \in MapHints(p, i)}
  BY <1>1, <1>3, <1>4, <1>5
<1> QED
  BY <1>4, <1>5, <1>6 DEF MapIssues

\* No finding is new.
LEMMA FewerIssues ==
  ASSUME NEW p \in Body, NEW r \in Body, Refines(p, r)
  PROVE  Check(r) \subseteq Check(p)
BY FewerAppendIssues, FewerMapIssues DEF Check

\* A fix of all findings leaves none that has an edit.
LEMMA NoEditLeft ==
  ASSUME NEW p \in Body, Check(p) \subseteq Issue,
         NEW edits \in Clean(p, Edits(p, Check(p)))
  PROVE  Edits(Apply(p, edits), Check(Apply(p, edits))) = {}
<1> DEFINE r == Apply(p, edits)
<1>1. edits \subseteq Edits(p, Check(p))
  BY DEF Clean
<1>2. EditsOf(p, edits)
  BY <1>1, EditsAreEdits DEF EditsOf
<1>3. r \in Body /\ Refines(p, r)
  BY <1>2, ApplyIsBody, ApplyRefines
<1>4. SUFFICES ASSUME NEW iss \in Check(r), NEW d \in Target(r, iss)
      PROVE  FALSE
  BY DEF Edits
<1>5. iss \in Check(p)
  BY <1>3, <1>4, FewerIssues
<1>6. d \in DOMAIN p
  BY <1>3, <1>4, SameKinds, TargetIsDeclaration
<1>7. r[d].kind = "zero" \/ r[d].caps = {}
  BY <1>4, TargetIsDeclaration
<1>8. \A e \in edits : e.at # d
  <2>1. SUFFICES ASSUME NEW e \in edits, e.at = d PROVE FALSE
    OBVIOUS
  <2> DEFINE kind == IF p[d].kind = "map" THEN "map" ELSE "make"
             caps == {[line |-> f.line, cap |-> f.cap] : f \in {f \in edits : f.at = d}}
  <2>2. r[d] = [p[d] EXCEPT !.kind = kind, !.caps = caps]
    BY <1>6, <2>1 DEF Apply
  <2>3. r[d].kind = kind /\ r[d].caps = caps
    BY <1>6, <2>2, BodyStatement DEF Statement
  <2>4. caps # {}
    BY <2>1
  <2> QED
    BY <1>7, <2>3, <2>4
<1>9. r[d] = p[d]
  BY <1>6, <1>8 DEF Apply
<1>10. d \in Target(p, iss)
  <2>1. CASE iss.fix = "map_cap"
    BY <1>4, <1>6, <1>9, <2>1 DEF Target, MapTarget
  <2>2. CASE iss.fix # "map_cap"
    <3>1. d \in SliceTarget(r, iss) /\ iss.name # Other
      BY <1>4, <2>2 DEF Target
    <3>2. PICK l \in EnclosingLoop(r, iss.line) :
            d \in Nearest({s \in DOMAIN r : Before(r, s, l)})
      BY <3>1 DEF SliceTarget
    <3>3. l \in DOMAIN p
      BY <1>3, SameKinds DEF EnclosingLoop, Nearest
    <3>4. {s \in DOMAIN r : Before(r, s, l)} = {s \in DOMAIN p : Before(p, s, l)}
      BY <1>3, <3>3, SameNesting, SameKinds
    <3>5. l \in EnclosingLoop(p, iss.line)
      <4> DEFINE around(b) == {k \in DOMAIN b : b[k].kind \in Loop /\ b[k].listed
                                               /\ (k = iss.line \/ In(b, k, iss.line))}
      <4>1. iss.line \in DOMAIN p
        BY <1>5 DEF Check, AppendIssues, MapIssues
      <4>2. ASSUME NEW k \in DOMAIN p
            PROVE  k \in around(r) <=> k \in around(p)
        <5>1. r[k].kind \in Loop <=> p[k].kind \in Loop
          BY <1>3, SameKinds
        <5>2. r[k].listed = p[k].listed
          BY <1>3 DEF Refines
        <5>3. In(r, k, iss.line) <=> In(p, k, iss.line)
          BY <1>3, <4>1, SameNesting
        <5>4. DOMAIN r = DOMAIN p
          BY <1>3, SameKinds
        <5> QED
          BY <5>1, <5>2, <5>3, <5>4
      <4>3. around(r) = around(p)
        BY <1>3, <4>2, SameKinds
      <4>4. EnclosingLoop(r, iss.line) = Nearest(around(r))
        BY DEF EnclosingLoop
      <4>5. EnclosingLoop(p, iss.line) = Nearest(around(p))
        BY DEF EnclosingLoop
      <4> QED
        BY <4>3, <4>4, <4>5
    <3>6. p[d].name = iss.name /\ (p[d].kind = "zero" \/ (p[d].kind = "make" /\ p[d].caps = {}))
      BY <1>9, <3>1 DEF SliceTarget
    <3>7. d \in Nearest({s \in DOMAIN p : Before(p, s, l)})
      BY <3>2, <3>4
    <3> QED
      BY <1>6, <2>2, <3>1, <3>5, <3>6, <3>7 DEF Target, SliceTarget
  <2> QED
    BY <2>1, <2>2
<1> DEFINE edit == [at |-> d, line |-> iss.line, cap |-> iss.cap]
<1>11. edit \in Edits(p, Check(p))
  BY <1>5, <1>10 DEF Edits
<1>12. edit \notin edits
  BY <1>8
<1>13. PICK f \in edits : Overlap(p, edit, f)
  BY <1>11, <1>12 DEF Clean
<1> QED
  BY <1>8, <1>13 DEF Overlap

\* Findings are findings.
LEMMA CheckType ==
  ASSUME NEW p \in Body
  PROVE  Check(p) \subseteq Issue
<1> USE PreallocAssumption
<1>1. ASSUME NEW i \in DOMAIN p
      PROVE  i \in Nat /\ p[i].depth \in Nat /\ p[i].name \in Names \cup {Other}
             /\ p[i].over \in Names \cup Nat \cup {Other, Call, Odd}
  BY BodyStatement DEF Statement
<1>2. \A i \in DOMAIN p : p[i].kind \in Loop => LoopHint(p, i) \in Hint
  <2>1. SUFFICES ASSUME NEW i \in DOMAIN p, p[i].kind \in Loop
                 PROVE  LoopHint(p, i) \in Hint
    OBVIOUS
  <2>2. HintForm[p[i].kind] \in {"len", "value", "succ"}
    BY <2>1 DEF Loop, HintForm
  <2>3. Default \in Hint
    BY DEF Default, Hint
  <2> QED
    BY <1>1, <2>2, <2>3 DEF LoopHint, Hint
<1>3. \A i \in DOMAIN p : MapHints(p, i) \subseteq Hint
  <2>1. SUFFICES ASSUME NEW i \in DOMAIN p, NEW h \in MapHints(p, i) PROVE h \in Hint
    OBVIOUS
  <2>2. CASE h = Default
    BY <2>2 DEF Default, Hint
  <2>3. CASE h # Default
    <3>1. PICK k \in FillingLoop(p, i) : h = [form |-> "len", of |-> p[k].over]
      BY <2>1, <2>3 DEF MapHints
    <3>2. k \in DOMAIN p /\ p[k].over # Odd
      BY <3>1 DEF FillingLoop, Earliest
    <3> QED
      BY <1>1, <3>1, <3>2 DEF Hint
  <2> QED
    BY <2>2, <2>3
<1>4. AppendIssues(p) \subseteq Issue
  <2>1. SUFFICES ASSUME NEW iss \in AppendIssues(p) PROVE iss \in Issue
    OBVIOUS
  <2>2. PICK i \in DOMAIN p :
          iss \in {[line |-> i, column |-> p[i].depth, fix |-> "slice_cap",
                   name |-> p[i].name, cap |-> LoopHint(p, l)] : l \in GrowingIn(p, i)}
    BY <2>1 DEF AppendIssues
  <2>3. PICK l \in GrowingIn(p, i) :
          iss = [line |-> i, column |-> p[i].depth, fix |-> "slice_cap",
                 name |-> p[i].name, cap |-> LoopHint(p, l)]
    BY <2>2
  <2>4. LoopHint(p, l) \in Hint
    BY <1>2 DEF GrowingIn, LoopOf, Nearest
  <2> QED
    BY <1>1, <2>3, <2>4 DEF Issue
<1>5. MapIssues(p) \subseteq Issue
  <2>1. SUFFICES ASSUME NEW iss \in MapIssues(p) PROVE iss \in Issue
    OBVIOUS
  <2>2. PICK i \in {k \in DOMAIN p : p[k].kind = "map" /\ p[k].caps = {}} :
          iss \in {[line |-> i, column |-> p[i].depth, fix |-> "map_cap",
                   name |-> p[i].name, cap |-> h] : h \in MapHints(p, i)}
    BY <2>1 DEF MapIssues
  <2> QED
    BY <1>1, <1>3, <2>2 DEF Issue
<1> QED
  BY <1>4, <1>5 DEF Check

-----------------------------------------------------------------------------
(* The runs *)

\* The inductive invariant: issues are those of the file as long as nothing was
\* saved since the check, and a result is that of the last fix.
IInv ==
  /\ body \in Body
  /\ issues \subseteq Issue
  /\ phase = "checked" /\ ~stale => issues = Check(body)
  /\ result = "written" => phase = "fixed"
  /\ NothingLeftToFix

\* A statement written or saved is a statement at its depth.
LEMMA StatementAtDepth ==
  ASSUME NEW s \in Statement, NEW depth \in Nat
  PROVE  [s EXCEPT !.depth = depth] \in Statement
BY DEF Statement

\* Every action keeps the invariant.
LEMMA StepInv ==
  IInv /\ [Next]_vars => IInv'
<1> SUFFICES ASSUME IInv, [Next]_vars PROVE IInv'
  OBVIOUS
<1> USE FixFileAssumption
<1>1. CASE WriteStatement
  <2>1. PICK s \in Statements, depth \in 0..Len(body) :
          body' = Append(body, [s EXCEPT !.depth = depth])
    BY <1>1 DEF WriteStatement
  <2>2. body' \in Body
    BY <2>1, StatementAtDepth DEF IInv, Body
  <2> QED
    BY <1>1, <2>2 DEF WriteStatement, IInv, NothingLeftToFix
<1>2. CASE WriteStruct
  BY <1>2 DEF WriteStruct, IInv, NothingLeftToFix
<1>3. CASE Save
  <2>1. PICK s \in Inserted, k \in DOMAIN body :
          body' = InsertAt(body, k, [s EXCEPT !.depth = body[k].depth])
    BY <1>3 DEF Save
  <2> DEFINE new == [s EXCEPT !.depth = body[k].depth]
  <2>2. body[k].depth \in Nat
    BY BodyStatement DEF IInv, Statement
  <2>3. new \in Statement
    BY <2>2, StatementAtDepth
  <2>4. k \in 1..Len(body) /\ Len(body) \in Nat /\ body \in Seq(Statement)
    BY DEF IInv, Body
  <2>5. SubSeq(body, 1, k - 1) \in Seq(Statement) /\ SubSeq(body, k, Len(body)) \in Seq(Statement)
    BY <2>4
  <2>6. body' \in Body
    BY <2>1, <2>3, <2>5 DEF Body, InsertAt
  <2> QED
    BY <1>3, <2>6 DEF Save, IInv, NothingLeftToFix
<1>4. CASE CheckFile
  BY <1>4, CheckType DEF CheckFile, IInv, NothingLeftToFix
<1>5. CASE FixNothing
  BY <1>5 DEF FixNothing, IInv, NothingLeftToFix
<1>6. CASE FixAll
  <2>1. PICK edits \in Clean(body, Edits(body, issues)) :
          \/ body' = Apply(body, edits) /\ result' = "written"
          \/ result' = "failed" /\ body' = body
    BY <1>6 DEF FixAll
  <2>2. phase' = "fixed" /\ issues' = issues /\ stale' = stale /\ phase = "checked"
    BY <1>6 DEF FixAll
  <2>3. CASE body' = Apply(body, edits) /\ result' = "written"
    <3>1. EditsOf(body, edits)
      BY EditsAreEdits DEF EditsOf, Clean, IInv
    <3>2. body' \in Body
      BY <2>3, <3>1, ApplyIsBody DEF IInv
    <3>3. ~stale => Edits(body', Check(body')) = {}
      BY <2>2, <2>3, NoEditLeft, CheckType DEF IInv
    <3> QED
      BY <2>2, <2>3, <3>2, <3>3 DEF IInv, NothingLeftToFix
  <2>4. CASE result' = "failed" /\ body' = body
    BY <2>2, <2>4 DEF IInv, NothingLeftToFix
  <2> QED
    BY <2>1, <2>3, <2>4
<1>7. CASE UNCHANGED vars
  BY <1>7 DEF vars, IInv, NothingLeftToFix
<1> QED
  BY <1>1, <1>2, <1>3, <1>4, <1>5, <1>6, <1>7 DEF Next

\* The invariant holds in every reachable state (fixFile run after run on a
\* file that is edited between and during the runs).
THEOREM Invariance == Spec => []IInv
<1>1. Init => IInv
  BY DEF Init, IInv, Body, NothingLeftToFix
<1>2. IInv /\ [Next]_vars => IInv'
  BY StepInv
<1> QED
  BY <1>1, <1>2, PTL DEF Spec

\* For functions of any length: after a fix that was written the next run of
\* -fix has nothing to change (fixFile, MemPreallocChecker.Check).
THEOREM FixedOnce == Spec => []NothingLeftToFix
<1>1. IInv => NothingLeftToFix
  BY DEF IInv
<1> QED
  BY <1>1, Invariance, PTL

\* For functions of any length: whatever the issues of a fix were found in, the
\* fix brings no finding of MemPrealloc about (fixFile on a file saved since it
\* was checked). Other checkers read other things of the result.
THEOREM NoNewIssue == Spec => OnlyRemovesIssues
<1>1. IInv /\ [Next]_vars => [FixAll => Check(body') \subseteq Check(body)]_vars
  <2>1. SUFFICES ASSUME IInv, FixAll PROVE Check(body') \subseteq Check(body)
    OBVIOUS
  <2>2. PICK edits \in Clean(body, Edits(body, issues)) :
          body' = Apply(body, edits) \/ body' = body
    BY <2>1 DEF FixAll
  <2>3. EditsOf(body, edits)
    BY <2>1, EditsAreEdits DEF EditsOf, Clean, IInv
  <2>4. Check(Apply(body, edits)) \subseteq Check(body)
    BY <2>1, <2>3, ApplyIsBody, ApplyRefines, FewerIssues DEF IInv
  <2> QED
    BY <2>2, <2>4
<1> QED
  BY <1>1, Invariance, PTL DEF Spec, OnlyRemovesIssues

-----------------------------------------------------------------------------
(* Structs *)

LEMMA Piece ==
  ASSUME NEW X, NEW s \in Seq(X), NEW m \in Nat \ {0}, NEW n \in Nat, n <= Len(s)
  PROVE  SubSeq(s, m, n) \in Seq(X)
OBVIOUS

LEMMA FieldsType ==
  ASSUME NEW s \in Struct
  PROVE  /\ s.lines \in Seq(Seq(Types)) /\ s.name \in StructNames
         /\ Fields(s) \in Seq(Types) /\ FieldCount(s) \in Nat
<1>1. s.lines \in Seq(Seq(Types)) /\ s.name \in StructNames
  BY DEF Struct
<1>2. Fields(s) \in Seq(Types)
  BY <1>1, FlattenType DEF Fields
<1> QED
  BY <1>1, <1>2 DEF FieldCount

\* Every field has a line.
LEMMA LineOfType ==
  ASSUME NEW s \in Struct, NEW f \in 1..FieldCount(s)
  PROVE  /\ LineOf(s, f) \in DOMAIN s.lines
         /\ Len(FlattenSeq(SubSeq(s.lines, 1, LineOf(s, f) - 1))) < f
         /\ f <= Len(FlattenSeq(SubSeq(s.lines, 1, LineOf(s, f))))
<1> DEFINE upTo(l) == Len(FlattenSeq(SubSeq(s.lines, 1, l)))
           T == {l \in 0..Len(s.lines) : f <= upTo(l)}
<1>1. s.lines \in Seq(Seq(Types)) /\ FieldCount(s) \in Nat
  BY FieldsType
<1>2. Len(s.lines) \in Nat /\ DOMAIN s.lines = 1..Len(s.lines)
  BY <1>1
<1>3. \A l \in 0..Len(s.lines) : upTo(l) \in Nat
  <2> SUFFICES ASSUME NEW l \in 0..Len(s.lines) PROVE upTo(l) \in Nat
    OBVIOUS
  <2>1. l \in Nat /\ l <= Len(s.lines) /\ 1 \in Nat \ {0}
    BY <1>2
  <2>2. SubSeq(s.lines, 1, l) \in Seq(Seq(Types))
    BY <1>1, <2>1, Piece
  <2>3. FlattenSeq(SubSeq(s.lines, 1, l)) \in Seq(Types)
    BY <2>2, FlattenType
  <2> QED
    BY <2>3
<1>4. upTo(Len(s.lines)) = FieldCount(s)
  <2>1. SubSeq(s.lines, 1, Len(s.lines)) = s.lines
    BY <1>1
  <2> QED
    BY <2>1 DEF FieldCount, Fields
<1>5. upTo(0) = 0
  <2>1. SubSeq(s.lines, 1, 0) = << >>
    BY <1>1
  <2>2. FlattenSeq(SubSeq(s.lines, 1, 0)) = << >>
    BY <2>1, FlattenEmpty
  <2>3. Len(<< >>) = 0
    OBVIOUS
  <2> QED
    BY <2>2, <2>3
<1> HIDE DEF upTo
<1>6. T \subseteq Nat /\ Len(s.lines) \in T
  BY <1>1, <1>2, <1>4
<1>7. PICK l \in T : \A k \in T : l <= k
  <2> HIDE DEF T
  <2> QED
    BY <1>6, LeastNumber
<1>8. l \in DOMAIN s.lines
  BY <1>1, <1>2, <1>5
<1>9. l - 1 \in 0..Len(s.lines) /\ l - 1 \notin T
  <2>1. l \in 1..Len(s.lines) /\ Len(s.lines) \in Nat
    BY <1>1, <1>8
  <2>2. l - 1 \in 0..Len(s.lines) /\ ~(l <= l - 1)
    BY <2>1
  <2> QED
    BY <1>7, <2>2
<1>10. upTo(l - 1) < f /\ f <= upTo(l)
  BY <1>1, <1>3, <1>9
<1>11. \E k \in DOMAIN s.lines : upTo(k - 1) < f /\ f <= upTo(k)
  BY <1>8, <1>10
<1> QED
  BY <1>11 DEF LineOf, upTo

\* The order is one of the fields, the largest first.
LEMMA OrderType ==
  ASSUME NEW s \in Struct
  PROVE  /\ Order(s) \in [1..FieldCount(s) -> 1..FieldCount(s)]
         /\ \A q, r \in 1..FieldCount(s) : Order(s)[q] = Order(s)[r] => q = r
         /\ \A q, r \in 1..FieldCount(s) : q <= r =>
              ApproxSize[Fields(s)[Order(s)[r]]] <= ApproxSize[Fields(s)[Order(s)[q]]]
<1> DEFINE N == FieldCount(s)
           size == [f \in 1..N |-> ApproxSize[Fields(s)[f]]]
           upTo == [f \in 1..N |-> {g \in 1..N :
                      size[g] > size[f] \/ (size[g] = size[f] /\ g <= f)}]
           choice(r) == CHOOSE f \in DOMAIN size :
                          Cardinality({g \in DOMAIN size :
                            size[g] > size[f] \/ (size[g] = size[f] /\ g <= f)}) = r
<1>1. N \in Nat /\ Fields(s) \in Seq(Types) /\ DOMAIN Fields(s) = 1..N
  BY FieldsType DEF FieldCount
<1>2. \A f \in 1..N : size[f] \in Nat
  <2>1. \A t \in Types : ApproxSize[t] \in Nat
    BY TypesAssumption DEF ApproxSize
  <2> QED
    BY <1>1, <2>1
<1>3. Order(s) = [r \in DOMAIN size |-> choice(r)]
  BY DEF Order
<1>30. DOMAIN size = 1..N /\ \A f \in 1..N : size[f] = ApproxSize[Fields(s)[f]]
  OBVIOUS
<1> HIDE DEF size, N
<1>4. upTo \in [1..N -> SUBSET (1..N)] /\ \A f \in 1..N : f \in upTo[f]
  BY <1>1, <1>2
<1>5. ASSUME NEW f \in 1..N, NEW g \in 1..N, f # g,
             size[f] > size[g] \/ (size[f] = size[g] /\ f <= g)
      PROVE  upTo[f] \subseteq upTo[g] /\ g \notin upTo[f]
  <2>1. f \in Nat /\ g \in Nat /\ size[f] \in Nat /\ size[g] \in Nat
    BY <1>1, <1>2
  <2>2. g \notin upTo[f]
    BY <1>5, <2>1
  <2>3. ASSUME NEW h \in upTo[f] PROVE h \in upTo[g]
    <3>1. h \in 1..N /\ (size[h] > size[f] \/ (size[h] = size[f] /\ h <= f))
      BY <2>3
    <3>2. h \in Nat /\ size[h] \in Nat
      BY <1>1, <1>2, <3>1
    <3>3. size[h] > size[g] \/ (size[h] = size[g] /\ h <= g)
      BY <1>5, <2>1, <3>1, <3>2
    <3> QED
      BY <3>1, <3>3
  <2> QED
    BY <2>2, <2>3
<1>50. \A f, g \in 1..N : f # g => \/ (upTo[f] \subseteq upTo[g] /\ g \notin upTo[f])
                                  \/ (upTo[g] \subseteq upTo[f] /\ f \notin upTo[g])
  <2> SUFFICES ASSUME NEW f \in 1..N, NEW g \in 1..N, f # g
               PROVE  \/ (upTo[f] \subseteq upTo[g] /\ g \notin upTo[f])
                      \/ (upTo[g] \subseteq upTo[f] /\ f \notin upTo[g])
    OBVIOUS
  <2>1. f \in Nat /\ g \in Nat /\ size[f] \in Nat /\ size[g] \in Nat
    BY <1>1, <1>2
  <2>2. \/ size[f] > size[g] \/ (size[f] = size[g] /\ f <= g)
        \/ size[g] > size[f] \/ (size[g] = size[f] /\ g <= f)
    BY <2>1
  <2> HIDE DEF upTo
  <2> QED
    BY <1>5, <2>2
<1>51. \A f \in 1..N : upTo[f] = {g \in DOMAIN size :
                           size[g] > size[f] \/ (size[g] = size[f] /\ g <= f)}
  BY <1>30
<1> HIDE DEF upTo
<1>6. /\ \A f \in 1..N : Cardinality(upTo[f]) \in 1..N
      /\ \A f, g \in 1..N : upTo[f] \subseteq upTo[g] /\ g \notin upTo[f] =>
           Cardinality(upTo[f]) < Cardinality(upTo[g])
      /\ \A r \in 1..N : \E f \in 1..N : Cardinality(upTo[f]) = r
  BY <1>1, <1>4, <1>50, Ranking
<1>7. ASSUME NEW r \in 1..N
      PROVE  choice(r) \in 1..N /\ Cardinality(upTo[choice(r)]) = r
  <2>1. PICK f \in 1..N : Cardinality(upTo[f]) = r
    BY <1>6
  <2>2. f \in DOMAIN size /\ Cardinality({g \in DOMAIN size :
                              size[g] > size[f] \/ (size[g] = size[f] /\ g <= f)}) = r
    BY <1>30, <1>51, <2>1
  <2>3. /\ choice(r) \in DOMAIN size
        /\ Cardinality({g \in DOMAIN size :
             size[g] > size[choice(r)] \/ (size[g] = size[choice(r)] /\ g <= choice(r))}) = r
    BY <2>2
  <2> HIDE DEF choice
  <2> QED
    BY <1>30, <1>51, <2>3
<1> HIDE DEF choice
<1>8. \A q, r \in 1..N : choice(q) = choice(r) => q = r
  BY <1>7
<1>9. ASSUME NEW q \in 1..N, NEW r \in 1..N, q <= r
      PROVE  size[choice(r)] <= size[choice(q)]
  <2>1. choice(q) \in 1..N /\ choice(r) \in 1..N
    BY <1>7
  <2>2. size[choice(q)] \in Nat /\ size[choice(r)] \in Nat /\ q \in Nat /\ r \in Nat
    BY <1>1, <1>2, <2>1
  <2>3. SUFFICES ASSUME size[choice(r)] > size[choice(q)] PROVE FALSE
    BY <2>2
  <2>4. choice(r) # choice(q)
    BY <2>2, <2>3
  <2>5. Cardinality(upTo[choice(r)]) < Cardinality(upTo[choice(q)])
    BY <1>5, <1>6, <2>1, <2>3, <2>4
  <2> QED
    BY <1>7, <1>9, <2>2, <2>5
<1>10. \A r \in 1..N : Order(s)[r] = choice(r)
  BY <1>3, <1>30
<1>11. \A q, r \in 1..N : q <= r =>
         ApproxSize[Fields(s)[Order(s)[r]]] <= ApproxSize[Fields(s)[Order(s)[q]]]
  BY <1>7, <1>9, <1>10, <1>30
<1> QED
  BY <1>3, <1>30, <1>7, <1>8, <1>11 DEF N

\* The lines of a struct whose fields are reordered are lines it had.
LEMMA ReorderedLines ==
  ASSUME NEW s \in Struct, FieldCount(s) >= 2,
         NEW order \in [1..FieldCount(s) -> 1..FieldCount(s)],
         NEW X, s.lines \in Seq(X)
  PROVE  /\ Reordered(s, order).lines \in Seq(X)
         /\ Reordered(s, order) = [s EXCEPT !.lines = Reordered(s, order).lines]
<1> DEFINE N == FieldCount(s)
           first == LineOf(s, 1)
           last == LineOf(s, N)
           middle == [r \in 1..N |-> s.lines[LineOf(s, order[r])]]
           before == SubSeq(s.lines, 1, first - 1)
           after == SubSeq(s.lines, last + 1, Len(s.lines))
           lines == before \o middle \o after
<1>1. N \in Nat
  BY FieldsType
<1>2. Len(order) = N /\ DOMAIN order = 1..N
  BY <1>1
<1>3. first \in DOMAIN s.lines /\ last \in DOMAIN s.lines
  <2>1. 1 \in 1..N /\ N \in 1..N
    BY <1>1
  <2>2. \A f \in 1..N : LineOf(s, f) \in DOMAIN s.lines
    BY LineOfType
  <2> QED
    BY <2>1, <2>2
<1>4. middle \in Seq(X)
  <2>1. \A r \in 1..N : order[r] \in 1..N
    OBVIOUS
  <2>2. \A r \in 1..N : LineOf(s, order[r]) \in DOMAIN s.lines
    BY <2>1, LineOfType
  <2>3. \A l \in DOMAIN s.lines : s.lines[l] \in X
    OBVIOUS
  <2>4. \A r \in 1..N : s.lines[LineOf(s, order[r])] \in X
    BY <2>2, <2>3
  <2> QED
    BY <1>1, <2>4
<1>5. Reordered(s, order) = [s EXCEPT !.lines = lines]
  BY <1>2 DEF Reordered, Struct
<1> HIDE DEF first, last, middle, N
<1>6. /\ first - 1 \in Nat /\ first - 1 <= Len(s.lines) /\ 1 \in Nat \ {0}
      /\ last + 1 \in Nat \ {0} /\ Len(s.lines) \in Nat /\ Len(s.lines) <= Len(s.lines)
  BY <1>3
<1>7. before \in Seq(X) /\ after \in Seq(X)
  BY <1>6, Piece
<1> HIDE DEF before, after
<1>8. lines \in Seq(X)
  BY <1>4, <1>7
<1> HIDE DEF lines
<1>9. Reordered(s, order).lines = lines
  BY <1>5 DEF Struct
<1> QED
  BY <1>5, <1>8, <1>9

\* A struct whose fields are reordered is a struct.
LEMMA ReorderedType ==
  ASSUME NEW s \in Struct, FieldCount(s) >= 2,
         NEW order \in [1..FieldCount(s) -> 1..FieldCount(s)]
  PROVE  Reordered(s, order) \in Struct
<1>1. s.lines \in Seq(Seq(Types))
  BY FieldsType
<1>2. /\ Reordered(s, order).lines \in Seq(Seq(Types))
      /\ Reordered(s, order) = [s EXCEPT !.lines = Reordered(s, order).lines]
  BY <1>1, ReorderedLines
<1> QED
  BY <1>2 DEF Struct

\* So is a formatted one.
LEMMA FormattedType ==
  ASSUME NEW s \in Struct
  PROVE  Formatted(s) \in Struct
<1> DEFINE pieces == [l \in DOMAIN s.lines |-> Apart(s.lines[l])]
<1>1. PICK n \in Nat : DOMAIN s.lines = 1..n
  BY FieldsType
<1>2. ASSUME NEW l \in 1..n PROVE pieces[l] \in Seq(Seq(Types))
  <2>1. PICK line \in Seq(Types) : line = s.lines[l]
    BY <1>1, FieldsType
  <2>2. <<line>> \in Seq(Seq(Types))
    OBVIOUS
  <2>3. [f \in DOMAIN line |-> <<line[f]>>] \in Seq(Seq(Types))
    <3>1. PICK m \in Nat : DOMAIN line = 1..m
      OBVIOUS
    <3>2. \A u \in Types : <<u>> \in Seq(Types)
      OBVIOUS
    <3>3. \A f \in 1..m : <<line[f]>> \in Seq(Types)
      BY <3>1, <3>2
    <3> QED
      BY <3>1, <3>3
  <2> QED
    BY <1>1, <2>1, <2>2, <2>3 DEF Apart
<1>3. pieces \in [1..n -> Seq(Seq(Types))]
  BY <1>1, <1>2
<1> HIDE DEF pieces
<1>4. FlattenSeq(pieces) \in Seq(Seq(Types))
  BY <1>3, FlattenElements
<1>5. [s EXCEPT !.lines = FlattenSeq(pieces), !.flat = FALSE] \in Struct
  BY <1>4 DEF Struct
<1> QED
  BY <1>5 DEF Formatted, pieces

LEMMA ReplacementType ==
  ASSUME NEW s \in Struct, FieldCount(s) >= 2,
         NEW order \in [1..FieldCount(s) -> 1..FieldCount(s)]
  PROVE  Replacement(s, order) \in Seq(Struct)
<1>1. CASE s.flat
  <2>1. Formatted(s) \in Struct /\ FieldCount(s) \in Nat
    BY FormattedType, FieldsType
  <2>2. [r \in DOMAIN order |-> Formatted(s)] \in Seq(Struct)
    BY <2>1
  <2> QED
    BY <1>1, <2>2 DEF Replacement
<1>2. CASE ~s.flat
  <2>1. Formatted(Reordered(s, order)) \in Struct
    BY ReorderedType, FormattedType
  <2>2. <<Formatted(Reordered(s, order))>> \in Seq(Struct)
    BY <2>1
  <2> QED
    BY <1>2, <2>2 DEF Replacement
<1> QED
  BY <1>1, <1>2

\* What becomes of the structs of a file are structs.
LEMMA StructResultsType ==
  ASSUME NEW ss \in Seq(Struct), NEW fixed \in StructResults(ss, StructIssues(ss))
  PROVE  fixed \in Seq(Struct)
<1> DEFINE found == StructIssues(ss)
           hit == {k \in DOMAIN ss : \E iss \in found : k \in ReorderTarget(ss, iss)}
           orders(k) == {iss.order : iss \in {i \in found : k \in ReorderTarget(ss, i)}}
           pieces(f) == [k \in DOMAIN ss |-> IF k \in hit THEN Replacement(ss[k], f[k])
                                            ELSE <<Formatted(ss[k])>>]
<1>1. PICK f : (\A k \in hit : f[k] \in orders(k)) /\ fixed = FlattenSeq(pieces(f))
  BY DEF StructResults
<1>2. ASSUME NEW k \in DOMAIN ss PROVE pieces(f)[k] \in Seq(Struct)
  <2>1. ss[k] \in Struct
    OBVIOUS
  <2>2. CASE k \notin hit
    <3>1. <<Formatted(ss[k])>> \in Seq(Struct)
      BY <2>1, FormattedType
    <3> QED
      BY <2>2, <3>1
  <2>3. CASE k \in hit
    <3>1. PICK iss \in found : k \in ReorderTarget(ss, iss) /\ f[k] = iss.order
      BY <1>1, <2>3
    <3>2. PICK s \in ToSet(ss) : iss = [name |-> s.name, order |-> Order(s)]
      BY DEF StructIssues
    <3>3. s \in Struct
      BY DEF ToSet
    <3>4. f[k] \in [1..FieldCount(s) -> 1..FieldCount(s)] /\ FieldCount(s) \in Nat
      BY <3>1, <3>2, <3>3, OrderType, FieldsType
    <3>5. Len(f[k]) = FieldCount(s)
      BY <3>4
    <3>6. FieldCount(ss[k]) >= 2 /\ FieldCount(ss[k]) = FieldCount(s)
      BY <3>1, <3>5 DEF ReorderTarget
    <3>7. Replacement(ss[k], f[k]) \in Seq(Struct)
      BY <2>1, <3>4, <3>6, ReplacementType
    <3> QED
      BY <2>3, <3>7
  <2> QED
    BY <2>2, <2>3
<1>3. PICK N \in Nat : DOMAIN ss = 1..N
  OBVIOUS
<1>4. pieces(f) \in [1..N -> Seq(Struct)]
  <2>1. pieces(f) = [k \in 1..N |-> pieces(f)[k]]
    BY <1>3
  <2> QED
    BY <1>2, <1>3, <2>1
<1> HIDE DEF pieces
<1> QED
  BY <1>1, <1>4, FlattenElements

\* Every variable has its type, and while a run has its issues those of the
\* structs are the ones of the file: an editor changes the function only.
FileInv ==
  /\ TypeOK
  /\ phase = "checked" => reorders = StructIssues(structs)

\* A struct with a line more, or with a field more on its last line.
LEMMA LongerStruct ==
  ASSUME NEW ss \in Seq(Struct), ss # <<>>, NEW lines \in Seq(Seq(Types))
  PROVE  [ss EXCEPT ![Len(ss)].lines = lines] \in Seq(Struct)
<1>1. Len(ss) \in DOMAIN ss /\ ss[Len(ss)] \in Struct
  OBVIOUS
<1>2. [ss[Len(ss)] EXCEPT !.lines = lines] \in Struct
  BY <1>1 DEF Struct
<1>3. [ss EXCEPT ![Len(ss)].lines = lines] = [ss EXCEPT ![Len(ss)] = [ss[Len(ss)] EXCEPT !.lines = lines]]
  BY <1>1
<1>4. \A t \in Struct : [ss EXCEPT ![Len(ss)] = t] \in Seq(Struct)
  BY <1>1
<1> QED
  BY <1>2, <1>3, <1>4

LEMMA WriteStructType ==
  ASSUME structs \in Seq(Struct), WriteStruct
  PROVE  structs' \in Seq(Struct)
<1> USE FixFileAssumption
<1>1. CASE \E s \in StructShapes : structs' = Append(structs, s)
  BY <1>1
<1>2. CASE /\ structs # <<>>
           /\ \E line \in {<<t>> : t \in Types} \cup {<<>>} :
                structs' = [structs EXCEPT ![Len(structs)].lines = Append(@, line)]
  <2>1. PICK line \in {<<t>> : t \in Types} \cup {<<>>} :
          structs' = [structs EXCEPT ![Len(structs)].lines = Append(@, line)]
    BY <1>2
  <2>2. line \in Seq(Types)
    <3>1. << >> \in Seq(Types) /\ \A t \in Types : <<t>> \in Seq(Types)
      OBVIOUS
    <3> QED
      BY <3>1
  <2>3. structs[Len(structs)].lines \in Seq(Seq(Types))
    <3>1. structs[Len(structs)] \in Struct
      BY <1>2
    <3> QED
      BY <3>1, FieldsType
  <2>4. Append(structs[Len(structs)].lines, line) \in Seq(Seq(Types))
    BY <2>2, <2>3
  <2>5. structs' = [structs EXCEPT ![Len(structs)].lines =
                      Append(structs[Len(structs)].lines, line)]
    BY <2>1
  <2> QED
    BY <1>2, <2>4, <2>5, LongerStruct
<1>3. CASE /\ structs # <<>> /\ Last(structs).lines # <<>>
           /\ \E t \in Types :
                structs' = [structs EXCEPT ![Len(structs)].lines =
                              Append(Front(@), Append(Last(@), t))]
  <2> DEFINE lines == structs[Len(structs)].lines
  <2>1. PICK t \in Types : structs' = [structs EXCEPT ![Len(structs)].lines =
                                         Append(Front(@), Append(Last(@), t))]
    BY <1>3
  <2>2. lines \in Seq(Seq(Types)) /\ lines # <<>>
    <3>1. structs[Len(structs)] \in Struct
      BY <1>3
    <3> QED
      BY <1>3, <3>1, FieldsType DEF Last
  <2>3. structs' = [structs EXCEPT ![Len(structs)].lines =
                      Append(Front(lines), Append(Last(lines), t))]
    BY <2>1
  <2> HIDE DEF lines
  <2>4. Front(lines) \in Seq(Seq(Types)) /\ Last(lines) \in Seq(Types)
    BY <2>2 DEF Front, Last
  <2>5. Append(Front(lines), Append(Last(lines), t)) \in Seq(Seq(Types))
    BY <2>4
  <2> QED
    BY <1>3, <2>3, <2>5, LongerStruct
<1> QED
  BY <1>1, <1>2, <1>3 DEF WriteStruct

LEMMA FileStep ==
  IInv /\ IInv' /\ FileInv /\ [Next]_vars => FileInv'
<1> SUFFICES ASSUME IInv, IInv', FileInv, [Next]_vars PROVE FileInv'
  OBVIOUS
<1> USE FixFileAssumption
<1>0. body' \in Body /\ issues' \subseteq Issue
  BY DEF IInv
<1>1. CASE WriteStatement
  BY <1>0, <1>1 DEF WriteStatement, FileInv, TypeOK
<1>2. CASE WriteStruct
  BY <1>0, <1>2, WriteStructType DEF WriteStruct, FileInv, TypeOK
<1>3. CASE Save
  BY <1>0, <1>3 DEF Save, FileInv, TypeOK
<1>4. CASE CheckFile
  <2>1. MaxRuns \in Nat
    OBVIOUS
  <2>2. runs < MaxRuns /\ runs' = runs + 1 /\ runs \in 0..MaxRuns
    BY <1>4 DEF CheckFile, FileInv, TypeOK
  <2>3. runs' \in 0..MaxRuns
    BY <2>1, <2>2
  <2> QED
    BY <1>0, <1>4, <2>3 DEF CheckFile, FileInv, TypeOK
<1>5. CASE FixNothing
  BY <1>0, <1>5 DEF FixNothing, FileInv, TypeOK
<1>6. CASE FixAll
  <2>1. phase' = "fixed" /\ result' \in {"failed", "written"} /\ UNCHANGED <<stale, runs>>
    BY <1>6 DEF FixAll
  <2>2. structs' \in Seq(Struct)
    <3>1. structs \in Seq(Struct) /\ reorders = StructIssues(structs)
      BY <1>6 DEF FixAll, FileInv, TypeOK
    <3>2. structs' \in StructResults(structs, reorders) \/ structs' = structs
      BY <1>6 DEF FixAll
    <3> QED
      BY <3>1, <3>2, StructResultsType
  <2> QED
    BY <1>0, <2>1, <2>2 DEF FileInv, TypeOK
<1>7. CASE UNCHANGED vars
  BY <1>7 DEF vars, FileInv, TypeOK
<1> QED
  BY <1>1, <1>2, <1>3, <1>4, <1>5, <1>6, <1>7 DEF Next

LEMMA FileInvariance == Spec => []FileInv
<1>1. Init => FileInv
  <2>1. << >> \in Seq(Struct) /\ << >> \in Seq(Statement)
    OBVIOUS
  <2>2. 0 \in 0..MaxRuns
    BY FixFileAssumption
  <2> QED
    BY <2>1, <2>2 DEF Init, FileInv, TypeOK, Body
<1> QED
  BY <1>1, FileStep, Invariance, PTL DEF Spec

\* For functions and structs of any size: whatever the reorder edits of the runs
\* make of a file is a file again (WriteStruct, structReorderEdit, fixFile).
THEOREM TypeCorrect == Spec => []TypeOK
<1>1. FileInv => TypeOK
  BY DEF FileInv
<1> QED
  BY <1>1, FileInvariance, PTL

-----------------------------------------------------------------------------
(* Capacities *)

\* The innermost loop is one.
LEMMA NearestIsOne ==
  ASSUME NEW S, S \subseteq Nat, NEW x \in Nearest(S), NEW y \in Nearest(S)
  PROVE  x = y
BY DEF Nearest

\* A fix of a file that was not saved since the check.
FixOf(p, r, edits) ==
  /\ p \in Body /\ r = Apply(p, edits) /\ EditsOf(p, edits)
  /\ edits \subseteq Edits(p, Check(p)) /\ Formats(edits)

LEMMA FixAllIsFix ==
  ASSUME IInv, FixAll, ~stale
  PROVE  \/ body' = body
         \/ \E edits : FixOf(body, body', edits)
<1>1. issues = Check(body) /\ body \in Body /\ issues \in SUBSET Issue
  BY DEF FixAll, IInv
<1>2. PICK edits \in Clean(body, Edits(body, issues)) :
        body' = body \/ (body' = Apply(body, edits) /\ Formats(edits))
  BY DEF FixAll
<1>3. edits \subseteq Edits(body, issues)
  BY DEF Clean
<1>4. EditsOf(body, edits)
  BY <1>1, <1>3, EditsAreEdits DEF EditsOf
<1> QED
  BY <1>1, <1>2, <1>3, <1>4 DEF FixOf

\* What an edit makes of its statement, and what it leaves alone.
LEMMA EditedStatement ==
  ASSUME NEW p \in Body, NEW edits, EditsOf(p, edits), NEW d \in DOMAIN p, NEW r,
         r = Apply(p, edits)
  PROVE  /\ (\A e \in edits : e.at # d) => r[d] = p[d]
         /\ (\E e \in edits : e.at = d) =>
              /\ r[d].kind = IF p[d].kind = "map" THEN "map" ELSE "make"
              /\ r[d].caps = {[line |-> e.line, cap |-> e.cap] : e \in {f \in edits : f.at = d}}
              /\ r[d].caps # {} /\ p[d].kind \in {"zero", "make", "map"}
<1>1. p[d] \in Statement
  BY BodyStatement
<1>2. (\A e \in edits : e.at # d) => r[d] = p[d]
  BY DEF Apply
<1>3. ASSUME \E e \in edits : e.at = d
      PROVE  /\ r[d].kind = IF p[d].kind = "map" THEN "map" ELSE "make"
             /\ r[d].caps = {[line |-> e.line, cap |-> e.cap] : e \in {f \in edits : f.at = d}}
             /\ r[d].caps # {} /\ p[d].kind \in {"zero", "make", "map"}
  <2> DEFINE kind == IF p[d].kind = "map" THEN "map" ELSE "make"
             caps == {[line |-> e.line, cap |-> e.cap] : e \in {f \in edits : f.at = d}}
  <2>1. r[d] = [p[d] EXCEPT !.kind = kind, !.caps = caps]
    BY <1>3 DEF Apply
  <2>2. caps # {}
    BY <1>3
  <2>3. r[d].kind = kind /\ r[d].caps = caps
    BY <1>1, <2>1 DEF Statement
  <2>4. p[d].kind \in {"zero", "make", "map"}
    BY <1>3 DEF EditsOf
  <2> QED
    BY <2>2, <2>3, <2>4
<1> QED
  BY <1>2, <1>3

\* The checker is right about an append to a name declared once.
LEMMA GoneIffEdited ==
  ASSUME NEW p, NEW r, NEW edits, FixOf(p, r, edits),
         NEW i \in DOMAIN p, NEW l \in GrowingIn(p, i), NEW d \in DOMAIN p,
         DeclaredOnce(p, i, l, d)
  PROVE  GrowingIn(r, i) = {} <=> r[d] # p[d]
<1>1. p \in Body /\ r \in Body /\ Refines(p, r) /\ EditsOf(p, edits) /\ r = Apply(p, edits)
  BY ApplyIsBody, ApplyRefines DEF FixOf
<1>2. /\ l \in LoopOf(p, i) /\ l \in DOMAIN p /\ p[i].kind = "append"
      /\ ~IsPreallocated(p, p[i].name, l)
  BY DEF GrowingIn, LoopOf, Nearest
<1>3. LoopOf(r, i) = LoopOf(p, i) /\ SameFunction(r, l) = SameFunction(p, l)
  BY <1>1, <1>2, SameLoops
<1>4. LoopOf(p, i) = {l}
  <2>1. \A k \in LoopOf(p, i) : k = l
    BY <1>1, <1>2, NearestIsOne, BodyStatement DEF LoopOf
  <2> QED
    BY <1>2, <2>1
<1>5. r[i].kind = "append" /\ r[i].name = p[i].name
  <2>1. r[i].kind = "append" <=> p[i].kind = "append"
    BY <1>1, SameKinds
  <2> QED
    BY <1>1, <1>2, <2>1 DEF Refines
<1>6. GrowingIn(r, i) = {} <=> IsPreallocated(r, p[i].name, l)
  BY <1>3, <1>4, <1>5 DEF GrowingIn
<1>7. /\ d \in SameFunction(p, l) /\ d < l /\ p[d].kind \in Decl \ {"map"}
      /\ p[d].name = p[i].name
      /\ \A e \in SameFunction(p, l) :
           p[e].kind \in Decl /\ p[e].name = p[i].name => e = d
  BY DEF DeclaredOnce, Declares
<1>8. ASSUME r[d] # p[d] PROVE IsPreallocated(r, p[i].name, l)
  <2>1. r[d].kind = "make" /\ r[d].caps # {}
    BY <1>1, <1>7, <1>8, EditedStatement
  <2>2. r[d].name = p[i].name
    BY <1>1, <1>7 DEF Refines
  <2> QED
    BY <1>3, <1>7, <2>1, <2>2 DEF IsPreallocated
<1>9. ASSUME IsPreallocated(r, p[i].name, l) PROVE r[d] # p[d]
  <2>1. PICK e \in SameFunction(p, l) :
          e < l /\ r[e].kind = "make" /\ r[e].name = p[i].name /\ r[e].caps # {}
    BY <1>3, <1>9 DEF IsPreallocated
  <2>2. e \in DOMAIN p
    BY DEF SameFunction
  <2>3. p[e].kind \in {"zero", "make"} /\ p[e].name = p[i].name
    <3>1. p[e] \in Statement
      BY <1>1, <2>2, BodyStatement
    <3>2. p[e].kind \in Kind
      BY <3>1 DEF Statement
    <3>3. \A k \in Kind \ {"zero", "make"} : r[e].kind = k <=> p[e].kind = k
      BY <1>1, <2>2 DEF Refines
    <3>4. r[e].name = p[e].name
      BY <1>1, <2>2 DEF Refines
    <3> QED
      BY <2>1, <3>2, <3>3, <3>4
  <2>4. e = d
    BY <1>7, <2>3 DEF Decl
  <2> QED
    BY <1>2, <2>1, <2>3, <2>4 DEF IsPreallocated
<1> QED
  BY <1>6, <1>8, <1>9

\* For functions of any length: an append to a name declared once stops being
\* reported exactly when a run rewrites that declaration (isPreallocatedBefore,
\* sliceCapEdit).
THEOREM CheckerIsRight == Spec => GoneIffGivenCapacity
<1> DEFINE Gone == \A i \in DOMAIN body : \A l \in GrowingIn(body, i), d \in DOMAIN body :
                     DeclaredOnce(body, i, l, d) =>
                       (GrowingIn(body', i) = {} <=> body'[d] # body[d])
<1>1. IInv /\ [Next]_vars => [FixAll /\ ~stale => Gone]_vars
  <2>1. SUFFICES ASSUME IInv, FixAll, ~stale PROVE Gone
    OBVIOUS
  <2>2. CASE body' = body
    BY <2>2
  <2>3. CASE \E edits : FixOf(body, body', edits)
    BY <2>3, GoneIffEdited
  <2> QED
    BY <2>1, <2>2, <2>3, FixAllIsFix
<1> QED
  BY <1>1, Invariance, PTL DEF Spec, GoneIffGivenCapacity

-----------------------------------------------------------------------------
(* The result compiles *)

\* A declaration that is visible stays one.
LEMMA StaysVisible ==
  ASSUME NEW p \in Body, NEW r \in Body, Refines(p, r), NEW name, NEW i \in DOMAIN p,
         NEW depth, VisibleAt(p, name, i, depth)
  PROVE  VisibleAt(r, name, i, depth)
<1>1. CASE name \in Params
  BY <1>1 DEF VisibleAt
<1>2. CASE name \notin Params
  <2>1. PICK n \in Nat : DOMAIN p = 1..n
    BY DEF Body
  <2>2. PICK d \in 1..(i - 1) :
          /\ p[d].kind \in Decl /\ p[d].name = name /\ p[d].depth <= depth
          /\ \A k \in d..(i - 1) : p[k].depth >= p[d].depth
    BY <1>2 DEF VisibleAt
  <2>3. d \in DOMAIN p /\ \A k \in d..(i - 1) : k \in DOMAIN p
    BY <2>1
  <2>4. \A k \in DOMAIN p : r[k].depth = p[k].depth /\ r[k].name = p[k].name
    BY DEF Refines
  <2>5. r[d].kind \in Decl
    <3>1. r[d] \in Statement
      BY <2>3, BodyStatement DEF Refines
    <3>2. r[d].kind \in Kind
      BY <3>1 DEF Statement
    <3>3. \A k \in Kind \ {"zero", "make"} : r[d].kind = k <=> p[d].kind = k
      BY <2>3 DEF Refines
    <3> QED
      BY <2>2, <3>2, <3>3 DEF Decl
  <2> QED
    BY <2>2, <2>3, <2>4, <2>5 DEF VisibleAt
<1> QED
  BY <1>1, <1>2

\* The edits of a map's make and those of a slice's declaration.
MapEdit(p, e) == p[e.at].kind = "map" /\ e.line = e.at /\ e.cap \in MapHints(p, e.at)

SliceEdit(p, e) ==
  /\ p[e.at].kind \in {"zero", "make"}
  /\ e.line \in DOMAIN p /\ p[e.line].kind = "append" /\ p[e.line].name = p[e.at].name
  /\ \E l \in LoopOf(p, e.line) : e.cap = LoopHint(p, l)
  /\ \E l \in EnclosingLoop(p, e.line) : e.at \in Nearest({s \in DOMAIN p : Before(p, s, l)})

LEMMA EditOrigin ==
  ASSUME NEW p \in Body, NEW e \in Edits(p, Check(p))
  PROVE  e.at \in DOMAIN p /\ (MapEdit(p, e) \/ SliceEdit(p, e))
<1>1. PICK iss \in Check(p) :
        \E d \in Target(p, iss) : e = [at |-> d, line |-> iss.line, cap |-> iss.cap]
  BY DEF Edits
<1>2. PICK d \in Target(p, iss) : e = [at |-> d, line |-> iss.line, cap |-> iss.cap]
  BY <1>1
<1>3. e.at = d /\ e.line = iss.line /\ e.cap = iss.cap /\ d \in DOMAIN p
  BY <1>2, TargetIsDeclaration
<1>4. CASE iss \in MapIssues(p)
  <2>1. PICK i \in {k \in DOMAIN p : p[k].kind = "map" /\ p[k].caps = {}} :
          iss \in {[line |-> i, column |-> p[i].depth, fix |-> "map_cap",
                   name |-> p[i].name, cap |-> h] : h \in MapHints(p, i)}
    BY <1>4 DEF MapIssues
  <2>2. iss.line = i /\ iss.fix = "map_cap" /\ iss.cap \in MapHints(p, i)
    BY <2>1
  <2>3. d = i
    BY <1>2, <2>2 DEF Target, MapTarget
  <2> QED
    BY <1>3, <2>1, <2>2, <2>3 DEF MapEdit
<1>5. CASE iss \in AppendIssues(p)
  <2>1. PICK i \in DOMAIN p :
          iss \in {[line |-> i, column |-> p[i].depth, fix |-> "slice_cap",
                   name |-> p[i].name, cap |-> LoopHint(p, l)] : l \in GrowingIn(p, i)}
    BY <1>5 DEF AppendIssues
  <2>2. PICK l \in GrowingIn(p, i) :
          iss = [line |-> i, column |-> p[i].depth, fix |-> "slice_cap",
                 name |-> p[i].name, cap |-> LoopHint(p, l)]
    BY <2>1
  <2>3. /\ iss.line = i /\ iss.fix = "slice_cap" /\ iss.name = p[i].name
        /\ iss.cap = LoopHint(p, l) /\ p[i].kind = "append" /\ l \in LoopOf(p, i)
    BY <2>2 DEF GrowingIn
  <2>4. d \in SliceTarget(p, iss)
    BY <1>2, <2>3 DEF Target
  <2>5. /\ p[d].name = iss.name /\ p[d].kind \in {"zero", "make"}
        /\ \E g \in EnclosingLoop(p, iss.line) : d \in Nearest({s \in DOMAIN p : Before(p, s, g)})
    BY <2>4 DEF SliceTarget
  <2> QED
    BY <1>3, <2>3, <2>5 DEF SliceEdit
<1> QED
  BY <1>3, <1>4, <1>5 DEF Check

\* A statement right before two loops is right before one.
LEMMA OneLoopAfter ==
  ASSUME NEW p \in Body, NEW g \in DOMAIN p, NEW h \in DOMAIN p, NEW d \in DOMAIN p,
         d \in Nearest({s \in DOMAIN p : Before(p, s, g)}),
         d \in Nearest({s \in DOMAIN p : Before(p, s, h)})
  PROVE  g = h
<1>1. PICK n \in Nat : DOMAIN p = 1..n
  BY DEF Body
<1>2. ASSUME NEW a \in DOMAIN p, NEW b \in DOMAIN p, Before(p, d, a),
             d \in Nearest({s \in DOMAIN p : Before(p, s, b)}), a < b
      PROVE  FALSE
  <2>1. Before(p, d, b) /\ \A s \in DOMAIN p : Before(p, s, b) => s <= d
    BY <1>2 DEF Nearest
  <2>2. d < a /\ p[d].depth = p[a].depth /\ p[d].depth = p[b].depth
    BY <1>2, <2>1 DEF Before
  <2>3. \A k \in a..b : k \in d..b
    BY <1>1, <2>2
  <2>4. \A k \in a..b : p[k].depth >= p[a].depth
    BY <2>1, <2>2, <2>3 DEF Before
  <2>5. Before(p, a, b)
    BY <1>2, <2>2, <2>4 DEF Before
  <2>6. a <= d
    BY <2>1, <2>5
  <2> QED
    BY <1>1, <2>2, <2>6
<1>3. Before(p, d, g) /\ Before(p, d, h)
  BY DEF Nearest
<1>4. ~(g < h) /\ ~(h < g)
  BY <1>2, <1>3
<1> QED
  BY <1>1, <1>4

\* In a plain function the loop an append is attributed to is the one fixFile
\* looks for.
LEMMA SameLoopFound ==
  ASSUME NEW p \in Body, Plain(p), NEW i \in DOMAIN p, p[i].kind = "append"
  PROVE  EnclosingLoop(p, i) = LoopOf(p, i)
<1>1. p[i].kind \notin Loop
  BY DEF Loop
<1>2. \A l \in DOMAIN p : p[l].kind \in Loop => p[l].listed
  BY DEF Plain
<1>3. {l \in DOMAIN p : p[l].kind \in Loop /\ p[l].listed /\ (l = i \/ In(p, l, i))}
        = {l \in DOMAIN p : p[l].kind \in Loop /\ In(p, l, i)}
  BY <1>1, <1>2
<1>4. EnclosingLoop(p, i)
        = Nearest({l \in DOMAIN p : p[l].kind \in Loop /\ p[l].listed
                                    /\ (l = i \/ In(p, l, i))})
  BY DEF EnclosingLoop
<1> QED
  BY <1>3, <1>4 DEF LoopOf

\* All edits of one declaration of a plain function are the same.
LEMMA OneEdit ==
  ASSUME NEW p \in Body, Plain(p),
         NEW e \in Edits(p, Check(p)), NEW f \in Edits(p, Check(p)), e.at = f.at
  PROVE  e.line = f.line /\ e.cap = f.cap
<1>1. e.at \in DOMAIN p /\ (MapEdit(p, e) \/ SliceEdit(p, e))
      /\ (MapEdit(p, f) \/ SliceEdit(p, f))
  BY EditOrigin
<1>2. DOMAIN p \subseteq Nat
  BY BodyStatement
<1>3. CASE MapEdit(p, e)
  <2>1. MapEdit(p, f)
    BY <1>1, <1>3 DEF MapEdit, SliceEdit
  <2>2. \A g, h \in FillingLoop(p, e.at) : g = h
    BY <1>2 DEF FillingLoop, Earliest
  <2>3. e.cap \in MapHints(p, e.at) /\ f.cap \in MapHints(p, e.at)
    BY <1>3, <2>1 DEF MapEdit
  <2>4. e.cap = f.cap
    BY <2>2, <2>3 DEF MapHints
  <2> QED
    BY <1>3, <2>1, <2>4 DEF MapEdit
<1>4. CASE SliceEdit(p, e)
  <2>1. SliceEdit(p, f)
    BY <1>1, <1>4 DEF MapEdit, SliceEdit
  <2>2. e.line \in DOMAIN p /\ f.line \in DOMAIN p
        /\ p[e.line].kind = "append" /\ p[f.line].kind = "append"
        /\ p[e.line].name = p[f.line].name
    BY <1>4, <2>1 DEF SliceEdit
  <2>3. PICK g \in LoopOf(p, e.line) : e.at \in Nearest({s \in DOMAIN p : Before(p, s, g)})
    BY <1>4, <2>2, SameLoopFound DEF SliceEdit
  <2>4. PICK h \in LoopOf(p, f.line) : e.at \in Nearest({s \in DOMAIN p : Before(p, s, h)})
    BY <2>1, <2>2, SameLoopFound DEF SliceEdit
  <2>5. g \in DOMAIN p /\ h \in DOMAIN p
    BY DEF LoopOf, Nearest
  <2>6. g = h
    BY <1>1, <2>3, <2>4, <2>5, OneLoopAfter
  <2>7. ASSUME NEW i \in DOMAIN p, NEW l \in LoopOf(p, i) PROVE LoopOf(p, i) = {l}
    <3>1. \A k \in LoopOf(p, i) : k = l
      BY <1>2, <2>7, NearestIsOne DEF LoopOf
    <3> QED
      BY <2>7, <3>1
  <2>8. LoopOf(p, e.line) = {g} /\ LoopOf(p, f.line) = {g}
    BY <2>2, <2>6, <2>7
  <2>9. e.line = f.line
    BY <2>2, <2>8 DEF Plain
  <2>10. e.cap = LoopHint(p, g) /\ f.cap = LoopHint(p, g)
    BY <1>4, <2>1, <2>8 DEF SliceEdit
  <2> QED
    BY <2>9, <2>10
<1> QED
  BY <1>1, <1>3, <1>4

\* A hint of a plain function that is Go is a capacity in all of it.
LEMMA PlainHint ==
  ASSUME NEW p \in Body, Plain(p), Compiles(p), NEW r,
         NEW e \in Edits(p, Check(p)), e.cap.of # Call
  PROVE  /\ IsInteger(r, e.cap, e.at)
         /\ p[e.at].kind # "map" => LongEnough(e.cap, p[e.at].length)
<1> USE PreallocAssumption
<1>1. MapEdit(p, e) \/ SliceEdit(p, e)
  BY EditOrigin
<1>2. IsInteger(r, Default, e.at)
  BY DEF IsInteger, Default
<1>3. CASE MapEdit(p, e) /\ e.cap # Default
  <2>1. PICK l \in FillingLoop(p, e.at) : e.cap = [form |-> "len", of |-> p[l].over]
    BY <1>3 DEF MapEdit, MapHints
  <2>2. l \in DOMAIN p /\ p[l].kind = "range" /\ p[l].over # Odd
    BY <2>1 DEF FillingLoop, Earliest
  <2>3. p[l].over \in Params \cap Sized
    BY <2>1, <2>2 DEF Plain, Loop
  <2>4. e.cap.form = "len" /\ e.cap.of \in Params \cap Sized
    BY <2>1, <2>3
  <2> QED
    BY <1>3, <2>4 DEF IsInteger, VisibleAt, MapEdit
<1>4. CASE SliceEdit(p, e)
  <2>1. PICK l \in LoopOf(p, e.line) : e.cap = LoopHint(p, l)
    BY <1>4 DEF SliceEdit
  <2>2. l \in DOMAIN p /\ p[l].kind \in Loop
    BY <2>1 DEF LoopOf, Nearest
  <2>3. e.at \in DOMAIN p
    BY EditOrigin
  <2>4. LongEnough(e.cap, p[e.at].length)
    BY <2>1, <2>2, <2>3 DEF Plain
  <2>5. IsInteger(r, e.cap, e.at)
    <3>1. CASE p[l].over = Odd
      BY <1>2, <2>1, <3>1 DEF LoopHint
    <3>2. CASE p[l].over # Odd /\ p[l].kind = "range"
      <4>1. e.cap = [form |-> "len", of |-> p[l].over]
        BY <2>1, <3>2 DEF LoopHint, HintForm
      <4>2. p[l].over \in Params \cap Sized
        BY <2>2, <3>2, <4>1 DEF Plain
      <4> QED
        BY <4>1, <4>2 DEF IsInteger, VisibleAt
    <3>3. CASE p[l].over # Odd /\ p[l].kind # "range"
      <4>1. e.cap.form # "len" /\ e.cap.of = p[l].over
        BY <2>1, <2>2, <3>3 DEF LoopHint, HintForm, Loop
      <4>2. p[l].over \in Params \cup Nat
        BY <2>2, <3>3, <4>1 DEF Plain
      <4>3. p[l].over \in Names => p[l].over \in Ints
        BY <2>2, <3>3 DEF Compiles, Loop
      <4> QED
        BY <4>1, <4>2, <4>3 DEF IsInteger, VisibleAt
    <3> QED
      BY <3>1, <3>2, <3>3
  <2> QED
    BY <2>4, <2>5
<1>5. CASE MapEdit(p, e) /\ e.cap = Default
  BY <1>2, <1>5 DEF MapEdit
<1> QED
  BY <1>1, <1>3, <1>4, <1>5

LEMMA FixCompiles ==
  ASSUME NEW p, NEW r, NEW edits, FixOf(p, r, edits), Plain(p), Compiles(p)
  PROVE  Compiles(r)
<1>1. p \in Body /\ r \in Body /\ Refines(p, r) /\ EditsOf(p, edits) /\ r = Apply(p, edits)
      /\ edits \subseteq Edits(p, Check(p)) /\ \A e \in edits : e.cap.of # Call
  BY ApplyIsBody, ApplyRefines DEF FixOf, Formats
<1>2. ASSUME NEW l \in DOMAIN r, r[l].kind \in {"for", "upTo"}, r[l].over \in Names
      PROVE  r[l].over \in Ints
  <2>1. r[l].kind = p[l].kind /\ r[l].over = p[l].over /\ l \in DOMAIN p
    BY <1>1, <1>2 DEF Refines, Kind, Loop, Decl
  <2> QED
    BY <1>2, <2>1 DEF Compiles
<1>3. ASSUME NEW d \in DOMAIN p
      PROVE  CapacityCompiles(r, d)
  <2>1. r[d].depth = p[d].depth /\ r[d].length = p[d].length
        /\ (r[d].kind = "map" <=> p[d].kind = "map")
    <3>1. r[d].kind = "map" <=> p[d].kind = "map"
      BY <1>1, SameKinds
    <3> QED
      BY <1>1, <3>1 DEF Refines
  <2>2. CASE \A e \in edits : e.at # d
    <3>1. r[d] = p[d]
      BY <1>1, <2>2, EditedStatement
    <3>2. CapacityCompiles(p, d)
      BY DEF Compiles
    <3>3. ASSUME NEW a \in p[d].caps
          PROVE  IsInteger(r, a.cap, d)
      <4>1. IsInteger(p, a.cap, d)
        BY <3>2 DEF CapacityCompiles
      <4>2. VisibleAt(p, a.cap.of, d, p[d].depth) => VisibleAt(r, a.cap.of, d, p[d].depth)
        BY <1>1, StaysVisible
      <4> QED
        BY <2>1, <4>1, <4>2 DEF IsInteger
    <3>4. /\ \A a, b \in p[d].caps : a = b
          /\ \A a \in p[d].caps : p[d].kind = "make" => LongEnough(a.cap, p[d].length)
      BY <3>2 DEF CapacityCompiles
    <3> QED
      BY <3>1, <3>3, <3>4 DEF CapacityCompiles
  <2>3. CASE \E e \in edits : e.at = d
    <3>1. r[d].caps = {[line |-> e.line, cap |-> e.cap] : e \in {f \in edits : f.at = d}}
      BY <1>1, <2>3, EditedStatement
    <3>2. \A e, f \in {f \in edits : f.at = d} : e.line = f.line /\ e.cap = f.cap
      BY <1>1, OneEdit
    <3>3. \A a, b \in r[d].caps : a = b
      BY <3>1, <3>2
    <3>4. ASSUME NEW a \in r[d].caps
          PROVE  /\ IsInteger(r, a.cap, d)
                 /\ r[d].kind = "make" => LongEnough(a.cap, r[d].length)
      <4>1. PICK e \in edits : e.at = d /\ a.cap = e.cap
        BY <3>1
      <4>2. /\ IsInteger(r, e.cap, e.at)
            /\ p[e.at].kind # "map" => LongEnough(e.cap, p[e.at].length)
        BY <1>1, <4>1, PlainHint
      <4> QED
        BY <2>1, <4>1, <4>2
    <3> QED
      BY <3>3, <3>4 DEF CapacityCompiles
  <2> QED
    BY <2>2, <2>3
<1> QED
  BY <1>1, <1>2, <1>3 DEF Compiles, Refines

\* For functions of any length: the fix of a plain function compiles if the
\* function did - its capacities are of an integer type, declared there, one to
\* a make and not below a constant length (sliceCapEdit, mapCapEdit,
\* rangeExprHint, forLoopCapHint).
THEOREM FixesCompile == Spec => PlainCodeCompiles
<1>1. IInv /\ [Next]_vars =>
        [FixAll /\ ~stale /\ Plain(body) /\ Compiles(body) => Compiles(body')]_vars
  <2>1. SUFFICES ASSUME IInv, FixAll, ~stale, Plain(body), Compiles(body)
                 PROVE  Compiles(body')
    OBVIOUS
  <2>2. CASE body' = body
    BY <2>1, <2>2
  <2>3. CASE \E edits : FixOf(body, body', edits)
    BY <2>1, <2>3, FixCompiles
  <2> QED
    BY <2>1, <2>2, <2>3, FixAllIsFix
<1> QED
  BY <1>1, Invariance, PTL DEF Spec, PlainCodeCompiles

-----------------------------------------------------------------------------
(* Structs with a field to a line *)

\* A list around one of its elements.
LEMMA Around ==
  ASSUME NEW X, NEW s \in Seq(X), NEW l \in 1..Len(s)
  PROVE  /\ SubSeq(s, 1, l - 1) \in Seq(X) /\ SubSeq(s, 1, l) \in Seq(X)
         /\ SubSeq(s, l + 1, Len(s)) \in Seq(X)
         /\ SubSeq(s, 1, l) = Append(SubSeq(s, 1, l - 1), s[l])
         /\ s = SubSeq(s, 1, l) \o SubSeq(s, l + 1, Len(s))
<1>1. l - 1 \in Nat /\ l - 1 <= Len(s) /\ l \in Nat /\ l <= Len(s)
      /\ l + 1 \in Nat \ {0} /\ Len(s) \in Nat /\ 1 \in Nat \ {0}
  OBVIOUS
<1>2. /\ SubSeq(s, 1, l - 1) \in Seq(X) /\ SubSeq(s, 1, l) \in Seq(X)
      /\ SubSeq(s, l + 1, Len(s)) \in Seq(X)
  BY <1>1, Piece
<1>3. SubSeq(s, 1, l) = Append(SubSeq(s, 1, l - 1), s[l])
  OBVIOUS
<1>4. s = SubSeq(s, 1, l) \o SubSeq(s, l + 1, Len(s))
  OBVIOUS
<1> QED
  BY <1>2, <1>3, <1>4

\* The line of field f holds this field alone, and the lines before it hold the
\* fields before it.
LEMMA FieldOfLine ==
  ASSUME NEW s \in Struct, OnePerLine(s), NEW f \in 1..FieldCount(s)
  PROVE  LET l == LineOf(s, f)
         IN  /\ s.lines[l] = <<Fields(s)[f]>>
             /\ Len(FlattenSeq(SubSeq(s.lines, 1, l - 1))) = f - 1
             /\ Len(FlattenSeq(SubSeq(s.lines, l + 1, Len(s.lines)))) = FieldCount(s) - f
<1> DEFINE l == LineOf(s, f)
           before == FlattenSeq(SubSeq(s.lines, 1, l - 1))
           upTo == FlattenSeq(SubSeq(s.lines, 1, l))
           after == FlattenSeq(SubSeq(s.lines, l + 1, Len(s.lines)))
<1>1. s.lines \in Seq(Seq(Types)) /\ FieldCount(s) \in Nat /\ Fields(s) \in Seq(Types)
  BY FieldsType
<1>2. l \in 1..Len(s.lines) /\ Len(before) < f /\ f <= Len(upTo)
  BY <1>1, LineOfType
<1>3. s.lines[l] \in Seq(Types) /\ Len(s.lines[l]) <= 1
  BY <1>1, <1>2 DEF OnePerLine
<1> HIDE DEF l
<1>4. upTo = before \o s.lines[l]
  <2>1. /\ SubSeq(s.lines, 1, l - 1) \in Seq(Seq(Types))
        /\ SubSeq(s.lines, 1, l) = Append(SubSeq(s.lines, 1, l - 1), s.lines[l])
    BY <1>1, <1>2, Around
  <2> QED
    BY <1>3, <2>1, FlattenAppend
<1>5. Fields(s) = upTo \o after
  <2>1. s.lines = SubSeq(s.lines, 1, l) \o SubSeq(s.lines, l + 1, Len(s.lines))
    BY <1>1, <1>2, Around
  <2>2. FlattenSeq(SubSeq(s.lines, 1, l) \o SubSeq(s.lines, l + 1, Len(s.lines)))
          = upTo \o after
    <3>1. /\ SubSeq(s.lines, 1, l) \in Seq(Seq(Types))
          /\ SubSeq(s.lines, l + 1, Len(s.lines)) \in Seq(Seq(Types))
      BY <1>1, <1>2, Around
    <3> QED
      BY <3>1, FlattenJoined
  <2> QED
    BY <2>1, <2>2 DEF Fields
<1>6. before \in Seq(Types) /\ upTo \in Seq(Types) /\ after \in Seq(Types)
  BY <1>1, <1>2, Around, FlattenType
<1> HIDE DEF before, upTo, after
<1>7. /\ Len(upTo) = Len(before) + Len(s.lines[l])
      /\ FieldCount(s) = Len(upTo) + Len(after)
  <2>1. Len(before \o s.lines[l]) = Len(before) + Len(s.lines[l])
    BY <1>3, <1>6, Joined
  <2>2. Len(upTo \o after) = Len(upTo) + Len(after)
    BY <1>6, Joined
  <2> QED
    BY <1>4, <1>5, <2>1, <2>2 DEF FieldCount
<1>8. Len(s.lines[l]) = 1 /\ Len(before) = f - 1 /\ Len(upTo) = f /\ f \in Nat
  <2>1. /\ Len(before) \in Nat /\ Len(upTo) \in Nat /\ Len(s.lines[l]) \in Nat
        /\ f \in Nat \ {0}
    BY <1>1, <1>3, <1>6
  <2>2. PICK a \in Nat, b \in Nat, c \in Nat :
          a = Len(before) /\ b = Len(upTo) /\ c = Len(s.lines[l])
    BY <2>1
  <2>3. a < f /\ f <= b /\ b = a + c /\ c <= 1
    BY <1>2, <1>3, <1>7, <2>2
  <2>4. c = 1 /\ a = f - 1 /\ b = f
    BY <2>1, <2>3
  <2> QED
    BY <2>1, <2>2, <2>4
<1>9. upTo[f] = s.lines[l][1] /\ Fields(s)[f] = upTo[f]
  BY <1>3, <1>4, <1>5, <1>6, <1>8
<1>10. s.lines[l] = <<Fields(s)[f]>>
  BY <1>3, <1>8, <1>9
<1>11. Len(after) = FieldCount(s) - f
  BY <1>1, <1>6, <1>7, <1>8
<1> QED
  BY <1>8, <1>10, <1>11 DEF l, before, after

\* The fields of a struct in a new order; comments before and after them stay.
LEMMA ReorderedFields ==
  ASSUME NEW s \in Struct, OnePerLine(s), FieldCount(s) >= 2,
         NEW order \in [1..FieldCount(s) -> 1..FieldCount(s)]
  PROVE  Fields(Reordered(s, order)) = [r \in 1..FieldCount(s) |-> Fields(s)[order[r]]]
<1> DEFINE n == FieldCount(s)
           fields == Fields(s)
           before == SubSeq(s.lines, 1, LineOf(s, 1) - 1)
           after == SubSeq(s.lines, LineOf(s, n) + 1, Len(s.lines))
           middle == [r \in 1..n |-> s.lines[LineOf(s, order[r])]]
<1>1. s.lines \in Seq(Seq(Types)) /\ n \in Nat /\ fields \in Seq(Types)
  BY FieldsType
<1>2. 1 \in 1..n /\ n \in 1..n /\ Len(order) = n /\ DOMAIN fields = 1..n
  BY <1>1 DEF FieldCount
<1>3. before \in Seq(Seq(Types)) /\ after \in Seq(Seq(Types))
  <2>1. LineOf(s, 1) \in 1..Len(s.lines) /\ LineOf(s, n) \in 1..Len(s.lines)
    <3>1. \A f \in 1..n : LineOf(s, f) \in DOMAIN s.lines
      BY LineOfType
    <3>2. DOMAIN s.lines = 1..Len(s.lines)
      BY <1>1
    <3> QED
      BY <1>2, <3>1, <3>2
  <2> QED
    BY <1>1, <2>1, Around
<1>4. FlattenSeq(before) = << >> /\ FlattenSeq(after) = << >>
  <2>1. Len(FlattenSeq(before)) = 0 /\ Len(FlattenSeq(after)) = 0
    BY <1>1, <1>2, FieldOfLine
  <2>2. FlattenSeq(before) \in Seq(Types) /\ FlattenSeq(after) \in Seq(Types)
    BY <1>3, FlattenType
  <2> HIDE DEF before, after
  <2> QED
    BY <2>1, <2>2
<1>5. \A r \in 1..n : order[r] \in 1..n /\ s.lines[LineOf(s, order[r])] = <<fields[order[r]]>>
  BY FieldOfLine
<1>6. Fields(Reordered(s, order)) = FlattenSeq((before \o middle) \o after)
  BY <1>2 DEF Reordered, Fields, Struct
<1> HIDE DEF before, after, n, fields
<1>7. /\ middle \in Seq(Seq(Types)) /\ DOMAIN middle = 1..n
      /\ \A r \in 1..n : Len(middle[r]) = 1 /\ middle[r][1] = fields[order[r]]
  <2>1. \A r \in 1..n : fields[order[r]] \in Types
    BY <1>1, <1>2, <1>5
  <2>2. \A r \in 1..n : middle[r] = <<fields[order[r]]>>
    BY <1>5
  <2>3. \A r \in 1..n : <<fields[order[r]]>> \in Seq(Types)
    BY <2>1
  <2>4. middle \in [1..n -> Seq(Types)]
    BY <2>2, <2>3
  <2>5. \A t \in Types : Len(<<t>>) = 1 /\ <<t>>[1] = t
    OBVIOUS
  <2> HIDE DEF middle
  <2>6. ASSUME NEW r \in 1..n
        PROVE  Len(middle[r]) = 1 /\ middle[r][1] = fields[order[r]]
    <3>1. PICK t \in Types : t = fields[order[r]]
      BY <2>1
    <3>2. middle[r] = <<t>>
      BY <2>2, <3>1
    <3> QED
      BY <2>5, <3>1, <3>2
  <2>7. middle \in Seq(Seq(Types)) /\ DOMAIN middle = 1..n
    BY <1>1, <2>4
  <2> QED
    BY <2>6, <2>7
<1> HIDE DEF middle
<1>8. FlattenSeq(middle) = [r \in 1..n |-> fields[order[r]]]
  <2>1. \A r \in DOMAIN middle : Len(middle[r]) = 1
    BY <1>7
  <2>2. FlattenSeq(middle) = [r \in DOMAIN middle |-> middle[r][1]]
    BY <1>7, <2>1, FlattenSingles
  <2>3. [r \in DOMAIN middle |-> middle[r][1]] = [r \in 1..n |-> fields[order[r]]]
    BY <1>7
  <2> QED
    BY <2>2, <2>3
<1>9. FlattenSeq((before \o middle) \o after) = (<< >> \o FlattenSeq(middle)) \o << >>
  <2>1. before \o middle \in Seq(Seq(Types))
    BY <1>3, <1>7
  <2>2. FlattenSeq((before \o middle) \o after) = FlattenSeq(before \o middle) \o FlattenSeq(after)
    BY <1>3, <2>1, FlattenJoined
  <2>3. FlattenSeq(before \o middle) = FlattenSeq(before) \o FlattenSeq(middle)
    BY <1>3, <1>7, FlattenJoined
  <2> QED
    BY <1>4, <2>2, <2>3
<1>10. FlattenSeq(middle) \in Seq(Types)
  BY <1>7, FlattenType
<1>11. (<< >> \o FlattenSeq(middle)) \o << >> = FlattenSeq(middle)
  BY <1>10
<1> QED
  BY <1>6, <1>8, <1>9, <1>11 DEF n, fields

\* The struct that the fix leaves in the place of one of unique name.
Improved(s) == IF Misaligned(s) THEN Reordered(s, Order(s)) ELSE s

\* It has a field to a line.
LEMMA ImprovedOnePerLine ==
  ASSUME NEW s \in Struct, OnePerLine(s)
  PROVE  OnePerLine(Improved(s))
<1> DEFINE X == {line \in Seq(Types) : Len(line) <= 1}
<1>1. CASE ~Misaligned(s)
  BY <1>1 DEF Improved
<1>2. CASE Misaligned(s)
  <2>1. FieldCount(s) \in Nat /\ FieldCount(s) >= 2
    BY <1>2, FieldsType DEF Misaligned
  <2>2. Order(s) \in [1..FieldCount(s) -> 1..FieldCount(s)]
    BY OrderType
  <2>3. s.lines \in Seq(X)
    <3>1. PICK n \in Nat : s.lines \in [1..n -> Seq(Types)]
      BY FieldsType
    <3>2. \A l \in 1..n : s.lines[l] \in X
      BY <3>1 DEF OnePerLine
    <3> HIDE DEF X
    <3> QED
      BY <3>1, <3>2
  <2> HIDE DEF X
  <2>4. /\ Reordered(s, Order(s)).lines \in Seq(X)
        /\ Reordered(s, Order(s)) = [s EXCEPT !.lines = Reordered(s, Order(s)).lines]
    BY <2>1, <2>2, <2>3, ReorderedLines
  <2>5. \A l \in DOMAIN Reordered(s, Order(s)).lines : Reordered(s, Order(s)).lines[l] \in X
    BY <2>4
  <2>6. ~Reordered(s, Order(s)).flat
    BY <2>4 DEF OnePerLine, Struct
  <2>7. OnePerLine(Reordered(s, Order(s)))
    BY <2>5, <2>6 DEF OnePerLine, X
  <2> QED
    BY <1>2, <2>7 DEF Improved
<1> QED
  BY <1>1, <1>2

\* Every struct is found by its name, so each that is reported is reordered.
LEMMA ImprovedStructs ==
  ASSUME NEW ss \in Seq(Struct), UniqueNames(ss), \A k \in DOMAIN ss : OnePerLine(ss[k]),
         NEW fixed \in StructResults(ss, StructIssues(ss))
  PROVE  fixed = [k \in DOMAIN ss |-> Improved(ss[k])]
<1> DEFINE found == StructIssues(ss)
           hit == {k \in DOMAIN ss : \E iss \in found : k \in ReorderTarget(ss, iss)}
           orders(k) == {iss.order : iss \in {i \in found : k \in ReorderTarget(ss, i)}}
           pieces(f) == [k \in DOMAIN ss |-> IF k \in hit THEN Replacement(ss[k], f[k])
                                            ELSE <<Formatted(ss[k])>>]
<1>1. PICK f : (\A k \in hit : f[k] \in orders(k)) /\ fixed = FlattenSeq(pieces(f))
  BY DEF StructResults
<1>2. ASSUME NEW k \in DOMAIN ss, NEW iss \in found, k \in ReorderTarget(ss, iss)
      PROVE  Misaligned(ss[k]) /\ iss.order = Order(ss[k])
  <2>1. PICK j \in DOMAIN ss : Misaligned(ss[j]) /\ iss = [name |-> ss[j].name, order |-> Order(ss[j])]
    BY DEF StructIssues, ToSet
  <2>2. ss[k].name = ss[j].name
    BY <1>2, <2>1 DEF ReorderTarget
  <2>3. k = j
    BY <2>2 DEF UniqueNames
  <2> QED
    BY <2>1, <2>3
<1>3. ASSUME NEW k \in DOMAIN ss, Misaligned(ss[k])
      PROVE  k \in hit
  <2> DEFINE iss == [name |-> ss[k].name, order |-> Order(ss[k])]
  <2>1. iss \in found
    BY <1>3 DEF StructIssues, ToSet
  <2>2. ss[k] \in Struct /\ FieldCount(ss[k]) \in Nat /\ FieldCount(ss[k]) >= 3
    BY <1>3, FieldsType DEF Misaligned
  <2>3. Order(ss[k]) \in [1..FieldCount(ss[k]) -> 1..FieldCount(ss[k])]
    BY <2>2, OrderType
  <2>4. Len(Order(ss[k])) = FieldCount(ss[k])
    BY <2>2, <2>3
  <2>5. \A j \in 1..(k - 1) : ss[j].name # ss[k].name
    <3>1. \A j \in 1..(k - 1) : j \in DOMAIN ss /\ j # k
      OBVIOUS
    <3> QED
      BY <3>1 DEF UniqueNames
  <2>6. k \in ReorderTarget(ss, iss)
    BY <2>2, <2>4, <2>5 DEF ReorderTarget
  <2> QED
    BY <2>1, <2>6
<1>4. ASSUME NEW k \in DOMAIN ss
      PROVE  pieces(f)[k] = <<Improved(ss[k])>>
  <2>1. CASE k \in hit
    <3>1. Misaligned(ss[k]) /\ f[k] = Order(ss[k])
      BY <1>1, <1>2, <2>1
    <3>2. ~ss[k].flat
      BY DEF OnePerLine
    <3>3. OnePerLine(Improved(ss[k]))
      BY ImprovedOnePerLine
    <3> QED
      BY <2>1, <3>1, <3>2, <3>3 DEF Improved, Replacement, Formatted
  <2>2. CASE k \notin hit
    <3>1. ~Misaligned(ss[k])
      BY <1>3, <2>2
    <3> QED
      BY <2>2, <3>1 DEF Improved, Formatted
  <2> QED
    BY <2>1, <2>2
<1>5. DOMAIN pieces(f) = DOMAIN ss
  OBVIOUS
<1> HIDE DEF pieces, hit, orders
<1>6. PICK n \in Nat : DOMAIN ss = 1..n
  OBVIOUS
<1> DEFINE X == {Improved(ss[k]) : k \in DOMAIN ss}
<1>7. \A k \in 1..n : Improved(ss[k]) \in X
  BY <1>6
<1> HIDE DEF X
<1>8. /\ \A x \in X : <<x>> \in Seq(X) /\ Len(<<x>>) = 1 /\ <<x>>[1] = x
      /\ \A g \in [1..n -> Seq(X)] : g \in Seq(Seq(X))
  BY <1>6
<1>9. ASSUME NEW k \in 1..n
      PROVE  /\ pieces(f)[k] \in Seq(X) /\ Len(pieces(f)[k]) = 1
             /\ pieces(f)[k][1] = Improved(ss[k])
  <2>1. pieces(f)[k] = <<Improved(ss[k])>>
    BY <1>4, <1>6
  <2>2. PICK x \in X : x = Improved(ss[k])
    BY <1>7
  <2>3. pieces(f)[k] = <<x>>
    BY <2>1, <2>2
  <2> QED
    BY <1>8, <2>2, <2>3
<1>10. pieces(f) \in [1..n -> Seq(X)]
  <2>1. pieces(f) = [k \in 1..n |-> pieces(f)[k]]
    BY <1>6 DEF pieces
  <2> HIDE DEF pieces
  <2> QED
    BY <1>9, <2>1
<1>11. FlattenSeq(pieces(f)) = [k \in DOMAIN ss |-> Improved(ss[k])]
  <2>1. pieces(f) \in Seq(Seq(X))
    BY <1>8, <1>10
  <2>2. \A k \in DOMAIN pieces(f) : Len(pieces(f)[k]) = 1
    BY <1>5, <1>6, <1>9
  <2>3. FlattenSeq(pieces(f)) = [k \in DOMAIN pieces(f) |-> pieces(f)[k][1]]
    BY <2>1, <2>2, FlattenSingles
  <2> QED
    BY <1>5, <1>6, <1>9, <2>3
<1> QED
  BY <1>1, <1>11

\* The fields of a struct that is put in order.
LEMMA ImprovedFields ==
  ASSUME NEW s \in Struct, OnePerLine(s), Misaligned(s)
  PROVE  /\ Order(s) \in [1..FieldCount(s) -> 1..FieldCount(s)]
         /\ Improved(s) \in Struct
         /\ Fields(Improved(s)) = [r \in 1..FieldCount(s) |-> Fields(s)[Order(s)[r]]]
         /\ FieldCount(Improved(s)) = FieldCount(s)
<1>1. FieldCount(s) \in Nat /\ FieldCount(s) >= 2
  BY FieldsType DEF Misaligned
<1>2. Order(s) \in [1..FieldCount(s) -> 1..FieldCount(s)]
  BY OrderType
<1>3. Fields(Improved(s)) = [r \in 1..FieldCount(s) |-> Fields(s)[Order(s)[r]]]
  BY <1>1, <1>2, ReorderedFields DEF Improved
<1>4. Improved(s) \in Struct
  BY <1>1, <1>2, ReorderedType DEF Improved
<1>5. FieldCount(Improved(s)) = FieldCount(s)
  BY <1>1, <1>3 DEF FieldCount
<1> QED
  BY <1>2, <1>3, <1>4, <1>5

LEMMA ImprovedType ==
  ASSUME NEW s \in Struct, OnePerLine(s)
  PROVE  Improved(s) \in Struct /\ Improved(s).name = s.name
<1>1. Improved(s) \in Struct
  <2>1. CASE Misaligned(s)
    BY <2>1, ImprovedFields
  <2>2. CASE ~Misaligned(s)
    BY <2>2 DEF Improved
  <2> QED
    BY <2>1, <2>2
<1>2. Improved(s).name = s.name
  BY DEF Improved, Reordered, Struct
<1> QED
  BY <1>1, <1>2

\* In order, no field comes before a larger one.
LEMMA ImprovedIsAligned ==
  ASSUME NEW s \in Struct, OnePerLine(s)
  PROVE  ~Misaligned(Improved(s))
<1>1. CASE ~Misaligned(s)
  BY <1>1 DEF Improved
<1>2. CASE Misaligned(s)
  <2> DEFINE N == FieldCount(s)
             size == [f \in 1..FieldCount(Improved(s)) |-> ApproxSize[Fields(Improved(s))[f]]]
  <2>1. /\ N \in Nat /\ FieldCount(Improved(s)) = N
        /\ Order(s) \in [1..N -> 1..N]
        /\ \A r \in 1..N : Fields(Improved(s))[r] = Fields(s)[Order(s)[r]]
    BY <1>2, FieldsType, ImprovedFields
  <2>2. \A r \in 1..N : size[r] = ApproxSize[Fields(s)[Order(s)[r]]]
    BY <2>1
  <2>3. \A r \in 1..N : ApproxSize[Fields(s)[Order(s)[r]]] \in Nat
    <3>1. \A t \in Types : ApproxSize[t] \in Nat
      BY TypesAssumption DEF ApproxSize
    <3>2. Fields(s) \in Seq(Types) /\ DOMAIN Fields(s) = 1..N
      BY FieldsType DEF FieldCount
    <3> QED
      BY <2>1, <3>1, <3>2
  <2> HIDE DEF size
  <2>4. ASSUME NEW f \in 1..(N - 1) PROVE ~(size[f] < size[f + 1])
    <3>1. f \in 1..N /\ f + 1 \in 1..N /\ f <= f + 1
      BY <2>1
    <3>2. ApproxSize[Fields(s)[Order(s)[f + 1]]] <= ApproxSize[Fields(s)[Order(s)[f]]]
      BY <3>1, OrderType
    <3>3. size[f + 1] \in Nat /\ size[f] \in Nat /\ size[f + 1] <= size[f]
      BY <2>2, <2>3, <3>1, <3>2
    <3> QED
      BY <3>3
  <2>5. ~\E f \in 1..(FieldCount(Improved(s)) - 1) :
           size[f] < size[f + 1] /\ size[f] <= 4 /\ size[f + 1] >= 8
    BY <2>1, <2>4
  <2> QED
    BY <2>5 DEF Misaligned, size
<1> QED
  BY <1>1, <1>2

LEMMA ImprovedKeepsFields ==
  ASSUME NEW s \in Struct, OnePerLine(s), NEW t
  PROVE  Occurrences(Fields(Improved(s)), t) = Occurrences(Fields(s), t)
<1>1. CASE ~Misaligned(s)
  BY <1>1 DEF Improved
<1>2. CASE Misaligned(s)
  <2>1. Fields(s) \in Seq(Types) /\ Len(Fields(s)) = FieldCount(s)
    BY FieldsType DEF FieldCount
  <2>2. /\ Order(s) \in [1..FieldCount(s) -> 1..FieldCount(s)]
        /\ \A q, r \in 1..FieldCount(s) : Order(s)[q] = Order(s)[r] => q = r
    BY OrderType
  <2>3. Occurrences([r \in 1..Len(Fields(s)) |-> Fields(s)[Order(s)[r]]], t)
          = Occurrences(Fields(s), t)
    <3>1. /\ Order(s) \in [1..Len(Fields(s)) -> 1..Len(Fields(s))]
          /\ \A q, r \in 1..Len(Fields(s)) : Order(s)[q] = Order(s)[r] => q = r
      BY <2>1, <2>2, Zenon
    <3> QED
      BY <2>1, <3>1, OccurrencesPermuted, Zenon
  <2> QED
    BY <1>2, <2>1, <2>3, ImprovedFields
<1> QED
  BY <1>1, <1>2

\* All structs together keep their fields.
LEMMA SameFieldBag ==
  ASSUME NEW ss \in Seq(Struct), \A k \in DOMAIN ss : OnePerLine(ss[k]),
         NEW tt, tt = [k \in DOMAIN ss |-> Improved(ss[k])]
  PROVE  FieldBag(tt) = FieldBag(ss)
<1> DEFINE old == [k \in DOMAIN ss |-> Fields(ss[k])]
           new == [k \in DOMAIN tt |-> Fields(tt[k])]
<1>1. PICK n \in Nat : DOMAIN ss = 1..n
  OBVIOUS
<1>2. DOMAIN tt = 1..n
  BY <1>1
<1>3. ASSUME NEW k \in 1..n
      PROVE  /\ ss[k] \in Struct /\ OnePerLine(ss[k])
             /\ Fields(ss[k]) \in Seq(Types) /\ Fields(tt[k]) \in Seq(Types)
             /\ \A t : Occurrences(Fields(tt[k]), t) = Occurrences(Fields(ss[k]), t)
  <2>1. ss[k] \in Struct /\ OnePerLine(ss[k]) /\ tt[k] = Improved(ss[k])
    BY <1>1
  <2>2. Fields(ss[k]) \in Seq(Types)
    BY <2>1, FieldsType
  <2>3. Fields(tt[k]) \in Seq(Types)
    BY <2>1, ImprovedType, FieldsType
  <2>4. \A t : Occurrences(Fields(tt[k]), t) = Occurrences(Fields(ss[k]), t)
    BY <2>1, ImprovedKeepsFields
  <2> QED
    BY <2>1, <2>2, <2>3, <2>4
<1>4. /\ old \in [1..n -> Seq(Types)] /\ new \in [1..n -> Seq(Types)]
      /\ \A k \in 1..n : \A t : Occurrences(new[k], t) = Occurrences(old[k], t)
  BY <1>1, <1>2, <1>3
<1> HIDE DEF old, new
<1>5. old \in Seq(Seq(Types)) /\ new \in Seq(Seq(Types)) /\ Len(old) = n /\ Len(new) = n
  BY <1>4
<1>6. ASSUME NEW t
      PROVE  Occurrences(FlattenSeq(new), t) = Occurrences(FlattenSeq(old), t)
  <2>1. Len(new) = Len(old)
    BY <1>5
  <2>2. \A k \in 1..Len(new) : Occurrences(new[k], t) = Occurrences(old[k], t)
    BY <1>4, <1>5
  <2> QED
    BY <1>5, <2>1, <2>2, OccurrencesFlattened
<1>7. FieldBag(ss) = [t \in Types |-> Occurrences(FlattenSeq(old), t)]
      /\ FieldBag(tt) = [t \in Types |-> Occurrences(FlattenSeq(new), t)]
  BY DEF FieldBag, Occurrences, old, new
<1> QED
  BY <1>6, <1>7


-----------------------------------------------------------------------------
(* What a struct costs *)

Alignments == {1, 2, 4, 8}

\* The types whose size approxSize knows.
Known == {"bool", "int16", "int32", "int64", "string", "slice", "mutex", "rwmutex",
          "once"}

LEMMA RoundUpBounds ==
  ASSUME NEW n \in Nat, NEW a \in Alignments
  PROVE  RoundUp(n, a) \in Nat /\ n <= RoundUp(n, a) /\ (n % a = 0 => RoundUp(n, a) = n)
<1>1. CASE a = 1
  BY <1>1 DEF RoundUp
<1>2. CASE a = 2
  BY <1>2 DEF RoundUp
<1>3. CASE a = 4
  BY <1>3 DEF RoundUp
<1>4. CASE a = 8
  BY <1>4 DEF RoundUp
<1> QED
  BY <1>1, <1>2, <1>3, <1>4 DEF Alignments

LEMMA RoundUpMonotone ==
  ASSUME NEW m \in Nat, NEW n \in Nat, m <= n, NEW a \in Alignments
  PROVE  RoundUp(m, a) <= RoundUp(n, a)
<1>1. CASE a = 1
  BY <1>1 DEF RoundUp
<1>2. CASE a = 2
  BY <1>2 DEF RoundUp
<1>3. CASE a = 4
  BY <1>3 DEF RoundUp
<1>4. CASE a = 8
  BY <1>4 DEF RoundUp
<1> QED
  BY <1>1, <1>2, <1>3, <1>4 DEF Alignments

LEMMA TypeTables ==
  /\ \A t \in Types : RealSize[t] \in Nat /\ Alignment[t] \in Alignments
  /\ \A t \in Types : ApproxSize[t] = RealSize[t] => t \in Known
  /\ \A t \in Known : ApproxSize[t] = RealSize[t]
<1>1. \A t \in DOMAIN ApproxSize :
        /\ RealSize[t] \in Nat /\ Alignment[t] \in Alignments
        /\ ApproxSize[t] = RealSize[t] => t \in Known
  BY DEF ApproxSize, RealSize, Alignment, Alignments, Known
<1>2. \A t \in Known : ApproxSize[t] = RealSize[t]
  BY DEF ApproxSize, RealSize, Known
<1> QED
  BY <1>1, <1>2, TypesAssumption

Wide(ts) == {1} \cup {Alignment[ts[k]] : k \in DOMAIN ts}

\* Where each field ends.
Ends(ts, end) ==
  /\ end \in [0..Len(ts) -> Nat] /\ end[0] = 0
  /\ \A k \in 1..Len(ts) :
       end[k] = RoundUp(end[k - 1], Alignment[ts[k]]) + RealSize[ts[k]]

LEMMA WidestType ==
  ASSUME NEW ts \in Seq(Types)
  PROVE  Max(Wide(ts)) \in Alignments
<1>1. Wide(ts) \subseteq Alignments /\ 1 \in Wide(ts)
  <2>1. \A k \in DOMAIN ts : ts[k] \in Types
    OBVIOUS
  <2>2. 1 \in Alignments
    BY DEF Alignments
  <2> QED
    BY <2>1, <2>2, TypeTables DEF Wide
<1>2. \A S : S \subseteq {1, 2, 4, 8} /\ 1 \in S => \E x \in S : \A y \in S : x >= y
  <2> SUFFICES ASSUME NEW S, S \subseteq {1, 2, 4, 8}, 1 \in S
               PROVE  \E x \in S : \A y \in S : x >= y
    OBVIOUS
  <2>1. CASE 8 \in S
    <3>1. \A y \in S : 8 >= y
      OBVIOUS
    <3> QED
      BY <2>1, <3>1
  <2>2. CASE 8 \notin S /\ 4 \in S
    <3>1. \A y \in S : 4 >= y
      BY <2>2
    <3> QED
      BY <2>2, <3>1
  <2>3. CASE 8 \notin S /\ 4 \notin S /\ 2 \in S
    <3>1. \A y \in S : 2 >= y
      BY <2>3
    <3> QED
      BY <2>3, <3>1
  <2>4. CASE 8 \notin S /\ 4 \notin S /\ 2 \notin S
    <3>1. \A y \in S : 1 >= y
      BY <2>4
    <3> QED
      BY <2>4, <3>1
  <2> QED
    BY <2>1, <2>2, <2>3, <2>4
<1>3. \E x \in Wide(ts) : \A y \in Wide(ts) : x >= y
  BY <1>1, <1>2 DEF Alignments
<1>4. Max(Wide(ts)) \in Wide(ts)
  <2> DEFINE S == Wide(ts)
  <2> HIDE DEF S
  <2>1. \E x \in S : \A y \in S : x >= y
    BY <1>3 DEF S
  <2>2. Max(S) \in S
    BY <2>1 DEF Max
  <2> QED
    BY <2>2 DEF S
<1> QED
  BY <1>1, <1>4

LEMMA LayoutRun ==
  ASSUME NEW ts \in Seq(Types)
  PROVE  \E end : Ends(ts, end) /\ Layout(ts) = RoundUp(end[Len(ts)], Max(Wide(ts)))
<1> DEFINE N == Len(ts)
           Turn(f, k) == IF k = 0 THEN 0
                         ELSE RoundUp(f[k - 1], Alignment[ts[k]]) + RealSize[ts[k]]
           Equation(f) == f = [k \in 0..N |-> Turn(f, k)]
           F == CHOOSE f : Equation(f)
<1>1. N \in Nat /\ \A k \in 1..N : RealSize[ts[k]] \in Nat /\ Alignment[ts[k]] \in Alignments
  BY TypeTables
<1>2. Layout(ts) = RoundUp(F[N], Max(Wide(ts)))
  BY DEF Layout, Wide
<1> HIDE DEF N
<1>3. \E f : Equation(f)
  <2> DEFINE step == [k \in 1..N |->
                        [e \in Nat |-> RoundUp(e, Alignment[ts[k]]) + RealSize[ts[k]]]]
  <2>1. step \in [1..N -> [Nat -> Nat]]
    <3>1. ASSUME NEW k \in 1..N, NEW e \in Nat
          PROVE  RoundUp(e, Alignment[ts[k]]) + RealSize[ts[k]] \in Nat
      <4>1. RoundUp(e, Alignment[ts[k]]) \in Nat
        BY <1>1, RoundUpBounds, Zenon
      <4>2. \A x, y \in Nat : x + y \in Nat
        OBVIOUS
      <4> QED
        BY <1>1, <4>1, <4>2, Zenon
    <3> QED
      BY <3>1
  <2>2. \A k \in 1..N : \A e \in Nat :
          step[k][e] = RoundUp(e, Alignment[ts[k]]) + RealSize[ts[k]]
    OBVIOUS
  <2> HIDE DEF step
  <2>3. PICK f \in [0..N -> Nat] : LoopRun(N, 0, step, f)
    BY <1>1, <2>1, LoopStates
  <2>4. ASSUME NEW k \in 0..N PROVE f[k] = Turn(f, k)
    <3>1. CASE k = 0
      BY <2>3, <3>1 DEF LoopRun
    <3>2. CASE k # 0
      <4>1. k \in 1..N /\ k - 1 \in 0..N /\ f[k - 1] \in Nat
        BY <1>1, <3>2
      <4> QED
        BY <2>2, <2>3, <3>2, <4>1 DEF LoopRun
    <3> QED
      BY <3>1, <3>2
  <2>5. Equation(f)
    <3> HIDE DEF Turn
    <3> QED
      BY <2>4
  <2> HIDE DEF Equation
  <2> QED
    BY <2>5
<1>4. Equation(F)
  <2> HIDE DEF Equation
  <2> QED
    BY <1>3
<1>5. \A k \in 0..N : F[k] = Turn(F, k)
  <2> HIDE DEF F, Turn
  <2> QED
    BY <1>4
<1>6. DOMAIN F = 0..N /\ F = [k \in 0..N |-> F[k]]
  <2> HIDE DEF F, Turn
  <2> QED
    BY <1>4
<1> HIDE DEF F, Equation
<1>7. F[0] = 0
  BY <1>1, <1>5
<1>8. ASSUME NEW k \in 1..N
      PROVE  F[k] = RoundUp(F[k - 1], Alignment[ts[k]]) + RealSize[ts[k]]
  <2>1. k \in 0..N /\ k # 0
    BY <1>1
  <2> QED
    BY <1>5, <2>1
<1>9. \A k \in 0..N : F[k] \in Nat
  <2> DEFINE T == {k \in Nat : k <= N => F[k] \in Nat}
  <2>1. 0 \in T
    BY <1>7
  <2>2. ASSUME NEW k \in T PROVE k + 1 \in T
    <3>1. k \in Nat /\ k + 1 \in Nat
      OBVIOUS
    <3>2. SUFFICES ASSUME k + 1 <= N PROVE F[k + 1] \in Nat
      BY <3>1
    <3>3. PICK j \in 1..N : j = k + 1
      BY <1>1, <3>1, <3>2
    <3>4. j - 1 = k /\ F[k] \in Nat
      BY <1>1, <3>1, <3>2, <3>3
    <3>5. F[j] = RoundUp(F[k], Alignment[ts[j]]) + RealSize[ts[j]]
      BY <1>8, <3>4
    <3>6. RealSize[ts[j]] \in Nat /\ Alignment[ts[j]] \in Alignments
      BY <1>1
    <3>7. RoundUp(F[k], Alignment[ts[j]]) \in Nat
      BY <3>4, <3>6, RoundUpBounds
    <3>8. RoundUp(F[k], Alignment[ts[j]]) + RealSize[ts[j]] \in Nat
      BY <3>6, <3>7
    <3> QED
      BY <3>3, <3>5, <3>8
  <2> HIDE DEF T
  <2>3. T \subseteq Nat
    BY DEF T
  <2>4. T = Nat
    BY <2>1, <2>2, <2>3, AllNumbers
  <2> QED
    BY <1>1, <2>4 DEF T
<1>10. Ends(ts, F)
  <2>1. F \in [0..N -> Nat]
    BY <1>6, <1>9
  <2> QED
    BY <1>7, <1>8, <2>1 DEF Ends, N
<1> QED
  BY <1>2, <1>10 DEF N

\* What fields of known types take without gaps.
Weight(ts) ==
  Occurrences(ts, "bool") + 2 * Occurrences(ts, "int16") + 4 * Occurrences(ts, "int32")
  + 8 * Occurrences(ts, "int64") + 16 * Occurrences(ts, "string")
  + 24 * Occurrences(ts, "slice") + 8 * Occurrences(ts, "mutex")
  + 24 * Occurrences(ts, "rwmutex") + 12 * Occurrences(ts, "once")

LEMMA OneOccurrence ==
  ASSUME NEW t, NEW x
  PROVE  Occurrences(<<t>>, x) = IF t = x THEN 1 ELSE 0
<1>1. {f \in DOMAIN <<t>> : <<t>>[f] = x} = IF t = x THEN {1} ELSE {}
  OBVIOUS
<1>2. Cardinality({1}) = 1 /\ Cardinality({}) = 0
  BY FS_Singleton, FS_EmptySet
<1> QED
  BY <1>1, <1>2 DEF Occurrences

LEMMA WeightOfMore ==
  ASSUME NEW ts \in Seq(Known), NEW t \in Known
  PROVE  Weight(ts) \in Nat /\ Weight(Append(ts, t)) = Weight(ts) + RealSize[t]
<1>1. Append(ts, t) = ts \o <<t>> /\ <<t>> \in Seq(Known)
  OBVIOUS
<1>2. \A x : /\ Occurrences(ts, x) \in Nat
             /\ Occurrences(Append(ts, t), x) = Occurrences(ts, x) + IF t = x THEN 1 ELSE 0
  <2> SUFFICES ASSUME NEW x
               PROVE  /\ Occurrences(ts, x) \in Nat
                      /\ Occurrences(Append(ts, t), x)
                           = Occurrences(ts, x) + IF t = x THEN 1 ELSE 0
    OBVIOUS
  <2>1. Occurrences(ts, x) \in Nat
    BY OccurrencesType
  <2>2. Occurrences(ts \o <<t>>, x) = Occurrences(ts, x) + Occurrences(<<t>>, x)
    BY <1>1, OccurrencesJoined
  <2>3. Occurrences(<<t>>, x) = IF t = x THEN 1 ELSE 0
    BY OneOccurrence
  <2> QED
    BY <1>1, <2>1, <2>2, <2>3
<1>3. PICK a \in Nat, b \in Nat, c \in Nat, d \in Nat, e \in Nat, f \in Nat,
           g \in Nat, h \in Nat, i \in Nat :
        /\ a = Occurrences(ts, "bool") /\ b = Occurrences(ts, "int16")
        /\ c = Occurrences(ts, "int32") /\ d = Occurrences(ts, "int64")
        /\ e = Occurrences(ts, "string") /\ f = Occurrences(ts, "slice")
        /\ g = Occurrences(ts, "mutex") /\ h = Occurrences(ts, "rwmutex")
        /\ i = Occurrences(ts, "once")
  BY <1>2
<1>4. Weight(ts) = a + 2 * b + 4 * c + 8 * d + 16 * e + 24 * f + 8 * g + 24 * h + 12 * i
  BY <1>3 DEF Weight
<1>5. Weight(Append(ts, t)) =
        (a + IF t = "bool" THEN 1 ELSE 0) + 2 * (b + IF t = "int16" THEN 1 ELSE 0)
        + 4 * (c + IF t = "int32" THEN 1 ELSE 0) + 8 * (d + IF t = "int64" THEN 1 ELSE 0)
        + 16 * (e + IF t = "string" THEN 1 ELSE 0) + 24 * (f + IF t = "slice" THEN 1 ELSE 0)
        + 8 * (g + IF t = "mutex" THEN 1 ELSE 0) + 24 * (h + IF t = "rwmutex" THEN 1 ELSE 0)
        + 12 * (i + IF t = "once" THEN 1 ELSE 0)
  BY <1>2, <1>3 DEF Weight
<1>6. RealSize["bool"] = 1 /\ RealSize["int16"] = 2 /\ RealSize["int32"] = 4
      /\ RealSize["int64"] = 8 /\ RealSize["string"] = 16 /\ RealSize["slice"] = 24
      /\ RealSize["mutex"] = 8 /\ RealSize["rwmutex"] = 24 /\ RealSize["once"] = 12
  BY DEF RealSize
<1>7. CASE t = "bool"
  BY <1>4, <1>5, <1>6, <1>7
<1>8. CASE t = "int16"
  BY <1>4, <1>5, <1>6, <1>8
<1>9. CASE t = "int32"
  BY <1>4, <1>5, <1>6, <1>9
<1>10. CASE t = "int64"
  BY <1>4, <1>5, <1>6, <1>10
<1>11. CASE t = "string"
  BY <1>4, <1>5, <1>6, <1>11
<1>12. CASE t = "slice"
  BY <1>4, <1>5, <1>6, <1>12
<1>13. CASE t = "mutex"
  BY <1>4, <1>5, <1>6, <1>13
<1>14. CASE t = "rwmutex"
  BY <1>4, <1>5, <1>6, <1>14
<1>15. CASE t = "once"
  BY <1>4, <1>5, <1>6, <1>15
<1> QED
  BY <1>7, <1>8, <1>9, <1>10, <1>11, <1>12, <1>13, <1>14, <1>15 DEF Known

\* From the first fields of a list to one more of them.
LEMMA WeightStep ==
  ASSUME NEW ts \in Seq(Known)
  PROVE  /\ Weight(SubSeq(ts, 1, 0)) = 0
         /\ \A k \in 0..Len(ts) : Weight(SubSeq(ts, 1, k)) \in Nat
         /\ \A k \in 1..Len(ts) :
              Weight(SubSeq(ts, 1, k)) = Weight(SubSeq(ts, 1, k - 1)) + RealSize[ts[k]]
<1>1. Weight(SubSeq(ts, 1, 0)) = 0
  <2>1. \A x : Occurrences(<< >>, x) = 0
    <3> SUFFICES ASSUME NEW x PROVE Occurrences(<< >>, x) = 0
      OBVIOUS
    <3>1. {f \in DOMAIN << >> : << >>[f] = x} = {}
      OBVIOUS
    <3> QED
      BY <3>1, FS_EmptySet DEF Occurrences
  <2>2. SubSeq(ts, 1, 0) = << >>
    OBVIOUS
  <2>3. Weight(<< >>) = 0
    BY <2>1 DEF Weight
  <2> QED
    BY <2>2, <2>3
<1>2. \A k \in 0..Len(ts) : Weight(SubSeq(ts, 1, k)) \in Nat
  <2> SUFFICES ASSUME NEW k \in 0..Len(ts) PROVE Weight(SubSeq(ts, 1, k)) \in Nat
    OBVIOUS
  <2>1. SubSeq(ts, 1, k) \in Seq(Known)
    BY FirstElements
  <2>2. "bool" \in Known
    BY DEF Known
  <2> QED
    BY <2>1, <2>2, WeightOfMore
<1>3. ASSUME NEW k \in 1..Len(ts)
      PROVE  Weight(SubSeq(ts, 1, k)) = Weight(SubSeq(ts, 1, k - 1)) + RealSize[ts[k]]
  <2>1. k \in 0..Len(ts) /\ k # 0 /\ k - 1 \in 0..Len(ts) /\ ts[k] \in Known
    OBVIOUS
  <2>2. /\ SubSeq(ts, 1, k) = Append(SubSeq(ts, 1, k - 1), ts[k])
        /\ SubSeq(ts, 1, k - 1) \in Seq(Known)
    BY <2>1, FirstElements
  <2> QED
    BY <2>1, <2>2, WeightOfMore
<1> QED
  BY <1>1, <1>2, <1>3

\* No order of the fields takes less than their sizes.
LEMMA LayoutAtLeast ==
  ASSUME NEW ts \in Seq(Known), ts \in Seq(Types), NEW end, Ends(ts, end)
  PROVE  Weight(ts) <= end[Len(ts)] /\ end[Len(ts)] \in Nat
<1> DEFINE N == Len(ts)
           W(k) == Weight(SubSeq(ts, 1, k))
           T == {k \in Nat : k <= N => W(k) <= end[k]}
<1>1. /\ N \in Nat /\ W(0) = 0 /\ \A k \in 0..N : W(k) \in Nat
      /\ \A k \in 1..N : W(k) = W(k - 1) + RealSize[ts[k]]
  BY WeightStep
<1>2. /\ \A k \in 0..N : end[k] \in Nat
      /\ end[0] = 0
      /\ \A k \in 1..N : end[k] = RoundUp(end[k - 1], Alignment[ts[k]]) + RealSize[ts[k]]
  BY DEF Ends
<1>3. \A k \in 1..N : RealSize[ts[k]] \in Nat /\ Alignment[ts[k]] \in Alignments
  BY TypeTables
<1>4. W(N) = Weight(ts)
  <2>1. SubSeq(ts, 1, Len(ts)) = ts
    OBVIOUS
  <2> QED
    BY <2>1
<1> HIDE DEF W, N
<1>5. 0 \in T
  BY <1>1, <1>2
<1>6. ASSUME NEW k \in T PROVE k + 1 \in T
  <2>1. k \in Nat /\ k + 1 \in Nat
    OBVIOUS
  <2>2. SUFFICES ASSUME k + 1 <= N PROVE W(k + 1) <= end[k + 1]
    BY <2>1
  <2>3. PICK j \in 1..N : j = k + 1 /\ j - 1 = k /\ k \in 0..N
    BY <1>1, <2>1, <2>2
  <2>4. W(k) <= end[k] /\ W(k) \in Nat /\ end[k] \in Nat
    BY <1>1, <1>2, <2>3
  <2>5. RealSize[ts[j]] \in Nat /\ Alignment[ts[j]] \in Alignments
    BY <1>3
  <2>6. RoundUp(end[k], Alignment[ts[j]]) \in Nat /\ end[k] <= RoundUp(end[k], Alignment[ts[j]])
    BY <2>4, <2>5, RoundUpBounds
  <2>7. W(j) = W(k) + RealSize[ts[j]]
        /\ end[j] = RoundUp(end[k], Alignment[ts[j]]) + RealSize[ts[j]]
    BY <1>1, <1>2, <2>3
  <2>8. W(j) <= end[j]
    BY <2>4, <2>5, <2>6, <2>7
  <2> QED
    BY <2>3, <2>8
<1>7. T = Nat
  <2>1. T \subseteq Nat
    OBVIOUS
  <2> HIDE DEF T
  <2> QED
    BY <1>5, <1>6, <2>1, AllNumbers
<1>8. W(N) <= end[N]
  BY <1>1, <1>7
<1>9. end[N] \in Nat
  BY <1>1, <1>2
<1> QED
  BY <1>4, <1>8, <1>9 DEF N

\* Fields that leave no gap in front of those behind them take no more.
LEMMA LayoutDense ==
  ASSUME NEW ts \in Seq(Known), ts \in Seq(Types), NEW end, Ends(ts, end),
         \A q, r \in 1..Len(ts) : q <= r => RealSize[ts[q]] % Alignment[ts[r]] = 0
  PROVE  end[Len(ts)] = Weight(ts)
<1> DEFINE N == Len(ts)
           W(k) == Weight(SubSeq(ts, 1, k))
           T == {k \in Nat : k <= N =>
                   /\ end[k] = W(k)
                   /\ \A r \in 1..N : k <= r => end[k] % Alignment[ts[r]] = 0}
<1>1. /\ N \in Nat /\ W(0) = 0 /\ \A k \in 0..N : W(k) \in Nat
      /\ \A k \in 1..N : W(k) = W(k - 1) + RealSize[ts[k]]
  BY WeightStep
<1>2. /\ \A k \in 0..N : end[k] \in Nat
      /\ end[0] = 0
      /\ \A k \in 1..N : end[k] = RoundUp(end[k - 1], Alignment[ts[k]]) + RealSize[ts[k]]
  BY DEF Ends
<1>3. \A k \in 1..N : RealSize[ts[k]] \in Nat /\ Alignment[ts[k]] \in Alignments
  BY TypeTables
<1>4. W(N) = Weight(ts)
  <2>1. SubSeq(ts, 1, Len(ts)) = ts
    OBVIOUS
  <2> QED
    BY <2>1
<1>40. \A q, r \in 1..N : q <= r => RealSize[ts[q]] % Alignment[ts[r]] = 0
  OBVIOUS
<1> HIDE DEF W, N
<1>5. 0 \in T
  <2>1. \A a \in Alignments : 0 % a = 0
    BY DEF Alignments
  <2> QED
    BY <1>1, <1>2, <1>3, <2>1
<1>6. ASSUME NEW k \in T PROVE k + 1 \in T
  <2>1. k \in Nat /\ k + 1 \in Nat
    OBVIOUS
  <2>2. SUFFICES ASSUME k + 1 <= N
                 PROVE  /\ end[k + 1] = W(k + 1)
                        /\ \A r \in 1..N : k + 1 <= r => end[k + 1] % Alignment[ts[r]] = 0
    BY <2>1
  <2>3. PICK j \in 1..N : j = k + 1 /\ j - 1 = k /\ k \in 0..N /\ k <= j
    BY <1>1, <2>1, <2>2
  <2>4. end[k] = W(k) /\ W(k) \in Nat /\ end[k] \in Nat
        /\ \A r \in 1..N : k <= r => end[k] % Alignment[ts[r]] = 0
    BY <1>1, <1>2, <2>3
  <2>5. RealSize[ts[j]] \in Nat /\ Alignment[ts[j]] \in Alignments
    BY <1>3
  <2>6. RoundUp(end[k], Alignment[ts[j]]) = end[k]
    BY <2>3, <2>4, <2>5, RoundUpBounds
  <2>7. W(j) = W(k) + RealSize[ts[j]] /\ end[j] = end[k] + RealSize[ts[j]]
    BY <1>1, <1>2, <2>3, <2>6
  <2>8. end[j] = W(j)
    BY <2>4, <2>7
  <2>9. ASSUME NEW r \in 1..N, j <= r
        PROVE  end[j] % Alignment[ts[r]] = 0
    <3>1. \A x, y \in Nat : \A a \in {1, 2, 4, 8} :
            x % a = 0 /\ y % a = 0 => (x + y) % a = 0
      <4> SUFFICES ASSUME NEW x \in Nat, NEW y \in Nat, NEW a \in {1, 2, 4, 8},
                          x % a = 0, y % a = 0
                   PROVE  (x + y) % a = 0
        OBVIOUS
      <4>1. CASE a = 1
        BY <4>1
      <4>2. CASE a = 2
        BY <4>2
      <4>3. CASE a = 4
        BY <4>3
      <4>4. CASE a = 8
        BY <4>4
      <4> QED
        BY <4>1, <4>2, <4>3, <4>4
    <3>2. RealSize[ts[j]] % Alignment[ts[r]] = 0
      BY <1>40, <2>9
    <3>3. k <= r
      BY <1>1, <2>1, <2>3, <2>9
    <3>4. end[k] % Alignment[ts[r]] = 0 /\ Alignment[ts[r]] \in Alignments
      BY <1>3, <2>4, <3>3
    <3>5. (end[k] + RealSize[ts[j]]) % Alignment[ts[r]] = 0
      BY <2>4, <2>5, <3>1, <3>2, <3>4 DEF Alignments
    <3> QED
      BY <2>7, <3>5
  <2> QED
    BY <2>3, <2>8, <2>9
<1>7. T = Nat
  <2>1. T \subseteq Nat
    OBVIOUS
  <2> HIDE DEF T
  <2> QED
    BY <1>5, <1>6, <2>1, AllNumbers
<1>8. end[N] = W(N)
  <2>1. N \in T
    BY <1>1, <1>7
  <2> QED
    BY <1>1, <2>1
<1> QED
  BY <1>4, <1>8 DEF N

LEMMA LayoutType ==
  ASSUME NEW ts \in Seq(Types)
  PROVE  Layout(ts) \in Nat
<1>1. PICK end : Ends(ts, end) /\ Layout(ts) = RoundUp(end[Len(ts)], Max(Wide(ts)))
  BY LayoutRun
<1>2. end[Len(ts)] \in Nat
  BY <1>1 DEF Ends
<1>3. Max(Wide(ts)) \in Alignments
  BY WidestType
<1> QED
  BY <1>1, <1>2, <1>3, RoundUpBounds

\* A struct that is put in order does not grow.
LEMMA ImprovedLayout ==
  ASSUME NEW s \in Struct, OnePerLine(s), SizesKnown(s), Packs(s)
  PROVE  Layout(Fields(Improved(s))) <= Layout(Fields(s))
<1> DEFINE ts == Fields(s)
           us == Fields(Improved(s))
           N == FieldCount(s)
<1>1. ts \in Seq(Types) /\ N \in Nat /\ DOMAIN ts = 1..N /\ Len(ts) = N
  BY FieldsType DEF FieldCount
<1>2. CASE ~Misaligned(s)
  BY <1>1, <1>2, LayoutType DEF Improved
<1>3. CASE Misaligned(s)
  <2>1. /\ Order(s) \in [1..N -> 1..N]
        /\ us = [r \in 1..N |-> ts[Order(s)[r]]]
    BY <1>3, ImprovedFields
  <2>2. /\ \A q, r \in 1..N : Order(s)[q] = Order(s)[r] => q = r
        /\ \A q, r \in 1..N : q <= r =>
             ApproxSize[ts[Order(s)[r]]] <= ApproxSize[ts[Order(s)[q]]]
    BY OrderType
  <2>3. \A f \in 1..N : ApproxSize[ts[f]] = RealSize[ts[f]]
    BY <1>1 DEF SizesKnown
  <2>30. \A f, g \in 1..N : ApproxSize[ts[g]] <= ApproxSize[ts[f]] =>
                              RealSize[ts[f]] % Alignment[ts[g]] = 0
    <3>1. \A f \in 1..N : ts[f] \in ToSet(ts)
      BY <1>1 DEF ToSet
    <3> QED
      BY <3>1 DEF Packs
  <2>4. Weight(us) = Weight(ts)
    <3>1. \A t : Occurrences(us, t) = Occurrences(ts, t)
      BY ImprovedKeepsFields
    <3> HIDE DEF us, ts
    <3> QED
      BY <3>1 DEF Weight
  <2> HIDE DEF ts, us, N
  <2>5. \A f \in 1..N : ts[f] \in Types /\ ts[f] \in Known
    BY <1>1, <2>3, TypeTables
  <2>6. \A f \in 1..N : \E r \in 1..N : Order(s)[r] = f
    <3>1. IsFiniteSet(1..N)
      BY <1>1, FS_Interval
    <3> QED
      BY <2>1, <2>2, <3>1, PermutationOnto
  <2>7. \A r \in 1..N : Order(s)[r] \in 1..N /\ us[r] = ts[Order(s)[r]]
    BY <2>1
  <2>8. DOMAIN us = 1..N /\ Len(us) = N
    BY <1>1, <2>1
  <2>9. ts \in Seq(Known) /\ us \in Seq(Known) /\ us \in Seq(Types)
    <3>1. ts \in [1..N -> Known]
      BY <1>1, <2>5
    <3>2. us \in [1..N -> Known] /\ us \in [1..N -> Types]
      BY <2>1, <2>5, <2>7
    <3> QED
      BY <1>1, <3>1, <3>2
  <2>10. Wide(us) = Wide(ts)
    <3> DEFINE A == {Alignment[us[r]] : r \in 1..N}
               B == {Alignment[ts[f]] : f \in 1..N}
    <3>1. ASSUME NEW x \in A PROVE x \in B
      <4>1. PICK r \in 1..N : x = Alignment[us[r]]
        OBVIOUS
      <4>2. PICK f \in 1..N : f = Order(s)[r] /\ us[r] = ts[f]
        BY <2>7
      <4> QED
        BY <4>1, <4>2
    <3>2. ASSUME NEW x \in B PROVE x \in A
      <4>1. PICK f \in 1..N : x = Alignment[ts[f]]
        OBVIOUS
      <4>2. PICK r \in 1..N : us[r] = ts[f]
        BY <2>6, <2>7
      <4> QED
        BY <4>1, <4>2
    <3>3. A = B
      <4> HIDE DEF A, B
      <4> QED
        BY <3>1, <3>2
    <3> QED
      BY <1>1, <2>8, <3>3, Zenon DEF Wide
  <2>11. \A q, r \in 1..Len(us) : q <= r => RealSize[us[q]] % Alignment[us[r]] = 0
    BY <2>2, <2>30, <2>7, <2>8
  <2>12. PICK e : Ends(ts, e) /\ Layout(ts) = RoundUp(e[Len(ts)], Max(Wide(ts)))
    BY <1>1, LayoutRun
  <2>13. PICK g : Ends(us, g) /\ Layout(us) = RoundUp(g[Len(us)], Max(Wide(us)))
    BY <2>9, LayoutRun
  <2>14. g[Len(us)] = Weight(us)
    BY <2>9, <2>11, <2>13, LayoutDense
  <2>15. Weight(ts) <= e[Len(ts)] /\ e[Len(ts)] \in Nat
    BY <1>1, <2>9, <2>12, LayoutAtLeast
  <2>16. Weight(ts) \in Nat
    <3>1. "bool" \in Known
      BY DEF Known
    <3> QED
      BY <2>9, <3>1, WeightOfMore
  <2>17. Max(Wide(ts)) \in Alignments
    BY <1>1, WidestType
  <2>18. RoundUp(Weight(ts), Max(Wide(ts))) <= RoundUp(e[Len(ts)], Max(Wide(ts)))
    BY <2>15, <2>16, <2>17, RoundUpMonotone
  <2>19. Layout(us) <= Layout(ts)
    BY <2>4, <2>10, <2>12, <2>13, <2>14, <2>18
  <2> QED
    BY <2>19 DEF us, ts
<1> QED
  BY <1>2, <1>3

\* What FixAll does to the structs of a file in which each has a name of its own.
LEMMA FixImproves ==
  ASSUME FileInv, FixAll, UniqueNames(structs),
         \A k \in DOMAIN structs : OnePerLine(structs[k])
  PROVE  /\ FieldBag(structs') = FieldBag(structs)
         /\ result' = "written" => StructIssues(structs') = {}
         /\ \A k \in DOMAIN structs :
              SizesKnown(structs[k]) /\ Packs(structs[k]) =>
                Layout(Fields(structs'[k])) <= Layout(Fields(structs[k]))
<1>1. structs \in Seq(Struct) /\ reorders = StructIssues(structs)
  BY DEF FileInv, TypeOK, FixAll
<1>2. ASSUME NEW k \in DOMAIN structs PROVE structs[k] \in Struct /\ OnePerLine(structs[k])
  BY <1>1
<1>3. CASE structs' = structs /\ result' # "written"
  <2>1. \A k \in DOMAIN structs : Layout(Fields(structs[k])) \in Nat
    BY <1>2, FieldsType, LayoutType
  <2>2. \A k \in DOMAIN structs : Layout(Fields(structs'[k])) <= Layout(Fields(structs[k]))
    BY <1>3, <2>1
  <2> QED
    BY <1>3, <2>2
<1>4. CASE structs' \in StructResults(structs, reorders)
  <2>1. structs' = [k \in DOMAIN structs |-> Improved(structs[k])]
    BY <1>1, <1>4, ImprovedStructs
  <2>2. FieldBag(structs') = FieldBag(structs)
    BY <1>1, <2>1, SameFieldBag
  <2>3. \A k \in DOMAIN structs' : ~Misaligned(structs'[k])
    BY <1>2, <2>1, ImprovedIsAligned
  <2>4. StructIssues(structs') = {}
    BY <2>3 DEF StructIssues, ToSet
  <2>5. \A k \in DOMAIN structs :
          SizesKnown(structs[k]) /\ Packs(structs[k]) =>
            Layout(Fields(structs'[k])) <= Layout(Fields(structs[k]))
    BY <1>2, <2>1, ImprovedLayout
  <2> QED
    BY <2>2, <2>4, <2>5
<1>5. \/ structs' = structs /\ result' = "failed"
      \/ structs' \in StructResults(structs, reorders)
  BY DEF FixAll
<1> QED
  BY <1>3, <1>4, <1>5

\* For any structs with a field to a line and names of their own: -fix keeps
\* their fields, leaves no report of StructAlign behind and makes none larger
\* whose sizes approxSize knows and whose fields pack (checkStructAlign,
\* approxSize, structReorderEdit). That they pack is needed: see NoStructGrows.
THEOREM StructsImprove == Spec => PlainStructsImprove
<1>1. FileInv /\ [Next]_vars =>
        [FixAll /\ UniqueNames(structs) /\ (\A k \in DOMAIN structs : OnePerLine(structs[k])) =>
           /\ FieldBag(structs') = FieldBag(structs)
           /\ result' = "written" => StructIssues(structs') = {}
           /\ \A k \in DOMAIN structs :
                SizesKnown(structs[k]) /\ Packs(structs[k]) =>
                  Layout(Fields(structs'[k])) <= Layout(Fields(structs[k]))]_vars
  BY FixImproves
<1> QED
  BY <1>1, FileInvariance, PTL DEF Spec, PlainStructsImprove

=============================================================================

------------------------------ MODULE Prealloc -----------------------------
(***************************************************************************)
(* The MemPrealloc checker (checker/mem_prealloc.go) and the edits -fix    *)
(* makes of its issues (fix.go), on the body of one function.              *)
(*                                                                         *)
(* A body is the sequence of its statements in source order, one to a      *)
(* line, each with the depth of its indentation: a statement lies in every *)
(* earlier one that is less indented, up to the end of that block. A       *)
(* statement keeps what the checker looks at.                              *)
(*   kind    zero   var x []T, var x []T = nil, x := []T{}                 *)
(*           make   x := make([]T, n, caps...), var x = make(...)          *)
(*           map    x := make(map[K]V, caps...)                            *)
(*           other  any other declaration of x                             *)
(*           append x = append(x, ...); write x[k] = ...                   *)
(*           range, for (i < n), upTo (i <= n), func (a literal), block    *)
(*           (if, a bare block)                                            *)
(*   name    x; for an append to no plain identifier, Other                *)
(*   length  the length of a make, 0 for one that is no constant           *)
(*   caps    the capacities of a make, as the edits that put them there    *)
(*   over    of a loop: the name or the number that its range expression   *)
(*           or its bound is; Other for a field whose operand exprStr      *)
(*           cannot write (a[0].items gives items), Call for a call        *)
(*           (f(...) is not Go), Odd for one that yields no hint           *)
(*   listed  it stands in the list of a BlockStmt: a labelled loop, a loop *)
(*           or assignment in a case clause and var m = make(map[K]V)      *)
(*           do not (the last is no AssignStmt)                            *)
(* A name is of one type, wherever it is declared.                         *)
(***************************************************************************)
EXTENDS Naturals, Sequences

CONSTANTS
  Names,    \* identifiers
  Params,   \* those declared outside the body, visible in all of it
  Sized,    \* slices, maps and strings; other names may be of any type
  Ints,     \* integer variables
  Other,    \* no identifier
  Call,     \* no Go
  Odd       \* no hint

ASSUME PreallocAssumption ==
  /\ Params \subseteq Names /\ Sized \subseteq Names /\ Ints \subseteq Names
  /\ Sized \cap Ints = {} /\ Names \cap Nat = {}
  /\ {Other, Call, Odd} \cap (Names \cup Nat) = {}
  /\ Other # Call /\ Call # Odd /\ Odd # Other

Loop == {"range", "for", "upTo"}
Decl == {"zero", "make", "map", "other"}
Kind == Loop \cup Decl \cup {"append", "write", "func", "block"}

\* A capacity: the length of something, its value, or its value and 1.
Hint == [form : {"len", "value", "succ"}, of : Names \cup Nat \cup {Other, Call}]

Default == [form |-> "value", of |-> 8]

Statement ==
  [kind : Kind, depth : Nat, name : Names \cup {Other}, length : Nat,
   caps : SUBSET [line : Nat, cap : Hint],
   over : Names \cup Nat \cup {Other, Call, Odd}, listed : BOOLEAN]

Body == Seq(Statement)

-----------------------------------------------------------------------------
(* The shape of a body: what ast.Inspect visits below a node. *)

\* Statement i lies in the body of j.
In(p, j, i) ==
  /\ j < i
  /\ \A k \in (j + 1)..i : p[k].depth > p[j].depth

\* i comes before j in the same list of statements.
Before(p, i, j) ==
  /\ i < j /\ p[i].depth = p[j].depth
  /\ \A k \in i..j : p[k].depth >= p[i].depth

\* The last of a set of positions, if it has any: the innermost of nested
\* statements, the nearest of earlier ones.
Nearest(S) == {x \in S : \A y \in S : y <= x}
Earliest(S) == {x \in S : \A y \in S : x <= y}

\* The loop an append is attributed to: its visitor stops at nested loops, and
\* goes through function literals.
LoopOf(p, i) == Nearest({l \in DOMAIN p : p[l].kind \in Loop /\ In(p, l, i)})

\* The function whose body is searched for declarations when loop l is
\* visited: the literals in it are searched as well.
SameFunction(p, l) ==
  LET func == Nearest({f \in DOMAIN p : p[f].kind = "func" /\ In(p, f, l)})
  IN  {d \in DOMAIN p : \A f \in func : In(p, f, d)}

-----------------------------------------------------------------------------
(* checkAppendInLoops *)

\* Mutant of IsPreallocated: only a declaration in the loop's own list counts.
IsPreallocatedInBlock(p, name, l) ==
  \E d \in SameFunction(p, l) :
    Before(p, d, l) /\ p[d].kind = "make" /\ p[d].name = name /\ p[d].caps # {}

\* isPreallocatedBefore: by name and position, whatever the scope in between.
IsPreallocated(p, name, l) ==
  \E d \in SameFunction(p, l) :
    d < l /\ p[d].kind = "make" /\ p[d].name = name /\ p[d].caps # {}

HintForm == [range |-> "len", for |-> "value", upTo |-> "succ"]

\* Mutant of LoopHint: the empty hint is used as it is.
LoopHintRaw(p, l) == [form |-> HintForm[p[l].kind], of |-> p[l].over]

\* rangeExprHint and forLoopCapHint.
LoopHint(p, l) == IF p[l].over = Odd THEN Default
                  ELSE [form |-> HintForm[p[l].kind], of |-> p[l].over]

\* The loop an append needs a capacity for, unless it has one.
GrowingIn(p, i) ==
  {l \in LoopOf(p, i) : /\ p[i].kind = "append"
                        /\ ~IsPreallocated(p, p[i].name, l)}

AppendIssues(p) ==
  UNION {{[line |-> i, column |-> p[i].depth, fix |-> "slice_cap",
           name |-> p[i].name, cap |-> LoopHint(p, l)] : l \in GrowingIn(p, i)}
         : i \in DOMAIN p}

-----------------------------------------------------------------------------
(* checkMapMake *)

\* The first later range loop of the same list that writes to the map.
FillingLoop(p, i) ==
  Earliest({r \in DOMAIN p :
              /\ Before(p, i, r)
              /\ p[r].kind = "range" /\ p[r].listed /\ p[r].over # Odd
              /\ \E w \in DOMAIN p : /\ In(p, r, w) /\ p[w].kind = "write"
                                     /\ p[w].name = p[i].name})

\* rangeHintForMapVar, or the default.
MapHints(p, i) ==
  IF p[i].listed /\ FillingLoop(p, i) # {}
  THEN {[form |-> "len", of |-> p[r].over] : r \in FillingLoop(p, i)}
  ELSE {Default}

MapIssues(p) ==
  UNION {{[line |-> i, column |-> p[i].depth, fix |-> "map_cap",
           name |-> p[i].name, cap |-> h] : h \in MapHints(p, i)}
         : i \in {k \in DOMAIN p : p[k].kind = "map" /\ p[k].caps = {}}}

Check(p) == AppendIssues(p) \cup MapIssues(p)

Issue == [line : Nat, column : Nat, fix : {"slice_cap", "map_cap"},
          name : Names \cup {Other}, cap : Hint]

-----------------------------------------------------------------------------
(* The edits of fixFile: for each issue the declaration it rewrites, looked *)
(* up by the issue's line and column in the file as it is now.              *)

\* findEnclosingLoop: the innermost loop around the line that stands in a
\* block's list; other loops are not seen.
EnclosingLoop(p, line) ==
  Nearest({l \in DOMAIN p :
             /\ p[l].kind \in Loop /\ p[l].listed
             /\ l = line \/ In(p, l, line)})

\* sliceCapEdit: the statement just before the loop, if it declares the name
\* in one of the forms that have no capacity yet.
SliceTarget(p, iss) ==
  {d \in DOMAIN p :
     /\ p[d].name = iss.name
     /\ p[d].kind = "zero" \/ (p[d].kind = "make" /\ p[d].caps = {})
     /\ \E l \in EnclosingLoop(p, iss.line) :
          d \in Nearest({s \in DOMAIN p : Before(p, s, l)})}

\* mapCapEdit: the make(map[K]V) at the issue's line and column.
MapTarget(p, iss) ==
  {d \in DOMAIN p : /\ d = iss.line /\ p[d].depth = iss.column
                    /\ p[d].kind = "map" /\ p[d].caps = {}}

Target(p, iss) == IF iss.fix = "map_cap" THEN MapTarget(p, iss)
                  ELSE IF iss.name = Other THEN {} ELSE SliceTarget(p, iss)

Edits(p, issues) ==
  UNION {{[at |-> d, line |-> iss.line, cap |-> iss.cap] : d \in Target(p, iss)}
         : iss \in issues}

\* Two edits overlap when both replace the statement; a capacity inserted into
\* a make has no width and overlaps nothing.
Overlap(p, e, f) == e # f /\ e.at = f.at /\ p[e.at].kind = "zero"

\* Mutant of Clean: none of the edits that overlap is kept.
CleanNone(p, edits) ==
  {{e \in edits : \A f \in edits : ~Overlap(p, e, f)}}

\* What the overlap filter may keep: which of several replacements is up to the
\* sort, which is not stable.
Clean(p, edits) ==
  {A \in SUBSET edits :
     \A e \in edits : e \in A <=> \A f \in A : ~Overlap(p, e, f)}

\* Mutant of Apply: the offsets are those of the next line.
ApplyNextLine(p, edits) ==
  [i \in DOMAIN p |->
     IF \E e \in edits : e.at + 1 = i
     THEN [p[i] EXCEPT !.kind = "make",
                       !.caps = {[line |-> e.line, cap |-> e.cap] :
                                   e \in {f \in edits : f.at + 1 = i}}]
     ELSE p[i]]

\* The edits applied. A replaced statement becomes a make of length 0 with one
\* capacity, a make keeps its length.
Apply(p, edits) ==
  [i \in DOMAIN p |->
     IF \E e \in edits : e.at = i
     THEN [p[i] EXCEPT !.kind = IF @ = "map" THEN "map" ELSE "make",
                       !.caps = {[line |-> e.line, cap |-> e.cap] :
                                   e \in {f \in edits : f.at = i}}]
     ELSE p[i]]

\* Mutant of Formats: the error is ignored.
FormatsAlways(edits) == TRUE

\* format.Source accepts the result.
Formats(edits) == \A e \in edits : e.cap.of # Call

=============================================================================

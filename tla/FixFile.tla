------------------------------ MODULE FixFile ------------------------------
(***************************************************************************)
(* goperfcheck -fix on one file, again and again (fixFile in fix.go): the  *)
(* author writes the file, a run checks it, reads it again and rewrites    *)
(* what its issues allow. Between the check and the second read an editor  *)
(* may save another version. The file is the body of a function (Prealloc) *)
(* and some structs (StructAlign), which one run fixes together.           *)
(***************************************************************************)
EXTENDS Prealloc, StructAlign

CONSTANTS
  Statements,     \* what the author writes: statements without their depth
  Inserted,       \* those an editor may put in while the program runs
  StructShapes,   \* the names and forms of the structs they declare
  MaxStatements,  \* bound: the length of the body
  MaxFields,      \* bound: the structs, their fields and comments
  MixedBody,      \* bound: the length of the body next to a struct
  MaxRuns         \* bound: runs

ASSUME FixFileAssumption ==
  /\ Statements \cup Inserted \subseteq Statement
  /\ StructShapes \subseteq Struct
  /\ {MaxStatements, MaxFields, MixedBody, MaxRuns} \subseteq Nat

VARIABLES
  body, structs,  \* the file
  phase,          \* "edit", "checked" (a run has its issues), "fixed"
  issues,         \* those of the body
  reorders,       \* those of the structs
  stale,          \* the file was saved since that run checked it
  result,         \* of the last fix: "none", "kept", "failed", "written"
  runs

vars == <<body, structs, phase, issues, reorders, stale, result, runs>>

\* Bound: the size of the structs, and of the file. No statements are written
\* after the last one the checker reports; a body has at most one struct next
\* to it, in the form it is first written in.
Comments(s) == Cardinality({l \in DOMAIN s.lines : s.lines[l] = <<>>})
TextOf(ss) == FoldLeft(LAMBDA n, s : n + 1 + FieldCount(s) + Comments(s), 0, ss)

Finished(p) == p # <<>> => Last(p).kind \in {"append", "write", "map"}

Fits(p, ss) ==
  /\ Len(p) <= MaxStatements /\ TextOf(ss) <= MaxFields
  /\ Len(p) = MaxStatements \/ ss # <<>> => Finished(p)
  /\ p # <<>> /\ ss # <<>> =>
       Len(p) <= MixedBody /\ Len(ss) <= 1 /\ ToSet(ss) \subseteq StructShapes

Init ==
  /\ body = <<>> /\ structs = <<>>
  /\ phase = "edit" /\ runs = 0
  /\ issues = {} /\ reorders = {}
  /\ stale = FALSE /\ result = "none"

-----------------------------------------------------------------------------
(* The author *)

\* A declaration of the name that holds for a statement of this depth that is
\* put at i.
VisibleAt(p, name, i, depth) ==
  \/ name \in Params
  \/ \E d \in 1..(i - 1) :
       /\ p[d].kind \in Decl /\ p[d].name = name /\ p[d].depth <= depth
       /\ \A k \in d..(i - 1) : p[k].depth >= p[d].depth

\* What the statement reads has been declared; what it fills, in a loop.
Sensible(p, s, i) ==
  /\ s.kind \in Loop /\ s.over \in Names => VisibleAt(p, s.over, i, s.depth)
  /\ s.kind \in {"append", "write"} =>
       /\ s.name \in Names => VisibleAt(p, s.name, i, s.depth)
       /\ \E l \in 1..(i - 1) :
            /\ p[l].kind \in Loop /\ p[l].depth < s.depth
            /\ \A k \in (l + 1)..(i - 1) : p[k].depth > p[l].depth

Opens(s) == s.kind \in Loop \cup {"func", "block"}

WriteStatement ==
  /\ phase = "edit"
  /\ \E s \in Statements, depth \in 0..Len(body) :
       LET new == [s EXCEPT !.depth = depth]
       IN  /\ IF body = <<>> THEN depth = 0
              ELSE depth <= Last(body).depth + (IF Opens(Last(body)) THEN 1 ELSE 0)
           /\ Sensible(body, new, Len(body) + 1)
           /\ body' = Append(body, new)
  /\ Fits(body', structs)
  /\ UNCHANGED <<structs, phase, issues, reorders, stale, result, runs>>

\* A new struct, or a line more of the last one: a field of its own, a field
\* on the line before, or a comment that belongs to no field.
WriteStruct ==
  /\ phase = "edit"
  /\ \/ \E s \in StructShapes : structs' = Append(structs, s)
     \/ /\ structs # <<>> /\ ~Last(structs).flat
        /\ \E line \in {<<t>> : t \in Types} \cup {<<>>} :
             structs' = [structs EXCEPT ![Len(structs)].lines = Append(@, line)]
     \/ /\ structs # <<>> /\ Last(structs).lines # <<>>
        /\ Last(Last(structs).lines) # <<>>
        /\ \E t \in Types :
             structs' = [structs EXCEPT ![Len(structs)].lines =
                           Append(Front(@), Append(Last(@), t))]
  /\ Fits(body, structs')
  /\ UNCHANGED <<body, phase, issues, reorders, stale, result, runs>>

\* An editor saves a version with one statement more, between the check and
\* the fix of a run.
Save ==
  /\ phase = "checked" /\ ~stale
  /\ Len(body) < MaxStatements
  /\ \E s \in Inserted, k \in DOMAIN body :
       LET new == [s EXCEPT !.depth = body[k].depth]
       IN  /\ Sensible(body, new, k)
           /\ body' = InsertAt(body, k, new)
  /\ stale' = TRUE
  /\ UNCHANGED <<structs, phase, issues, reorders, result, runs>>

-----------------------------------------------------------------------------
(* The program *)

CheckFile ==
  /\ phase \in {"edit", "fixed"} /\ runs < MaxRuns /\ Finished(body)
  /\ issues' = Check(body)
  /\ reorders' = StructIssues(structs)
  /\ phase' = "checked"
  /\ stale' = FALSE
  /\ result' = "none"
  /\ runs' = runs + 1
  /\ UNCHANGED <<body, structs>>

StructEdits ==
  {k \in DOMAIN structs : \E iss \in reorders : k \in ReorderTarget(structs, iss)}

\* No issue has an edit.
FixNothing ==
  /\ phase = "checked"
  /\ Edits(body, issues) = {} /\ StructEdits = {}
  /\ result' = "kept"
  /\ phase' = "fixed"
  /\ UNCHANGED <<body, structs, issues, reorders, stale, runs>>

\* All edits are applied and the result is formatted, or none when it does not
\* parse.
FixAll ==
  /\ phase = "checked"
  /\ Edits(body, issues) # {} \/ StructEdits # {}
  /\ \E edits \in Clean(body, Edits(body, issues)) :
       \/ /\ Formats(edits)
          /\ body' = Apply(body, edits)
          /\ structs' \in StructResults(structs, reorders)
          /\ result' = "written"
       \/ /\ ~Formats(edits)
          /\ result' = "failed"
          /\ UNCHANGED <<body, structs>>
  /\ phase' = "fixed"
  /\ UNCHANGED <<issues, reorders, stale, runs>>

Next == WriteStatement \/ WriteStruct \/ Save \/ CheckFile \/ FixNothing \/ FixAll

Spec == Init /\ [][Next]_vars

-----------------------------------------------------------------------------

\* The file holds what an author and edits can make of it.
TypeOK ==
  /\ body \in Body
  /\ structs \in Seq(Struct)
  /\ phase \in {"edit", "checked", "fixed"}
  /\ issues \subseteq Issue
  /\ stale \in BOOLEAN
  /\ result \in {"none", "kept", "failed", "written"}
  /\ runs \in 0..MaxRuns

\* A fix brings no finding of MemPrealloc about: whatever it is applied to - the
\* file may have been saved since it was checked - what this checker reports of
\* the result, it reported of that file at the same place with the same hint.
OnlyRemovesIssues == [][FixAll => Check(body') \subseteq Check(body)]_vars

\* Once a fix has been written, the next run of -fix changes nothing more of
\* the function ("no longer re-flags issues that were already fixed by -fix"):
\* no declaration is given a second capacity by a second run.
NothingLeftToFix ==
  result = "written" /\ ~stale => Edits(body, Check(body)) = {}

-----------------------------------------------------------------------------
(* Which findings a fix takes away. *)

\* The declarations an append in loop l may mean: visible ones of the name.
Declares(p, d, i) ==
  /\ p[d].kind \in Decl /\ p[d].name = p[i].name /\ d < i
  /\ p[d].depth <= p[i].depth
  /\ \A k \in d..i : p[k].depth >= p[d].depth

\* The name is declared once in the function of the loop, before the loop, and
\* not as a map, which no append is for.
DeclaredOnce(p, i, l, d) ==
  /\ d \in SameFunction(p, l) /\ d < l /\ Declares(p, d, i) /\ p[d].kind # "map"
  /\ \A e \in SameFunction(p, l) :
       p[e].kind \in Decl /\ p[e].name = p[i].name => e = d

\* When a name is declared once in a function, an append to it stops being
\* reported exactly when that declaration is rewritten: the checker, which
\* knows names and positions but no scopes, is right about it, also where the
\* declaration is given the capacity for the sake of another loop.
GoneIffGivenCapacity ==
  [][FixAll /\ ~stale =>
       \A i \in DOMAIN body : \A l \in GrowingIn(body, i), d \in DOMAIN body :
         DeclaredOnce(body, i, l, d) =>
           (GrowingIn(body', i) = {} <=> body'[d] # body[d])]_vars

-----------------------------------------------------------------------------
(* What the compiler says of the result. *)

\* Capacity h is an integer where statement d stands: the length of a name that
\* has one, or an integer variable, declared there, or a number.
IsInteger(p, h, d) ==
  \/ h.form = "len" /\ h.of \in Sized /\ VisibleAt(p, h.of, d, p[d].depth)
  \/ h.form # "len" /\ h.of \in Ints /\ VisibleAt(p, h.of, d, p[d].depth)
  \/ h.form # "len" /\ h.of \in Nat

Number(h) == IF h.form = "succ" THEN h.of + 1 ELSE h.of

\* A capacity that is a constant is not below the length.
LongEnough(h, length) == h.of \in Nat => length <= Number(h)

\* A make has at most one capacity, and one that the compiler takes.
CapacityCompiles(p, d) ==
  /\ \A a, b \in p[d].caps : a = b
  /\ \A a \in p[d].caps :
       /\ IsInteger(p, a.cap, d)
       /\ p[d].kind = "make" => LongEnough(a.cap, p[d].length)

Compiles(p) ==
  /\ \A d \in DOMAIN p : CapacityCompiles(p, d)
  /\ \A l \in DOMAIN p : p[l].kind \in {"for", "upTo"} /\ p[l].over \in Names =>
                          p[l].over \in Ints

\* No loop is labelled or in a case clause, what it is over is declared outside
\* the function, and a range is over a slice, a map or a string, not over an
\* integer, an array or a function; no loop has two appends to the same name;
\* and no make is longer than the constant hint of a loop.
Plain(p) ==
  /\ \A l \in DOMAIN p : p[l].kind \in Loop =>
       /\ p[l].listed
       /\ p[l].over \in {Odd, Call} \cup (IF p[l].kind = "range" THEN Params \cap Sized
                                          ELSE Params \cup Nat)
  /\ \A i, j \in DOMAIN p :
       /\ p[i].kind = "append" /\ p[j].kind = "append"
       /\ p[i].name = p[j].name /\ LoopOf(p, i) = LoopOf(p, j)
       => i = j
  /\ \A d, l \in DOMAIN p :
       p[l].kind \in Loop => LongEnough(LoopHint(p, l), p[d].length)

\* The fix of a plain function compiles if the function did. In others it may
\* not: two appends give one make two capacities; the length of a slice that is
\* the very one declared, or that is declared later, is no capacity, nor is the
\* length of an integer; and a make of length 10 takes no capacity 8.
PlainCodeCompiles ==
  [][FixAll /\ ~stale /\ Plain(body) /\ Compiles(body) => Compiles(body')]_vars

-----------------------------------------------------------------------------
(* What a fix does to structs. *)

FieldBag(ss) == LET types == FlattenSeq([k \in DOMAIN ss |-> Fields(ss[k])])
                IN  [t \in Types |-> Cardinality({f \in DOMAIN types : types[f] = t})]

UniqueNames(ss) == \A j, k \in DOMAIN ss : ss[j].name = ss[k].name => j = k

\* Structs with a field to a line keep their fields, are not reported any more
\* and do not grow - provided approxSize knows the sizes of their types and none
\* of them, as sync.Once beside an int64, leaves a gap in front of a smaller one.
PlainStructsImprove ==
  [][FixAll /\ UniqueNames(structs) /\ (\A k \in DOMAIN structs : OnePerLine(structs[k])) =>
       /\ FieldBag(structs') = FieldBag(structs)
       /\ result' = "written" => StructIssues(structs') = {}
       /\ \A k \in DOMAIN structs :
            SizesKnown(structs[k]) /\ Packs(structs[k]) =>
              Layout(Fields(structs'[k])) <= Layout(Fields(structs[k]))]_vars

-----------------------------------------------------------------------------
(* What the documentation says and the code does not do. *)

\* A declaration in one of the listed forms right before the loop that fills it
\* is rewritten by a run of -fix ("The rule is the same for all patterns: the
\* declaration must be the statement immediately before the enclosing loop").
EveryDeclarationRewritten ==
  phase = "fixed" /\ ~stale => Edits(body, Check(body)) = {}

\* The fields are sorted by approxSize, "which eliminates padding waste": no
\* struct whose sizes it knows grows.
NoStructGrows ==
  [][FixAll /\ UniqueNames(structs) /\ (\A k \in DOMAIN structs : OnePerLine(structs[k])) =>
       \A k \in DOMAIN structs :
         SizesKnown(structs[k]) =>
           Layout(Fields(structs'[k])) <= Layout(Fields(structs[k]))]_vars

=============================================================================

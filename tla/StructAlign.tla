----------------------------- MODULE StructAlign ---------------------------
(***************************************************************************)
(* The StructAlign checker (checker/struct_align.go) and the edit -fix     *)
(* makes of its issue (structReorderEdit in fix.go).                       *)
(*                                                                         *)
(* A struct is its name and its lines between the braces. A line is the    *)
(* sequence of the types of the fields declared on it, doc and trailing    *)
(* comments included; a bool; b int64 on one line is what an author may    *)
(* write and gofmt takes apart. A line without fields is a comment that    *)
(* belongs to no field, one followed by a blank line. With flat, the whole *)
(* declaration stands on one line.                                         *)
(***************************************************************************)
EXTENDS Naturals, Sequences, SequencesExt

CONSTANTS StructNames, Types

\* approxSize, on 64 bits; a name it does not know, a struct or an array is
\* taken for 8 bytes, and so is pair, the field a, b int64.
ApproxSize == [bool |-> 1, int16 |-> 2, int32 |-> 4, int64 |-> 8, named |-> 8,
               array |-> 8, pair |-> 8, string |-> 16, slice |-> 24,
               mutex |-> 8, rwmutex |-> 24, once |-> 12, waitgroup |-> 12]

\* What the compiler uses: size and alignment; named stands for a type such as
\* type Level uint8, array for [3]byte. Other types are as one of these:
\* time.Time as slice, atomic.Value and complex128 as string, time.Duration and
\* pointers as int64, complex64 as mutex.
RealSize == [bool |-> 1, int16 |-> 2, int32 |-> 4, int64 |-> 8, named |-> 1,
             array |-> 3, pair |-> 16, string |-> 16, slice |-> 24,
             mutex |-> 8, rwmutex |-> 24, once |-> 12, waitgroup |-> 16]
Alignment == [bool |-> 1, int16 |-> 2, int32 |-> 4, int64 |-> 8, named |-> 1,
              array |-> 1, pair |-> 8, string |-> 8, slice |-> 8,
              mutex |-> 4, rwmutex |-> 4, once |-> 4, waitgroup |-> 8]

ASSUME TypesAssumption == Types \subseteq DOMAIN ApproxSize

Struct == [name : StructNames, lines : Seq(Seq(Types)), flat : BOOLEAN]

Fields(s) == FlattenSeq(s.lines)
FieldCount(s) == Len(Fields(s))

\* The line field f is declared on.
LineOf(s, f) ==
  CHOOSE l \in DOMAIN s.lines :
    /\ Len(FlattenSeq(SubSeq(s.lines, 1, l - 1))) < f
    /\ f <= Len(FlattenSeq(SubSeq(s.lines, 1, l)))

-----------------------------------------------------------------------------
(* Check *)

\* A small field right before a much larger one.
Misaligned(s) ==
  LET types == Fields(s)
      size  == [f \in 1..FieldCount(s) |-> ApproxSize[types[f]]]
  IN  /\ FieldCount(s) >= 3
      /\ \E f \in 1..(FieldCount(s) - 1) :
           size[f] < size[f + 1] /\ size[f] <= 4 /\ size[f + 1] >= 8

\* Mutant of Order: smallest first.
OrderAscending(s) ==
  LET types == Fields(s)
      size  == [f \in 1..FieldCount(s) |-> ApproxSize[types[f]]]
      rank(f) == Cardinality({g \in DOMAIN size :
                   size[g] < size[f] \/ (size[g] = size[f] /\ g <= f)})
  IN  [r \in DOMAIN size |-> CHOOSE f \in DOMAIN size : rank(f) = r]

\* The fields from the largest to the smallest, equal ones as they were.
Order(s) ==
  LET types == Fields(s)
      size  == [f \in 1..FieldCount(s) |-> ApproxSize[types[f]]]
      rank(f) == Cardinality({g \in DOMAIN size :
                   size[g] > size[f] \/ (size[g] = size[f] /\ g <= f)})
  IN  [r \in DOMAIN size |-> CHOOSE f \in DOMAIN size : rank(f) = r]

StructIssues(structs) ==
  {[name |-> s.name, order |-> Order(s)] :
     s \in {s \in ToSet(structs) : Misaligned(s)}}

-----------------------------------------------------------------------------
(* structReorderEdit *)

\* The first struct of the issue's name, if the order fits its fields.
ReorderTarget(structs, iss) ==
  {k \in DOMAIN structs :
     /\ structs[k].name = iss.name
     /\ \A j \in 1..(k - 1) : structs[j].name # iss.name
     /\ FieldCount(structs[k]) >= 2
     /\ Len(iss.order) = FieldCount(structs[k])}

\* From the line of the first field to the line of the last, the lines of the
\* fields in the new order, a whole line for each field.
Reordered(s, order) ==
  LET n     == Len(order)
      first == LineOf(s, 1)
      last  == LineOf(s, n)
  IN  [s EXCEPT !.lines = SubSeq(@, 1, first - 1)
                          \o [r \in 1..n |-> @[LineOf(s, order[r])]]
                          \o SubSeq(@, last + 1, Len(@))]

\* Every field on a line of its own.
OnePerLine(s) == ~s.flat /\ \A l \in DOMAIN s.lines : Len(s.lines[l]) <= 1

Apart(line) == IF Len(line) <= 1 THEN <<line>> ELSE [f \in DOMAIN line |-> <<line[f]>>]

\* format.Source: two fields are two lines.
Formatted(s) ==
  IF OnePerLine(s) \/ FieldCount(s) <= 1 THEN s
  ELSE [s EXCEPT !.lines = FlattenSeq([l \in DOMAIN @ |-> Apart(@[l])]), !.flat = FALSE]

\* A flat declaration is a line of each of its fields: it is written once for
\* each of them.
Replacement(s, order) ==
  IF s.flat THEN [r \in DOMAIN order |-> Formatted(s)]
  ELSE <<Formatted(Reordered(s, order))>>

\* The structs after the edits; of two for one struct, which have the same
\* range, one is kept.
StructResults(structs, issues) ==
  LET hit == {k \in DOMAIN structs :
                \E iss \in issues : k \in ReorderTarget(structs, iss)}
      orders(k) == {iss.order : iss \in {i \in issues :
                                           k \in ReorderTarget(structs, i)}}
      chosen == {f \in [hit -> {iss.order : iss \in issues}] :
                   \A k \in hit : f[k] \in orders(k)}
  IN  {FlattenSeq([k \in DOMAIN structs |->
                     IF k \in hit THEN Replacement(structs[k], f[k])
                     ELSE <<Formatted(structs[k])>>]) : f \in chosen}

-----------------------------------------------------------------------------
(* What a struct costs. *)

RoundUp(n, a) == ((n + a - 1) \div a) * a

\* The size the compiler gives a struct of these fields.
Layout(types) ==
  LET end[k \in 0..Len(types)] ==
        IF k = 0 THEN 0
        ELSE RoundUp(end[k - 1], Alignment[types[k]]) + RealSize[types[k]]
      widest == Max({1} \cup {Alignment[types[k]] : k \in DOMAIN types})
  IN  RoundUp(end[Len(types)], widest)

\* approxSize is right about it.
SizesKnown(s) == \A f \in DOMAIN Fields(s) :
                   ApproxSize[Fields(s)[f]] = RealSize[Fields(s)[f]]

\* A field leaves no gap in front of one that is not larger.
Packs(s) ==
  \A t, u \in ToSet(Fields(s)) :
    ApproxSize[u] <= ApproxSize[t] => RealSize[t] % Alignment[u] = 0

=============================================================================

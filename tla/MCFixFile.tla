------------------------------ MODULE MCFixFile ----------------------------
(***************************************************************************)
(* Instances of FixFile: one slice x and one map m in a function with the  *)
(* parameters p, a slice, and limit, an int; structs of one name.          *)
(***************************************************************************)
EXTENDS FixFile

CONSTANTS x, m, p, limit

Of(kind, name) ==
  [kind |-> kind, depth |-> 0, name |-> name, length |-> 0, caps |-> {},
   over |-> Odd, listed |-> TRUE]

Over(kind, bound) == [Of(kind, Other) EXCEPT !.over = bound]

SomeStatements ==
  {Of("zero", x), [Of("make", x) EXCEPT !.length = 10],
   [Of("make", x) EXCEPT !.caps = {[line |-> 0, cap |-> Default]}],
   Of("other", x), Of("map", m), Of("append", x), Of("write", m), Of("func", Other),
   Over("range", p), [Over("range", Odd) EXCEPT !.listed = FALSE],
   Over("for", limit), Over("upTo", 9), Over("for", Call)}

SomeInserted == {Of("zero", x), Over("range", p)}

SomeStructs ==
  {[name |-> "T", lines |-> <<>>, flat |-> FALSE],
   [name |-> "T", lines |-> <<<<"bool">>, <<"int64">>, <<"bool">>>>, flat |-> FALSE],
   [name |-> "T", lines |-> <<<<"bool">>>>, flat |-> TRUE]}

=============================================================================

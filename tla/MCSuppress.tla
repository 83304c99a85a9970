----------------------------- MODULE MCSuppress ----------------------------
(***************************************************************************)
(* Instances of Suppress: comments for all checkers, for one with a date,  *)
(* for a misspelt one, and for two with several dates, of which one is no  *)
(* date and the last counts.                                               *)
(***************************************************************************)
EXTENDS Suppress

CONSTANTS MemPrealloc, StructAlign, Misspelt, BadDate

SomeComments ==
  {<<>>, <<MemPrealloc, 1>>, <<Misspelt>>, <<MemPrealloc, StructAlign, 1, BadDate, 2>>}

=============================================================================

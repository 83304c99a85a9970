--------------------------- MODULE MCCacheSession --------------------------
(***************************************************************************)
(* Instances of CacheSession: contents that differ in what the cache key   *)
(* does not see, and which of them each file may have.                     *)
(***************************************************************************)
EXTENDS CacheSession

CONSTANTS p, q

Text(id, parses, generated, seenBy, until) ==
  [id |-> id, parses |-> parses, generated |-> generated, seenBy |-> seenBy,
   until |-> until]

Slow(id) == Text(id, TRUE, FALSE, {"all"}, Never)
Ignored(id) == Text(id, TRUE, FALSE, {"all"}, Forever)
Snoozed(id) == Text(id, TRUE, FALSE, {"all"}, 0)
Generated(id) == Text(id, TRUE, TRUE, {"all"}, Never)
Broken(id) == Text(id, FALSE, FALSE, {"all"}, Never)

\* Texts of one file only, texts that two files may have (a copy), a generated
\* text and one whose suppression expires.
MixedTexts ==
  [f \in Paths |->
     IF f = p THEN {Slow("p"), Ignored("p"), Broken("p"), Snoozed("a")}
              ELSE {Snoozed("a"), Generated("b")}]

OnlySnoozed == [f \in Paths |-> {Slow("a"), Snoozed("a")}]
OnlySlow == [f \in Paths |-> {Slow(f)}]

=============================================================================

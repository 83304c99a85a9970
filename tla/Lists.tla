-------------------------------- MODULE Lists -------------------------------
(***************************************************************************)
(* A loop that copies some elements of a slice, as filterBySeverity,       *)
(* DedupeIssues and normalizeSpacedBoolFlags do, without recursion: the    *)
(* element that comes n-th is at the position with n positions up to it.   *)
(***************************************************************************)
EXTENDS Naturals, Sequences, FiniteSets

\* Of the positions S the one that comes n-th.
Nth(S, n) == CHOOSE i \in S : Cardinality({j \in S : j <= i}) = n

\* The elements of s at the positions S, in order.
At(s, S) == [n \in 1..Cardinality(S) |-> s[Nth(S, n)]]

=============================================================================

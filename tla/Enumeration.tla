------------------------------ MODULE Enumeration ------------------------------
(***************************************************************************)
(* Sorting and filtering as the pages and routes of the dashboard use      *)
(* them: rows have numbers for stamps, ORDER BY makes the sequence of a    *)
(* set of them, and filter keeps the elements at some places of an array.  *)
(* The operators of the community modules for this take an operator as a   *)
(* parameter, which the provers cannot expand.  Of SequencesExt the pages  *)
(* need the four operators at the end: every page that is instantiated     *)
(* brings a copy of all it extends into each step of a proof.              *)
(***************************************************************************)
EXTENDS Integers, FiniteSets, Sequences, Functions

\* The n-th smallest number of S.
Nth(S, n) == CHOOSE x \in S : Cardinality({y \in S : y <= x}) = n

\* ORDER BY: the numbers of S, smallest first.
Ascending(S) == [n \in 1 .. Cardinality(S) |-> Nth(S, n)]

\* filter: what s has at the places I, in its order.
At(s, I) == [n \in 1 .. Cardinality(I) |-> s[Nth(I, n)]]

Last(s) == s[Len(s)]
Reverse(s) == [i \in 1 .. Len(s) |-> s[(Len(s) - i) + 1]]
RemoveAt(s, i) == SubSeq(s, 1, i - 1) \o SubSeq(s, i + 1, Len(s))
BoundedSeq(S, n) == UNION {[1 .. m -> S] : m \in 0 .. n}
=============================================================================

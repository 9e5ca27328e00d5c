----------------------------- MODULE Subsequences -----------------------------
(***************************************************************************)
(* The elements of a list that pass a test, in their order: what a list    *)
(* comprehension with a condition returns.  The standard SelectSeq is the  *)
(* same operator, but it is defined by recursion, and what a recursive     *)
(* operator returns cannot be proved; this one is defined by position.     *)
(***************************************************************************)
EXTENDS Naturals, Sequences, FiniteSets

\* The n-th of a set of positions.
Nth(I, n) == CHOOSE i \in I : Cardinality({k \in I : k <= i}) = n

\* The elements of s at the positions I, in their order.
At(s, I) == [n \in 1 .. Cardinality(I) |-> s[Nth(I, n)]]

Where(s, Test(_)) == At(s, {i \in DOMAIN s : Test(s[i])})
=============================================================================

--------------------------- MODULE MCStrataLattice ---------------------------
(* A small instance of StrataLattice and StrataEnumeration for TLC. *)
EXTENDS StrataEnumeration, TLC

Symmetry == Permutations(Candidates)
=============================================================================

------------------------------ MODULE Temporal ------------------------------
(***************************************************************************)
(* The half-open intervals of contracts/temporal.py.  An instant is a      *)
(* natural number; FOREVER is the open-interval sentinel (2^62 in the      *)
(* code).  Every module about the HEARTH store extends this one.           *)
(***************************************************************************)
EXTENDS Naturals

CONSTANT FOREVER

ASSUME ForeverAssumption == FOREVER \in Nat \ {0}

Instants == 0 .. (FOREVER - 1)

\* Interval.__post_init__: an empty or inverted interval cannot be built.
Intervals == {i \in [start : Nat, end : Nat] : i.start < i.end /\ i.end <= FOREVER}

\* Interval(a), the interval still open at its right end.
Since(a) == [start |-> a, end |-> FOREVER]

IsOpen(i) == i.end >= FOREVER

Contains(i, t) == i.start <= t /\ t < i.end

Overlaps(i, j) == i.start < j.end /\ j.start < i.end

=============================================================================

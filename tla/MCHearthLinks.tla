---------------------------- MODULE MCHearthLinks ----------------------------
(* Small instances of HearthLinks for TLC. *)
EXTENDS HearthLinks, TLC

CONSTANTS a, b, c

\* Two hops: a traversal has a node to pass through.
Chain == {<<a, b>>, <<b, c>>}

\* Beside an open window: one that it holds on both sides for the first link, and
\* the one from the last instant on for the second.
OpenWindows ==
  [p \in Chain |-> {Since(0), IF p = <<a, b>> THEN [start |-> 1, end |-> 2] ELSE Since(FOREVER - 1)}]

Symmetry == Permutations(Shards)
=============================================================================

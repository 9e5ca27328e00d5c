---------------------------- MODULE MCHearthShard ----------------------------
(* Small instances of HearthShard for TLC. *)
EXTENDS HearthShard

\* World time has five instants; the windows nest, overlap on either side,
\* touch, and stay open to the right.
MCWindows ==
  {[start |-> 0, end |-> FOREVER], [start |-> 1, end |-> 2],
   [start |-> 1, end |-> FOREVER], [start |-> 2, end |-> 3],
   [start |-> 0, end |-> 2]}

\* An open window and one that it holds residuals of on both sides.
NestedWindows == {[start |-> 0, end |-> FOREVER], [start |-> 1, end |-> 2]}
=============================================================================

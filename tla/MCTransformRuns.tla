--------------------------- MODULE MCTransformRuns ---------------------------
(* A chain a -> c -> d -> e with b joined in at d, a second version of the    *)
(* first transform, and a definition of the last one that closes a cycle, or   *)
(* clashes with the first.                                                    *)
EXTENDS TransformRuns

Def(name, body, inputs, output, reads) ==
  [name |-> name, body |-> body, inputs |-> inputs, output |-> output, reads |-> reads]

A1 == Def("A", "A1", {"a"}, "c", {"a"})
A2 == Def("A", "A2", {"a"}, "c", {})
J1 == Def("J", "J1", {"b", "c"}, "d", {"b", "c"})
E1 == Def("E", "E1", {"d"}, "e", {"d"})
E2 == Def("E", "E2", {"d"}, "c", {"d"})
MCTransforms == {A1, A2, J1, E1, E2}
MCSources == {"a", "b"}

=============================================================================

--------------------------- MODULE MCHumanActions ---------------------------
(* A small instance of HumanActions for TLC. *)
EXTENDS HumanActions

MCFacts == {<<"p1", "status">>}
MCPairs == {<<"p1", "p2">>}
MCObjects == {MCFacts}
MCLoaded == [about \in {} |-> "none"]
MCWindows == {[start |-> 1, end |-> 2]}
=============================================================================

-------------------------- MODULE MCStrataAdmission --------------------------
(* Three candidates over two properties and one other attribute: disjoint,  *)
(* nested and crossing starts, and deltas that close an intersection, widen *)
(* the context, or hold an id that is known.                                *)
EXTENDS StrataAdmission, TLC

MCStarts ==
  {"g1" :> {1, 2}, "g1" :> {3} @@ "g2" :> {2, 3}, "g1" :> {1} @@ "g2" :> {1, 2}, "g1" :> {1, 2} @@ "g2" :> {1, 3}}

New(id, attrs, hub) == [id |-> id, attrs |-> attrs, hub |-> hub]
MCDeltas ==
  {{New("g3", {1, 2}, FALSE)}, {New("g3", {2, 3}, FALSE), New("g1", {1}, FALSE)},
   {New("g2", {2}, TRUE), New("g3", {1, 2, 3}, FALSE)}}

=============================================================================

------------------------------- MODULE MCAsks -------------------------------
(***************************************************************************)
(* A plane and two airports: the airports have a name and a size, and the  *)
(* plane is based at either, by links of the pipeline or of people.        *)
(***************************************************************************)
EXTENDS Asks, TLC

MCFacts == {<<"plane", "status">>, <<"north", "size">>, <<"south", "size">>}
MCPairs == {<<"plane", "north">>, <<"plane", "south">>}
MCObjects == {{<<"south", "size">>}}
MCWindows == {}

MCLoaded ==
  <<"plane", "status">> :> "x" @@ <<"north", "size">> :> "y"
  @@ <<"plane", "north">> :> "linked"

Planes == {"plane"}
Airports == {"north", "south"}

\* The sizes of the airports that active planes are based at: "Active" matches
\* "active" from the second level of repair on.
SizesOfBases ==
  [class |-> Planes, where |-> "status", accept |-> (0 :> {"x"} @@ 1 :> {"x", "y"} @@ 2 :> {"x", "y"}),
   to |-> Airports, count |-> FALSE, show |-> "size", sig |-> "bases"]

BasesCounted == [SizesOfBases EXCEPT !.count = TRUE, !.show = "none", !.where = NoProp, !.sig = "count"]

AirportsCounted ==
  [class |-> Airports, where |-> "size", accept |-> (0 :> {"x"} @@ 1 :> {"x"} @@ 2 :> {"x"}),
   to |-> {}, count |-> TRUE, show |-> "none", sig |-> "airports"]

Reading(key, candidates, gamma, coverage) ==
  [key |-> key, candidates |-> candidates, gamma |-> gamma, coverage |-> coverage,
   anchored |-> TRUE, weak |-> FALSE]

MCQuestions == {"bases", "how many", "which small airports near"}

MCAsked ==
  "bases" :> Reading("bases", <<SizesOfBases>>, 1, "full")
  @@ "how many" :> Reading("many", <<BasesCounted, AirportsCounted>>, 2, "full")
  @@ "which small airports near" :> Reading("near", <<AirportsCounted>>, 1, "soft")
=============================================================================

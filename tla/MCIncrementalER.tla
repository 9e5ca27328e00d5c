--------------------------- MODULE MCIncrementalER ---------------------------
(* Five mentions: of five aircraft entries, or of four operator names, the     *)
(* first and the last of which share a tail.                                  *)
EXTENDS IncrementalER

MCMentions == 1..5
MCKinds == {"operator", "aircraft"}
MCNameOf == <<4, 1, 2, 1, 3>>
MCTailOf == <<"t", "t", "u", "u", "v">>
MCSimilar == {<<2, 4>>}
MCBatches == {{1, 2, 3}, {2, 3, 5}}
MCDeltas == {{1}, {4}, {5}, {4, 5}, {1, 4}}
MCPivotOrders == {<<1, 2, 3, 4, 5>>, <<4, 2, 5, 3, 1>>, <<3, 5, 1, 4, 2>>}

=============================================================================

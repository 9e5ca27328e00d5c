------------------------------ MODULE BeliefMap ------------------------------
(***************************************************************************)
(* What a HEARTH value shard promises, without rows, intervals or files:   *)
(* for each key and each point of world time at most one believed fact.    *)
(* A write over a window is taken whole or not at all: it replaces the     *)
(* belief on its window unless some fact there has precedence over it, and *)
(* a write of equal precedence is the newer one and is taken.              *)
(***************************************************************************)
EXTENDS Naturals

CONSTANTS Keys, Values, MaxRank, MaxConf,
          Points,   \* points of world time
          Windows   \* the intervals a write may cover

VARIABLES
  believed,  \* key -> point -> {} or {fact}
  durable    \* the beliefs a restart comes back with

Fact == [val : Values, rank : 0 .. MaxRank, conf : 0 .. MaxConf]

Covered(w) == {p \in Points : w.start <= p /\ p < w.end}

Beats(f, g) == f.rank < g.rank \/ (f.rank = g.rank /\ f.conf > g.conf)

NoBelief == [k \in Keys |-> [p \in Points |-> {}]]

Init == believed = NoBelief /\ durable = NoBelief

\* A write that nothing on its window beats.
Assert(k, w, f) ==
  /\ \A p \in Covered(w) : \A g \in believed[k][p] : ~Beats(g, f)
  /\ believed' = [believed EXCEPT ![k] =
                    [p \in Points |-> IF p \in Covered(w) THEN {f} ELSE believed[k][p]]]
  /\ UNCHANGED durable

Persist == durable' = believed /\ UNCHANGED believed

Restart == believed' = durable /\ UNCHANGED durable

Next ==
  \/ \E k \in Keys, w \in Windows, f \in Fact : Assert(k, w, f)
  \/ Persist
  \/ Restart

Spec == Init /\ [][Next]_<<believed, durable>>
=============================================================================

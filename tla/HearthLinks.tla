----------------------------- MODULE HearthLinks -----------------------------
(***************************************************************************)
(* The link store of HEARTH (hearth/links.py): one LinkShard per class for *)
(* one predicate, the adjacency index derived from all of them, and the    *)
(* clock they share with the value shards.                                 *)
(*                                                                         *)
(* Links have no rank: the newer commit wins.  Of the value shards only    *)
(* what links see of them is kept: a value commit moves the clock, and the *)
(* newest stamp in the value file is the clock floor of a reopened store.  *)
(***************************************************************************)
EXTENDS Temporal, Subsequences, Functions

CONSTANTS
  Shards,    \* the (class, predicate) shards, all of one predicate
  Nodes,     \* entity URIs
  Edges,     \* the (subject, object) pairs that may be linked
  Windows,   \* the valid intervals a caller may write for each of them
  MaxTime,   \* bound: the last instant at which a write is stamped
  MaxRows,   \* bound: no write is admitted to a shard with this many rows
  MaxBatch   \* bound: links in one commit

ASSUME ShardsAssumption == IsFiniteSet(Shards)
ASSUME EdgesAssumption == Edges \subseteq Nodes \X Nodes
ASSUME WindowsAssumption == Windows \in [Edges -> SUBSET Intervals]
ASSUME TimeAssumption == MaxTime \in Nat /\ MaxTime + 1 < FOREVER

VARIABLES
  cells,      \* LinkShard.cells: the rows of each shard, in append order
  openBy,     \* open_by_pair: positions of the system-open rows of each pair
  adj,        \* _fwd (and, turned round, _rev): how many current rows link a pair
  clock,      \* Hearth._clock
  valueStamp, \* the newest system stamp of a value row in memory
  valueFloor, \* the newest system stamp of a value row in its file
  pending,    \* the links of the commit in progress still to be applied
  saving,     \* the shards whose save() is due
  disk        \* the rows of each links.parquet

vars == <<cells, openBy, adj, clock, valueStamp, valueFloor, pending, saving, disk>>

Links == UNION {[shard : Shards, pair : {p}, valid : Windows[p]] : p \in Edges}

-----------------------------------------------------------------------------
(* The derived indexes.                                                    *)

Positions(rs) == [i \in DOMAIN rs |-> i]

\* LinkShard.rebuild_indexes.
RebuiltOpen(rs) ==
  [p \in Edges |->
     Where(Positions(rs), LAMBDA i : rs[i].pair = p /\ IsOpen(rs[i].system))]

CurrentRow(r) == IsOpen(r.valid) /\ IsOpen(r.system)

\* LinkStore.rebuild_adjacency: the count is over all shards.
RebuiltAdj(all) ==
  [p \in Edges |->
     Cardinality({at \in UNION {{s} \X DOMAIN all[s] : s \in Shards} :
                    LET r == all[at[1]][at[2]] IN r.pair = p /\ CurrentRow(r)})]

Maximum(S) == CHOOSE m \in S : \A x \in S : x <= m

Stamps(rs) == {rs[i].system.start : i \in DOMAIN rs}
         \cup {rs[i].system.end : i \in {j \in DOMAIN rs : ~IsOpen(rs[j].system)}}

\* import_canonical: the floor ranges over value rows and link rows.
PortedFloor(all) == Maximum({valueStamp} \cup UNION {Stamps(all[s]) : s \in Shards})

-----------------------------------------------------------------------------
(* One application step (LinkShard.apply).                                 *)

\* (a bug: a row that starts before the window is not closed)
HitsStart(s, l) ==
  Where(openBy[s][l.pair], LAMBDA i : Contains(l.valid, cells[s][i].valid.start))
\* The open rows of the pair that the window overlaps, oldest first.
Hits(s, l) == Where(openBy[s][l.pair], LAMBDA i : Overlaps(cells[s][i].valid, l.valid))

\* (a bug: the row is cut in world time, in place)
ExpiredInWorldTime(r) == [r EXCEPT !.valid.end = clock']
Expired(r) ==
  [r EXCEPT !.system.end = IF clock' > r.system.start + 1 THEN clock' ELSE r.system.start + 1]

\* A row re-asserted over part of its valid interval.
Piece(r, from, to) == [r EXCEPT !.valid = [start |-> from, end |-> to], !.system = Since(clock')]

\* Left and right of the window w, for each superseded row in turn.
Pieces(rs, hits, w) ==
  [k \in 1 .. 2 * Len(hits) |->
     LET r == rs[hits[(k + 1) \div 2]]
     IN  IF k % 2 = 1 THEN Piece(r, r.valid.start, w.start) ELSE Piece(r, w.end, r.valid.end)]

\* What the superseded rows still assert: the pieces that are not empty.
Residuals(rs, hits, w) ==
  Where(Pieces(rs, hits, w), LAMBDA r : r.valid.start < r.valid.end)

\* (a bug: open residual rows are not counted)
GainedOfNewRow(new) == IF IsOpen(new[1].valid) THEN 1 ELSE 0
Gained(new) == Cardinality({n \in DOMAIN new : IsOpen(new[n].valid)})
Lost(rs, hits) == Cardinality({n \in DOMAIN hits : IsOpen(rs[hits[n]].valid)})

\* _bump: a count that would fall to zero or below is removed.
Bumped(n, lost) == IF n > lost THEN n - lost ELSE 0

\* Close the rows at hits, append new, and maintain the open list.
Rewrite(s, p, hits, new) ==
  LET rs == cells[s] IN
  /\ cells' = [cells EXCEPT ![s] =
                 [i \in DOMAIN rs |-> IF i \in Range(hits) THEN Expired(rs[i]) ELSE rs[i]]
                   \o new]
  /\ openBy' = [openBy EXCEPT ![s][p] =
                  Where(@, LAMBDA i : i \notin Range(hits))
                    \o [n \in DOMAIN new |-> Len(rs) + n]]

\* _adj_delta: first what is removed, then what is added.
Recount(p, lost, gained) == adj' = [adj EXCEPT ![p] = Bumped(@, lost) + gained]

-----------------------------------------------------------------------------
Init ==
  /\ cells = [s \in Shards |-> <<>>]
  /\ openBy = [s \in Shards |-> [p \in Edges |-> <<>>]]
  /\ adj = [p \in Edges |-> 0]
  /\ clock = 0 /\ valueStamp = 0 /\ valueFloor = 0
  /\ pending = <<>> /\ saving = {}
  /\ disk = cells

Idle == pending = <<>> /\ saving = {}

\* Hearth._stamp_now: a stamp below the clock is rejected.
Stamp(t) == t >= clock /\ clock' = t

\* A value commit, saved or not, as far as links see it.  A row that is closed
\* at the instant it was written ends one instant later (end = t + 1).
CommitValues(t, end, saved) ==
  /\ Idle
  /\ Stamp(t)
  /\ valueStamp' = Maximum({valueStamp, end})
  /\ valueFloor' = IF saved THEN valueStamp' ELSE valueFloor
  /\ UNCHANGED <<cells, openBy, adj, pending, saving, disk>>

\* commit(): also the Link action, which commits one link valid from now on.
CommitLinks(s, links, t) ==
  /\ \A i \in DOMAIN links : links[i].shard = s
  /\ Idle /\ Len(cells[s]) < MaxRows
  /\ Stamp(t)
  /\ pending' = links
  /\ UNCHANGED <<cells, openBy, adj, valueStamp, valueFloor, saving, disk>>

ApplyLink ==
  /\ pending # <<>>
  /\ UNCHANGED clock
  /\ LET l == Head(pending)
         s == l.shard
         hits == Hits(s, l)
         new == <<[pair |-> l.pair, valid |-> l.valid, system |-> Since(clock)]>>
                  \o Residuals(cells[s], hits, l.valid)
     IN  /\ Rewrite(s, l.pair, hits, new)
         /\ Recount(l.pair, Lost(cells[s], hits), Gained(new))
         /\ pending' = Tail(pending)
         /\ saving' = IF Tail(pending) = <<>> THEN {s} ELSE {}
  /\ UNCHANGED <<valueStamp, valueFloor, disk>>

\* The retracted link, re-asserted with a valid interval that ends now.
Unlinked(r) ==
  <<[r EXCEPT !.valid.end = IF clock' > r.valid.start + 1 THEN clock' ELSE r.valid.start + 1,
              !.system = Since(clock')]>>

\* unlink(): the last open row of the pair whose valid interval is open.  It is
\* taken out of the count, and what is re-asserted never put in.
Unlink(s, p, t) ==
  /\ Idle /\ Len(cells[s]) < MaxRows
  /\ LET targets == Where(openBy[s][p], LAMBDA i : IsOpen(cells[s][i].valid))
         target == targets[Len(targets)]
     IN  /\ targets # <<>>
         /\ Stamp(t)
         /\ Rewrite(s, p, <<target>>, Unlinked(cells[s][target]))
         /\ Recount(p, 1, 0)
  /\ saving' = {s}
  /\ UNCHANGED <<valueStamp, valueFloor, pending, disk>>

Save(s) ==
  /\ s \in saving
  /\ disk' = [disk EXCEPT ![s] = cells[s]]
  /\ saving' = {}
  /\ UNCHANGED <<cells, openBy, adj, clock, valueStamp, valueFloor, pending>>

\* write_parquet_atomic raises: the old file stays, memory is ahead of it.
SaveFails(s) ==
  /\ s \in saving
  /\ saving' = {}
  /\ UNCHANGED <<cells, openBy, adj, clock, valueStamp, valueFloor, pending, disk>>

\* Hearth.rebuild_indexes on the open store.
RebuildIndexes ==
  /\ Idle
  /\ openBy' = [s \in Shards |-> RebuiltOpen(cells[s])]
  /\ adj' = RebuiltAdj(cells)
  /\ UNCHANGED <<cells, clock, valueStamp, valueFloor, pending, saving, disk>>

\* What a store built from the rows `all` starts from.
Load(all) ==
  /\ cells' = all
  /\ openBy' = [s \in Shards |-> RebuiltOpen(all[s])]
  /\ adj' = RebuiltAdj(all)
  /\ pending' = <<>> /\ saving' = {}

\* The process ends, at any point, and the directory is opened again: discover
\* loads the link shards, but only value rows raise the clock.
Reopen ==
  /\ Load(disk)
  /\ clock' = valueFloor /\ valueStamp' = valueFloor
  /\ UNCHANGED <<valueFloor, disk>>

\* export_canonical from memory, import_canonical into a new directory.
Migrate ==
  /\ Idle
  /\ Load(cells)
  /\ disk' = cells
  /\ valueFloor' = valueStamp
  /\ clock' = PortedFloor(cells)
  /\ UNCHANGED valueStamp

Batches == UNION {[1 .. n -> Links] : n \in 1 .. MaxBatch}

Running ==
  \/ \E t \in 0 .. MaxTime, saved \in BOOLEAN : \E end \in {t, t + 1} : CommitValues(t, end, saved)
  \/ \E s \in Shards, links \in Batches, t \in 0 .. MaxTime : CommitLinks(s, links, t)
  \/ ApplyLink
  \/ \E s \in Shards, p \in Edges, t \in 0 .. MaxTime : Unlink(s, p, t)
  \/ \E s \in Shards : Save(s) \/ SaveFails(s)
  \/ RebuildIndexes

Next == Running \/ Reopen \/ Migrate

Spec == Init /\ [][Next]_vars

-----------------------------------------------------------------------------
(* Reads.                                                                  *)

\* The pairs linked under as_of(v), and under audit(v, at).
LinkedAsOf(v) ==
  {p \in Edges : \E s \in Shards : \E i \in DOMAIN cells[s] :
     LET r == cells[s][i] IN r.pair = p /\ IsOpen(r.system) /\ Contains(r.valid, v)}

LinkedKnown(all, s, v, at) ==
  {p \in Edges : \E i \in DOMAIN all[s] :
     LET r == all[s][i] IN r.pair = p /\ Contains(r.system, at) /\ Contains(r.valid, v)}

LinkedCurrent == {p \in Edges : \E s \in Shards : \E i \in DOMAIN cells[s] :
                    cells[s][i].pair = p /\ CurrentRow(cells[s][i])}

\* neighbors(): the current stance reads the index.
Indexed == {p \in Edges : adj[p] > 0}

StepFrom(graph, u) == {n \in Nodes : <<u, n>> \in graph}

\* (a bug: the frontier keeps its start)
WidenOnce(graph, b, u) ==
  [seen |-> b.seen \cup StepFrom(graph, u), frontier |-> {u}]
\* One round of the breadth-first search.
Widen(graph, b, u) ==
  LET next == (UNION {StepFrom(graph, n) : n \in b.frontier}) \ b.seen
  IN  [seen |-> b.seen \cup next, frontier |-> next]

Traverse(graph, u, depth) ==
  LET bfs[d \in 0 .. depth] ==
        IF d = 0 THEN [seen |-> {u}, frontier |-> {u}] ELSE Widen(graph, bfs[d - 1], u)
  IN  bfs[depth].seen \ {u}

-----------------------------------------------------------------------------
(* Properties.                                                             *)

Rows == [pair : Edges, valid : Intervals, system : Intervals]

\* Type invariant: rows are well formed, in memory and in the files.
TypeOK ==
  /\ cells \in [Shards -> Seq(Rows)] /\ disk \in [Shards -> Seq(Rows)]
  /\ openBy \in [Shards -> [Edges -> Seq(Nat)]]
  /\ adj \in [Edges -> Nat]
  /\ clock \in 0 .. MaxTime + 1 /\ {valueStamp, valueFloor} \subseteq 0 .. MaxTime + 1
  /\ pending \in Seq(Links)
  /\ saving \in SUBSET Shards

\* A link from the last instant on: it cannot be made to end any earlier than it
\* does, so an unlink re-asserts it as it was and yet takes it out of the count.
HeldAtTheEnd(p) ==
  \E s \in Shards : \E i \in DOMAIN cells[s] :
    cells[s][i].pair = p /\ cells[s][i].valid.start = FOREVER - 1

\* The adjacency counts and open lists kept up by deltas are the ones a full
\* rebuild gives, whatever mix of links, unlinks, failed saves and reopenings
\* came before, over all shards that assert the same triple.  Only of a pair held
\* at the end of time may fewer links be counted than there are, never more.
AdjacencyIsDerived ==
  /\ TypeOK
  /\ \A p \in Edges :
       /\ adj[p] <= RebuiltAdj(cells)[p]
       /\ adj[p] = RebuiltAdj(cells)[p] \/ HeldAtTheEnd(p)
  /\ \A s \in Shards : openBy[s] = RebuiltOpen(cells[s])

\* Two system-open rows of a pair in a shard never overlap in world time, so
\* an unlink has at most one row to close.
DisjointOpen(rs) ==
  \A i, j \in DOMAIN rs :
    i # j /\ rs[i].pair = rs[j].pair /\ IsOpen(rs[i].system) /\ IsOpen(rs[j].system)
      => ~Overlaps(rs[i].valid, rs[j].valid)

OpenLinksDisjoint == \A s \in Shards : DisjointOpen(cells[s])

\* No step of a running store changes what an audit of the strict past answers.
LinkPastFrozen ==
  [][Reopen \/ \A s \in Shards, v \in Instants, at \in 0 .. MaxTime :
       at < clock => LinkedKnown(cells', s, v, at) = LinkedKnown(cells, s, v, at)]_vars

Walk(graph, u, n, depth) ==
  \E d \in 1 .. depth : \E via \in [1 .. d - 1 -> Nodes] :
    LET path == <<u>> \o via \o <<n>>
    IN  \A i \in 1 .. d : <<path[i], path[i + 1]>> \in graph

\* Both paths of traverse, the index and the scan of the rows, find exactly the
\* nodes at most `depth` hops away, the index where it holds what is linked.
TraverseReaches ==
  Idle =>
  LET linked == IF \E p \in Edges : HeldAtTheEnd(p) THEN Indexed ELSE LinkedCurrent
      graphs == {<<Indexed, linked>>} \cup {<<LinkedAsOf(v), LinkedAsOf(v)>> : v \in Instants}
  IN  \A g \in graphs, u \in Nodes, depth \in 1 .. Cardinality(Nodes) :
        Traverse(g[1], u, depth) = {n \in Nodes \ {u} : Walk(g[2], u, n, depth)}

-----------------------------------------------------------------------------
(* A claim of the repository that the code does not meet: TLC refutes it     *)
(* when it is added to the module's configuration (README, known limits).     *)

\* The index is disposable: a rebuild gives what it holds (rebuild_adjacency:
\* "the proof the index is derived and disposable").
IndexDisposable == adj = RebuiltAdj(cells)
=============================================================================

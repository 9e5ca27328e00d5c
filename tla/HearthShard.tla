----------------------------- MODULE HearthShard -----------------------------
(***************************************************************************)
(* One value shard of the HEARTH store (hearth/store.py): the append-only  *)
(* rows of ValueShard, the two indexes derived from them, the store's      *)
(* clock, and the Parquet file the rows are saved to.                      *)
(*                                                                         *)
(* A commit is several steps, as in the code: it is admitted and stamped   *)
(* (Commit, Act), its cells are applied one by one (ApplyWinning,          *)
(* ApplyDeadOnArrival), and the file is rewritten (Save), which may fail   *)
(* after memory has changed (SaveFails).  The process may stop between any *)
(* two of these steps and open the directory again (Reopen).               *)
(*                                                                         *)
(* A rejected commit changes nothing, so it is no action: the guards of    *)
(* Commit and Act are the conditions under which the code does not raise.  *)
(***************************************************************************)
EXTENDS Temporal, FiniteSets, Sequences

CONSTANTS
  Keys,      \* the (entity, property) pairs of the shard
  Values,    \* cell values, compared only for identity
  Windows,   \* the valid intervals a caller may write
  MaxRank,   \* pipeline sources have a rank in 1 .. MaxRank; 0 is a human Action
  MaxConf,   \* confidence, in steps of [0, 1]; MaxConf stands for 1.0
  MaxTime,   \* bound: the last instant at which a commit is stamped
  MaxRows,   \* bound: no commit is admitted once the shard has this many rows
  MaxBatch,  \* bound: cells in one pipeline commit
  NoSeq      \* "key not in self.current"

ASSUME WindowsAssumption == Windows \subseteq Intervals
ASSUME RankAssumption == MaxRank \in Nat /\ MaxConf \in Nat
ASSUME TimeAssumption == MaxTime \in Nat /\ MaxTime + 1 < FOREVER
ASSUME BoundAssumption == MaxRows \in Nat /\ MaxBatch \in Nat
ASSUME NoSeqAssumption == NoSeq \notin Nat

VARIABLES
  cells,     \* the rows: a set of cells, told apart by their seq
  rows,      \* len(self.cells)
  openSeqs,  \* open_by_key: the seqs of the system-open cells of each key
  current,   \* current: the seq of the cell open in both times, or NoSeq
  clock,     \* Hearth._clock, also the stamp `t` of the commit in progress
  pending,   \* the cells of the commit in progress still to be applied
  saving,    \* the commit in progress has reached shard.save()
  disk       \* the rows of cells.parquet

vars == <<cells, rows, openSeqs, current, clock, pending, saving, disk>>

Facts == [key : Keys, val : Values, valid : Windows,
          rank : 0 .. MaxRank, conf : 0 .. MaxConf]

-----------------------------------------------------------------------------
(* Survivorship: lower rank, then higher confidence, then newer.           *)

\* (a bug: rank is not compared)
SupersedesByConf(new, now, old) == new.conf >= old.conf
\* supersedes(): does a write stamped `now` close the system interval of old?
Supersedes(new, now, old) ==
  \/ new.rank < old.rank
  \/ new.rank = old.rank /\ new.conf > old.conf
  \/ new.rank = old.rank /\ new.conf = old.conf /\ now >= old.system.start

\* survivorship_key(): a comes before b when both are visible to a read.
Precedes(a, b) ==
  \/ a.rank < b.rank
  \/ a.rank = b.rank /\ a.conf > b.conf
  \/ a.rank = b.rank /\ a.conf = b.conf /\ a.system.start > b.system.start
  \/ a.rank = b.rank /\ a.conf = b.conf /\ a.system.start = b.system.start
       /\ a.seq > b.seq

-----------------------------------------------------------------------------
(* The derived indexes, rebuilt from rows (ValueShard.rebuild_indexes).    *)

LatestOf(S) == CHOOSE m \in S : \A s \in S : s <= m

SeqsOf(cs) == {c.seq : c \in cs}

RebuiltOpen(cs) ==
  [k \in Keys |-> SeqsOf({c \in cs : c.key = k /\ IsOpen(c.system)})]

\* _refresh_current: the last open seq of the key that is valid-open, if any.
CurrentIn(cs, seqs) ==
  LET both == SeqsOf({c \in cs : c.seq \in seqs /\ IsOpen(c.valid)})
  IN  IF both = {} THEN NoSeq ELSE LatestOf(both)

RebuiltCurrent(cs) == [k \in Keys |-> CurrentIn(cs, RebuiltOpen(cs)[k])]

\* _register_shard: the clock floor read back from the rows.
ClockFloor(cs) ==
  LatestOf({0} \cup {c.system.start : c \in cs}
               \cup {c.system.end : c \in {d \in cs : ~IsOpen(d.system)}})

-----------------------------------------------------------------------------
(* One application step (ValueShard.apply).                                *)

\* (a bug: only rows that start inside the new window are found)
OverlappingStart(c) ==
  {o \in cells : o.key = c.key /\ o.seq \in openSeqs[c.key] /\ Contains(c.valid, o.valid.start)}
Overlapping(c) ==
  {o \in cells : o.key = c.key /\ o.seq \in openSeqs[c.key] /\ Overlaps(o.valid, c.valid)}

Losers(c) == {o \in Overlapping(c) : ~Supersedes(c, clock, o)}

\* The row an incoming cell becomes.
Row(c, seq, system) ==
  [key |-> c.key, val |-> c.val, valid |-> c.valid, rank |-> c.rank,
   conf |-> c.conf, system |-> system, seq |-> seq]

\* (a bug: the row is closed as if it had been superseded at once)
ExpiredAtOnce(o) == [o EXCEPT !.system.end = o.system.start + 1]
\* Close the system interval of a superseded row; the row itself stays.
Expired(o) ==
  [o EXCEPT !.system.end = IF clock > o.system.start + 1 THEN clock ELSE o.system.start + 1]

\* (a bug: an old row that starts with the window leaves an empty piece)
LeftOfInclusive(c) == {o \in Overlapping(c) : o.valid.start <= c.valid.start}
\* (a bug: only the piece before the window is kept)
RightOfDropped(c) == {}
LeftOf(c)  == {o \in Overlapping(c) : o.valid.start < c.valid.start}
RightOf(c) == {o \in Overlapping(c) : c.valid.end < o.valid.end}

\* Residual pieces are appended in the order of the rows they come from, the
\* left piece of a row before its right piece.
LeftSlot(o)  == 2 * o.seq
RightSlot(o) == 2 * o.seq + 1
Slots(c) == {LeftSlot(o) : o \in LeftOf(c)} \cup {RightSlot(o) : o \in RightOf(c)}
SeqOfSlot(c, slot) == rows + Cardinality({s \in Slots(c) : s <= slot})

LeftPiece(o, c) ==
  Row([o EXCEPT !.valid = [start |-> o.valid.start, end |-> c.valid.start]],
      SeqOfSlot(c, LeftSlot(o)), Since(clock))
RightPiece(o, c) ==
  Row([o EXCEPT !.valid = [start |-> c.valid.end, end |-> o.valid.end]],
      SeqOfSlot(c, RightSlot(o)), Since(clock))

\* What the superseded rows still assert outside the window of c.
Residuals(c) ==
  {LeftPiece(o, c) : o \in LeftOf(c)} \cup {RightPiece(o, c) : o \in RightOf(c)}

Closed(c) == {Expired(o) : o \in Overlapping(c)}

\* (a bug: residual rows are not indexed)
OpenAfterNoResiduals(c) == (openSeqs[c.key] \ SeqsOf(Overlapping(c))) \cup {rows}
OpenAfter(c) ==
  (openSeqs[c.key] \ SeqsOf(Overlapping(c))) \cup {rows} \cup SeqsOf(Residuals(c))

-----------------------------------------------------------------------------
Init ==
  /\ cells = {} /\ rows = 0
  /\ openSeqs = [k \in Keys |-> {}]
  /\ current = [k \in Keys |-> NoSeq]
  /\ clock = 0
  /\ pending = <<>> /\ saving = FALSE
  /\ disk = {}

Idle == pending = <<>> /\ ~saving

\* (a bug: the stamp is not compared with the clock)
AdmitAnyTime(batch, t) ==
  /\ Idle /\ rows < MaxRows
  /\ clock' = t
  /\ pending' = batch
  /\ UNCHANGED <<cells, rows, openSeqs, current, saving, disk>>
\* _stamp_now: a stamp below the clock is rejected.
Admit(batch, t) ==
  /\ Idle /\ rows < MaxRows
  /\ t >= clock
  /\ clock' = t
  /\ pending' = batch
  /\ UNCHANGED <<cells, rows, openSeqs, current, saving, disk>>

\* commit(): the pipeline's write path; rank 0 is refused.
Commit(batch, t) ==
  /\ \A i \in DOMAIN batch : batch[i].rank >= 1
  /\ Admit(batch, t)

\* action(SetProperty): one cell of rank 0 and full confidence.
Act(c, t) ==
  /\ c.rank = 0 /\ c.conf = MaxConf
  /\ Admit(<<c>>, t)

NextPending ==
  /\ pending' = Tail(pending)
  /\ saving' = (Tail(pending) = <<>>)

\* A row of higher precedence covers part of the window: the write is
\* recorded with a system interval closed at once, and changes nothing else.
ApplyDeadOnArrival ==
  /\ pending # <<>>
  /\ LET c == Head(pending) IN
       /\ Losers(c) # {}
       /\ cells' = cells \cup {Row(c, rows, [start |-> clock, end |-> clock + 1])}
       /\ rows' = rows + 1
  /\ NextPending
  /\ UNCHANGED <<openSeqs, current, clock, disk>>

\* The write beats every open row it overlaps: those are closed, and
\* re-asserted where the new window does not reach.
ApplyWinning ==
  /\ pending # <<>>
  /\ LET c == Head(pending) IN
       /\ Losers(c) = {}
       /\ cells' = (cells \ Overlapping(c)) \cup Closed(c)
                     \cup {Row(c, rows, Since(clock))} \cup Residuals(c)
       /\ rows' = rows + 1 + Cardinality(Slots(c))
       /\ openSeqs' = [openSeqs EXCEPT ![c.key] = OpenAfter(c)]
       /\ current' = [current EXCEPT ![c.key] = CurrentIn(cells', OpenAfter(c))]
  /\ NextPending
  /\ UNCHANGED <<clock, disk>>

\* write_parquet_atomic: temporary file, then os.replace.
Save ==
  /\ saving
  /\ disk' = cells
  /\ saving' = FALSE
  /\ UNCHANGED <<cells, rows, openSeqs, current, clock, pending>>

\* The write raises: the old file stays, memory keeps what it applied.
SaveFails ==
  /\ saving
  /\ saving' = FALSE
  /\ UNCHANGED <<cells, rows, openSeqs, current, clock, pending, disk>>

\* Hearth.rebuild_indexes on the open store.
RebuildIndexes ==
  /\ Idle
  /\ openSeqs' = RebuiltOpen(cells)
  /\ current' = RebuiltCurrent(cells)
  /\ UNCHANGED <<cells, rows, clock, pending, saving, disk>>

\* The process ends, at any point, and the directory is opened again.
Reopen ==
  /\ cells' = disk
  /\ rows' = Cardinality(disk)
  /\ openSeqs' = RebuiltOpen(disk)
  /\ current' = RebuiltCurrent(disk)
  /\ clock' = ClockFloor(disk)
  /\ pending' = <<>> /\ saving' = FALSE
  /\ UNCHANGED disk

Batches == UNION {[1 .. n -> Facts] : n \in 1 .. MaxBatch}

Next ==
  \/ \E batch \in Batches, t \in 0 .. MaxTime : Commit(batch, t)
  \/ \E c \in Facts, t \in 0 .. MaxTime : Act(c, t)
  \/ ApplyDeadOnArrival
  \/ ApplyWinning
  \/ Save
  \/ SaveFails
  \/ RebuildIndexes
  \/ Reopen

Spec == Init /\ [][Next]_vars

-----------------------------------------------------------------------------
(* Reads.                                                                  *)

\* as_of(v): the rows now believed about world time v.
AsOf(cs, k, v) == {c \in cs : c.key = k /\ IsOpen(c.system) /\ Contains(c.valid, v)}

\* audit(v, s): the rows the system at s held about world time v.
Audit(cs, k, v, s) ==
  {c \in cs : c.key = k /\ Contains(c.system, s) /\ Contains(c.valid, v)}

\* read._winner: the survivorship winner among the visible rows.
Winner(visible) == CHOOSE c \in visible : \A d \in visible \ {c} : Precedes(c, d)

\* What a read returns of a row: what was said, never when it was closed.
Said(visible) ==
  IF visible = {} THEN {}
  ELSE LET w == Winner(visible) IN {<<w.val, w.rank, w.conf, w.system.start, w.seq>>}

-----------------------------------------------------------------------------
(* Properties.                                                             *)

Cells == [key : Keys, val : Values, valid : Intervals, rank : 0 .. MaxRank,
          conf : 0 .. MaxConf, system : Intervals, seq : Nat]

\* Type invariant: every row is a cell whose two intervals are well formed.
TypeOK ==
  /\ cells \subseteq Cells /\ disk \subseteq Cells
  /\ rows \in Nat
  /\ openSeqs \in [Keys -> SUBSET Nat]
  /\ current \in [Keys -> Nat \cup {NoSeq}]
  /\ clock \in 0 .. MaxTime + 1
  /\ pending \in Seq(Facts)
  /\ saving \in BOOLEAN

\* Rows are numbered 0 .. n-1 without gap or repetition, in memory and in the
\* file: ValueShard.load refuses to open a shard for which this fails.
SeqDense ==
  /\ SeqsOf(cells) = 0 .. (rows - 1) /\ Cardinality(cells) = rows
  /\ SeqsOf(disk) = 0 .. (Cardinality(disk) - 1)

\* The indexes maintained step by step are the ones a rebuild from the rows
\* gives, after any interleaving of commits, failed saves and reopenings.
IndexesAreDerived ==
  /\ openSeqs = RebuiltOpen(cells)
  /\ current = RebuiltCurrent(cells)

\* No two system-open rows of a key overlap in world time, so at most one row
\* is current: the store's open-cell invariant, for memory and for the file.
DisjointOpen(cs) ==
  \A a, b \in cs :
    /\ a.key = b.key /\ a # b
    /\ IsOpen(a.system) /\ IsOpen(b.system)
    => ~Overlaps(a.valid, b.valid)

OpenCellsDisjoint == DisjointOpen(cells) /\ DisjointOpen(disk)

\* One instant after the clock, what the system is recorded to have known is
\* exactly what it believes now: dead-on-arrival and superseded rows are out
\* of sight (the test suite checks its I5 at now+1 for the same reason).
BeliefSettled ==
  \A k \in Keys, v \in Instants : Audit(cells, k, v, clock + 1) = AsOf(cells, k, v)

\* No step of a running store changes what an audit of the strict past answers.
KnownPastFrozen ==
  [][Reopen \/ \A k \in Keys, v \in Instants, s \in 0 .. MaxTime :
       s < clock => Said(Audit(cells', k, v, s)) = Said(Audit(cells, k, v, s))]_vars

\* Nor does any step, crashes and failed saves included, change what the file
\* answers about an instant before the stamp of the newest row in it.
DurablePastFrozen ==
  [][\A k \in Keys, v \in Instants, s \in 0 .. MaxTime :
       (\E c \in disk : s < c.system.start)
         => Said(Audit(disk', k, v, s)) = Said(Audit(disk, k, v, s))]_vars

\* The file only grows: a saved row keeps everything it said, and its system
\* interval is closed at most once, never reopened or moved.
AppendOnly ==
  [][\A c \in disk : \E d \in disk' :
       /\ d = [c EXCEPT !.system = d.system]
       /\ \/ d.system = c.system
          \/ IsOpen(c.system) /\ d.system.start = c.system.start]_vars

\* System time is append-only: what was known stays known, while the store runs
\* and across crashes, and no saved row is dropped, reopened or moved.
PastFrozen == KnownPastFrozen /\ DurablePastFrozen /\ AppendOnly

\* Where a human edit is the saved belief, it stays a human edit: no pipeline
\* commit, failed save or crash puts a pipeline value, or nothing, there.
HumanEditsStand ==
  [][\A k \in Keys, v \in Instants :
       (\E c \in AsOf(disk, k, v) : c.rank = 0)
         => /\ AsOf(disk', k, v) # {}
            /\ \A d \in AsOf(disk', k, v) : d.rank = 0]_vars

-----------------------------------------------------------------------------
(* The abstract view: one belief per key and point of world time.          *)

BeliefIn(cs) ==
  [k \in Keys |-> [v \in Instants |->
     {[val |-> c.val, rank |-> c.rank, conf |-> c.conf] : c \in AsOf(cs, k, v)}]]

Belief == INSTANCE BeliefMap
            WITH Points <- Instants, believed <- BeliefIn(cells), durable <- BeliefIn(disk)

\* The shard implements BeliefMap: bi-temporal rows, residual pieces, indexes
\* and files amount to a map that a write overrides where nothing beats it.
ImplementsBeliefMap == Belief!Spec
=============================================================================

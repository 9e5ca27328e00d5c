---------------------------- MODULE HumanActions ----------------------------
(***************************************************************************)
(* Typed write-back by humans (hearth/actions.py) with its evidence in the *)
(* ledger (ledger/sqlite_ledger.py), next to commits of the pipeline.      *)
(*                                                                         *)
(* An Action is several steps, as in the code: validated, its atom is      *)
(* registered (Begin), its artifact is appended (AppendEvidence), and the  *)
(* write is committed and saved (Write) or refused (Refuse).  The ledger   *)
(* is durable step by step, the store when a shard file is replaced.       *)
(*                                                                         *)
(* Of the rows only the system-open ones are kept, in the order in which   *)
(* they were appended: they are all that a question of LODESTONE without   *)
(* a point in time reads (lodestone/lower.py).  Closed rows, confidence    *)
(* and several shards of a kind are those of HearthShard and HearthLinks.  *)
(***************************************************************************)
EXTENDS Temporal, Subsequences

CONSTANTS
  Facts,     \* (entity, property) pairs that rows are about
  Objects,   \* sets of facts that CreateObject writes together
  Pairs,     \* (entity, entity) pairs that may be linked
  Values,    \* values that pass the shapes of the class
  Windows,   \* valid intervals that SetProperty may be given
  Loaded,    \* facts and pairs that were materialised -> their values
  MaxTime,   \* bound: the last instant of a write
  MaxWrites  \* bound: commits and Actions

ASSUME LoadedAssumption == DOMAIN Loaded \subseteq Facts \cup Pairs
\* A property is no entity, and an object is written for one entity.
ASSUME FactsAssumption == Facts \cap Pairs = {}
ASSUME ObjectsAssumption ==
  \A object \in Objects : object \subseteq Facts /\ \A f, g \in object : f[1] = g[1]
ASSUME WindowsAssumption == Windows \subseteq Intervals
ASSUME TimeAssumption == MaxTime \in Nat /\ MaxTime < FOREVER /\ MaxWrites \in Nat

VARIABLES
  rows,       \* fact -> its system-open rows
  links,      \* pair -> its system-open link rows: live, or retracted
  atoms,      \* the ledger's atom table
  artifacts,  \* the atoms that a human-edit artifact cites
  clock,      \* Hearth._clock
  stamped,    \* the highest instant in a value row, which a reopened store starts from
  disk,       \* rows, links and stamped as the shard files hold them
  doing,      \* the Action in progress, if any, with its instant
  writes      \* commits and Actions so far

store == <<rows, links, clock, stamped, disk>>
data == <<rows, links, atoms, artifacts, clock, stamped, disk, doing, writes>>

HumanRank == 0
PipelineRank == 1

Later(a, b) == IF a > b THEN a ELSE b

-----------------------------------------------------------------------------
(* Rows.                                                                   *)

Row(value, atom, rank, valid, at) ==
  [value |-> value, atom |-> atom, rank |-> rank, valid |-> valid, since |-> at]

Overlapping(open, r) == Where(open, LAMBDA o : Overlaps(o.valid, r.valid))

\* Left and right of the new row, for each superseded row in turn.
Pieces(over, r) ==
  [k \in 1 .. 2 * Len(over) |->
     LET old == over[(k + 1) \div 2]
     IN  IF k % 2 = 1 THEN [old EXCEPT !.valid.end = r.valid.start, !.since = r.since]
                      ELSE [old EXCEPT !.valid.start = r.valid.end, !.since = r.since]]

\* What is left of the superseded rows: the pieces that are not empty.
Residuals(over, r) == Where(Pieces(over, r), LAMBDA o : o.valid.start < o.valid.end)

\* LinkShard.apply, and ValueShard.apply where nothing beats the new row: the
\* new row, then what is left of the rows it closes.
Superseded(open, r) ==
  Where(open, LAMBDA o : ~Overlaps(o.valid, r.valid))
    \o <<r>> \o Residuals(Overlapping(open, r), r)

\* A row of a better rank covers part of the window.
DeadOnArrival(open, r) ==
  \E i \in DOMAIN open : Overlaps(open[i].valid, r.valid) /\ open[i].rank < r.rank

Applied(open, r) == IF DeadOnArrival(open, r) THEN open ELSE Superseded(open, r)

\* The last instant that applying the row writes down: a row that is closed at
\* the instant it was written ends one later.
Stamp(open, r) ==
  IF DeadOnArrival(open, r) \/ \E i \in DOMAIN Overlapping(open, r) :
                                 Overlapping(open, r)[i].since = r.since
  THEN r.since + 1 ELSE r.since

\* survivorship_key: rank, then the newer system time, then the later row.
Survives(open, i, j) ==
  \/ open[i].rank < open[j].rank
  \/ open[i].rank = open[j].rank /\ open[i].since > open[j].since
  \/ open[i].rank = open[j].rank /\ open[i].since = open[j].since /\ i > j

\* The row of a fact under the stance EVER: any open row counts, whenever valid.
Ever(f) ==
  rows[f][CHOOSE i \in DOMAIN rows[f] : \A j \in DOMAIN rows[f] \ {i} : Survives(rows[f], i, j)]

-----------------------------------------------------------------------------
(* Operations.                                                             *)

None == <<>>

Ops ==
  [op : {"SetProperty"}, fact : Facts, value : Values, valid : {{}} \cup {{w} : w \in Windows}]
    \cup [op : {"CreateObject"}, props : UNION {[object -> Values] : object \in Objects}]
    \cup [op : {"Link", "Unlink"}, pair : Pairs]

\* The atom of an edit: its content is the operation and the instant.
EditAtom(op, at) == <<"edit", op, at>>

\* An atom of a source: its content is the cell, whenever it was read.
SourceAtom(about, value) == <<"source", about, value>>

\* The value rows an operation writes, all of one atom.
Cells(op, at) ==
  LET valid(w) == IF w = {} THEN Since(at) ELSE CHOOSE i \in w : TRUE
  IN  CASE op.op = "SetProperty" ->
             [f \in {op.fact} |-> Row(op.value, EditAtom(op, at), HumanRank, valid(op.valid), at)]
        [] op.op = "CreateObject" ->
             [f \in DOMAIN op.props |-> Row(op.props[f], EditAtom(op, at), HumanRank, Since(at), at)]
        [] OTHER -> None

\* The link row Unlink retracts: the last one that is valid now.
Current(pair) == {i \in DOMAIN links[pair] : IsOpen(links[pair][i].valid)}

Retracted(pair, atom, at) ==
  LET i == CHOOSE k \in Current(pair) : \A other \in Current(pair) : other <= k
      old == links[pair][i]
  IN  At(links[pair], DOMAIN links[pair] \ {i})
        \o <<[old EXCEPT !.valid.end = Later(at, old.valid.start + 1), !.since = at, !.atom = atom]>>

\* The stamp is taken, the rows of the value shard applied and its file saved.
Committed(cells, at, saved) ==
  /\ at >= clock
  /\ clock' = at
  /\ rows' = [f \in Facts |-> IF f \in DOMAIN cells THEN Applied(rows[f], cells[f]) ELSE rows[f]]
  /\ stamped' = Later(stamped, IF \E f \in DOMAIN cells : Stamp(rows[f], cells[f]) > at
                               THEN at + 1 ELSE at)
  /\ disk' = IF saved THEN [disk EXCEPT !.rows = rows', !.stamped = stamped'] ELSE disk
  /\ UNCHANGED links

\* The same for one pair of the link shard.
Relinked(pair, open, at, saved) ==
  /\ at >= clock
  /\ clock' = at
  /\ links' = [links EXCEPT ![pair] = open]
  /\ disk' = IF saved THEN [disk EXCEPT !.links = links'] ELSE disk
  /\ UNCHANGED <<rows, stamped>>

-----------------------------------------------------------------------------
\* What the first materialisation left: one source row each, saved.
FirstRows(about) ==
  IF about \in DOMAIN Loaded
  THEN <<Row(Loaded[about], SourceAtom(about, Loaded[about]), PipelineRank, Since(0), 0)>>
  ELSE <<>>

InitData ==
  /\ rows = [f \in Facts |-> FirstRows(f)]
  /\ links = [p \in Pairs |-> FirstRows(p)]
  /\ atoms = {SourceAtom(about, Loaded[about]) : about \in DOMAIN Loaded}
  /\ artifacts = {}
  /\ clock = 0 /\ stamped = 0
  /\ disk = [rows |-> rows, links |-> links, stamped |-> 0]
  /\ doing = None /\ writes = 0

Start ==
  /\ doing = None
  /\ writes < MaxWrites
  /\ writes' = writes + 1

\* A materialisation: the atoms are in the ledger before the commit, which
\* raises when they are not.
CommitValue(f, v, at, saved) ==
  LET atom == SourceAtom(f, v) IN
  /\ Start
  /\ atoms' = atoms \cup {atom}
  /\ Committed([g \in {f} |-> Row(v, atom, PipelineRank, Since(at), at)], at, saved)
  /\ UNCHANGED <<artifacts, doing>>

CommitLink(pair, at, saved) ==
  LET atom == SourceAtom(pair, "linked") IN
  /\ Start
  /\ atoms' = atoms \cup {atom}
  /\ Relinked(pair, Superseded(links[pair], Row("linked", atom, PipelineRank, Since(at), at)), at, saved)
  /\ UNCHANGED <<artifacts, doing>>

\* perform: the operation is valid; its atom is registered and interned.
Begin(op, at) ==
  /\ Start
  /\ doing' = [op |-> op, at |-> at]
  /\ atoms' = atoms \cup {EditAtom(op, at)}
  /\ UNCHANGED <<store, artifacts>>

AppendEvidence ==
  /\ doing # None
  /\ EditAtom(doing.op, doing.at) \notin artifacts
  /\ artifacts' = artifacts \cup {EditAtom(doing.op, doing.at)}
  /\ UNCHANGED <<store, atoms, doing, writes>>

\* (a bug: the write does not wait for the artifact)
EvidencedByAtom == doing # None /\ EditAtom(doing.op, doing.at) \in atoms
Evident == doing # None /\ EditAtom(doing.op, doing.at) \in artifacts

\* The write of the Action, in memory and, unless the save raises, in the file.
Write(saved) ==
  /\ Evident
  /\ LET op == doing.op
         at == doing.at
         atom == EditAtom(op, at)
     IN  \/ op.op \in {"SetProperty", "CreateObject"} /\ Committed(Cells(op, at), at, saved)
         \/ /\ op.op = "Link"
            /\ Relinked(op.pair,
                 Superseded(links[op.pair], Row("linked", atom, HumanRank, Since(at), at)), at, saved)
         \/ /\ op.op = "Unlink" /\ Current(op.pair) # {}
            /\ Relinked(op.pair, Retracted(op.pair, atom, at), at, saved)
  /\ doing' = None
  /\ UNCHANGED <<atoms, artifacts, writes>>

\* The stamp is below the clock, or there is nothing to unlink: the Action
\* raises, and its evidence stays.
Refuse ==
  /\ Evident
  /\ \/ doing.at < clock
     \/ doing.op.op = "Unlink" /\ Current(doing.op.pair) = {}
  /\ doing' = None
  /\ UNCHANGED <<store, atoms, artifacts, writes>>

\* The process ends, at any point, and the store is opened again.
Reopen ==
  /\ rows' = disk.rows /\ links' = disk.links
  /\ clock' = disk.stamped /\ stamped' = disk.stamped
  /\ doing' = None
  /\ UNCHANGED <<atoms, artifacts, disk, writes>>

Change ==
  \/ \E at \in 0 .. MaxTime, saved \in BOOLEAN :
       \/ \E f \in Facts, v \in Values : CommitValue(f, v, at, saved)
       \/ \E pair \in Pairs : CommitLink(pair, at, saved)
  \/ \E op \in Ops, at \in 0 .. MaxTime : Begin(op, at)
  \/ AppendEvidence
  \/ \E saved \in BOOLEAN : Write(saved)
  \/ Refuse

EditSpec == InitData /\ [][Change \/ Reopen]_data

-----------------------------------------------------------------------------
(* Properties.                                                             *)

\* Constraint H for human writes: whatever was refused, cut off or not saved,
\* every row in memory and in the files is backed by a registered atom, and a
\* human one by an artifact that tells who wrote what, and when.
Evidenced ==
  \A open \in {rows[f] : f \in Facts} \cup {disk.rows[f] : f \in Facts}
                \cup {links[p] : p \in Pairs} \cup {disk.links[p] : p \in Pairs} :
    \A i \in DOMAIN open :
      /\ open[i].atom \in atoms
      /\ open[i].atom[1] = "edit" => open[i].atom \in artifacts

\* "a later human action supersedes an earlier one" (hearth/README.md:111):
\* where a human edit holds from some instant on, it is what a question
\* without a point in time is answered with.
LastEditAnswers ==
  \A f \in Facts : \A i \in DOMAIN rows[f] :
    LET r == rows[f][i] IN r.rank = HumanRank /\ IsOpen(r.valid) => Ever(f).value = r.value

=============================================================================

------------------------------ MODULE CdcTabular ------------------------------
(***************************************************************************)
(* Change capture of one tabular source (cdc/tabular.py, cdc/largecsv.py), *)
(* driven by ingest() and the RAW mirror (cdc/ingest.py), with the state   *)
(* file of the command line (cli.py) as the caller that keeps new_state.   *)
(*                                                                         *)
(* A table has a key column "k" and, in some cycles, a value column "v".   *)
(* An atom is content-addressed, so it is the triple of row key, column    *)
(* and value it is the address of.  The process may stop between any two   *)
(* steps of an ingest, and inside the write of a mirror file.              *)
(***************************************************************************)
EXTENDS Naturals, Sequences, FiniteSets, TLC

CONSTANTS
  KeyTexts,  \* keys of unreserved characters: quote_part returns them as they are
  Values,    \* values of the column "v"
  Tables,    \* bound: what the source may hold, columns and rows
  Null,      \* a missing field: as a key value it makes the row keyless
  MaxCycle,  \* bound: pulls that are persisted
  MaxStops   \* bound: ingests that are cut off

ASSUME NullAssumption == Null \notin KeyTexts \cup Values
ASSUME BoundAssumption == {MaxCycle, MaxStops} \subseteq Nat

VARIABLES
  saved,    \* the persisted connector state: its cycle and its rows
  inflight, \* what pull() returned to the ingest in progress, or <<>>
  step,     \* how far that ingest has come
  atoms,    \* the ledger's atom table
  files,    \* the mirror's files: name (the content they should hold) to content
  manifest, \* manifest.jsonl: the cycle and file name of each line
  stops     \* how many ingests were cut off

vars == <<saved, inflight, step, atoms, files, manifest, stops>>

Columns == {{"k"}, {"k", "v"}}
ASSUME TablesAssumption ==
  Tables \subseteq [cols : Columns, rows : Seq([k : KeyTexts \cup {Null}, v : Values])]

-----------------------------------------------------------------------------
(* Row identity.                                                           *)

CellsOf(t, i) == [c \in t.cols |-> t.rows[i][c]]

\* _row_key: the quoted key, or a hash of all cells of a keyless row.
Base(t, i) ==
  IF t.rows[i].k # Null THEN t.rows[i].k ELSE "row-" \o ToString(CellsOf(t, i))

Occurrence(t, i) == Cardinality({j \in 1 .. i : Base(t, j) = Base(t, i)})

\* _disambiguate: the n-th row with the same base gets the suffix ~n.
Numbered(text, n) == IF n = 1 THEN text ELSE text \o "~" \o ToString(n)
RowKey(t, i) == Numbered(Base(t, i), Occurrence(t, i))

\* Different numbers are written differently, after the same text.
ASSUME NumbersAssumption ==
  \A t \in Tables : \A i, m, n \in DOMAIN t.rows :
    Numbered(Base(t, i), m) = Numbered(Base(t, i), n) => m = n

\* A key text that ends like a number, as "a~2" does, may be what the second row
\* of another key is called.
Clash(t) ==
  \E i, j \in DOMAIN t.rows : Base(t, i) # Base(t, j) /\ RowKey(t, i) = RowKey(t, j)

RowKeys(t) == {RowKey(t, i) : i \in DOMAIN t.rows}

\* new_rows: a dict, so the last row with a key is the one that stays.
LastRow(t, rk) == CHOOSE i \in DOMAIN t.rows :
                    /\ RowKey(t, i) = rk
                    /\ \A j \in DOMAIN t.rows : RowKey(t, j) = rk => j <= i
NewRows(t) == [rk \in RowKeys(t) |-> CellsOf(t, LastRow(t, rk))]

AtomsOf(rows) ==
  UNION {{<<rk, c, rows[rk][c]>> : c \in DOMAIN rows[rk]} : rk \in DOMAIN rows}

-----------------------------------------------------------------------------
(* The diff.                                                               *)

NoAtom == <<>>

Insert(rk, c, value) == [kind |-> "insert", atom |-> <<rk, c, value>>, old |-> NoAtom]
Update(rk, c, value, was) ==
  [kind |-> "update", atom |-> <<rk, c, value>>, old |-> <<rk, c, was>>]
\* A tombstone carries no value; the atom that vanished is its superseded id.
Tombstone(rk, c, was) == [kind |-> "delete", atom |-> <<rk, c, Null>>, old |-> <<rk, c, was>>]

\* One row against the prior state, cell by cell.
DiffRow(old, rk, cells) ==
  IF rk \notin DOMAIN old
  THEN {Insert(rk, c, cells[c]) : c \in DOMAIN cells}
  ELSE   {Insert(rk, c, cells[c]) : c \in DOMAIN cells \ DOMAIN old[rk]}
    \cup {Update(rk, c, cells[c], old[rk][c]) :
            c \in {d \in DOMAIN cells \cap DOMAIN old[rk] : cells[d] # old[rk][d]}}
    \cup {Tombstone(rk, c, old[rk][c]) : c \in DOMAIN old[rk] \ DOMAIN cells}

Vanished(old, keys) ==
  UNION {{Tombstone(rk, c, old[rk][c]) : c \in DOMAIN old[rk]} : rk \in DOMAIN old \ keys}

\* (a bug: rows that vanished are not reported)
DeltasKept(old, t) == UNION {DiffRow(old, rk, NewRows(t)[rk]) : rk \in RowKeys(t)}
\* CsvConnector.pull: index the rows by key, then diff the index.
Deltas(old, t) ==
  (UNION {DiffRow(old, rk, NewRows(t)[rk]) : rk \in RowKeys(t)}) \cup Vanished(old, RowKeys(t))

\* (a bug: a row that occurs again is not diffed again)
StreamedDeltasOnce(old, t) ==
  (UNION {DiffRow(old, RowKey(t, i), CellsOf(t, i)) :
            i \in {j \in DOMAIN t.rows : Occurrence(t, j) = 1}}) \cup Vanished(old, RowKeys(t))
\* LargeCsvConnector.pull: diff each row as it is read.
StreamedDeltas(old, t) ==
  (UNION {DiffRow(old, RowKey(t, i), CellsOf(t, i)) : i \in DOMAIN t.rows})
    \cup Vanished(old, RowKeys(t))

-----------------------------------------------------------------------------
NoRows == [rk \in {} |-> <<>>]

Init ==
  /\ saved = [cycle |-> 0, rows |-> NoRows]
  /\ inflight = <<>> /\ step = "idle"
  /\ atoms = {} /\ files = <<>> /\ manifest = <<>> /\ stops = 0

\* ingest() reads the file once, whatever it holds by then, and works on that.
Pull(t) ==
  /\ step = "idle" /\ saved.cycle < MaxCycle
  /\ inflight' = [cycle |-> saved.cycle + 1, table |-> t, rows |-> NewRows(t),
                  deltas |-> Deltas(saved.rows, t)]
  /\ step' = "pulled"
  /\ UNCHANGED <<saved, atoms, files, manifest, stops>>

\* (a bug: only new cells are registered)
RegisteredInserts(deltas) == {d.atom : d \in {e \in deltas : e.kind = "insert"}}
\* Tombstones are not registered.
Registered(deltas) == {d.atom : d \in {e \in deltas : e.kind # "delete"}}

Register ==
  /\ step = "pulled"
  /\ atoms' = atoms \cup Registered(inflight.deltas)
  /\ step' = "registered"
  /\ UNCHANGED <<saved, inflight, files, manifest, stops>>

\* write_snapshot: the file is created under its final name, empty at first.
OpenFile ==
  /\ step = "registered"
  /\ inflight.table \notin DOMAIN files
  /\ files' = [name \in DOMAIN files \cup {inflight.table} |->
                 IF name \in DOMAIN files THEN files[name] ELSE <<>>]
  /\ step' = "writing"
  /\ UNCHANGED <<saved, inflight, atoms, manifest, stops>>

FillFile ==
  /\ step = "writing"
  /\ files' = [files EXCEPT ![inflight.table] = inflight.table]
  /\ step' = "written"
  /\ UNCHANGED <<saved, inflight, atoms, manifest, stops>>

\* Unchanged data is never rewritten.
KeepFile ==
  /\ step = "registered"
  /\ inflight.table \in DOMAIN files
  /\ step' = "written"
  /\ UNCHANGED <<saved, inflight, atoms, files, manifest, stops>>

AppendLine ==
  /\ step = "written"
  /\ manifest' = Append(manifest, [cycle |-> inflight.cycle, file |-> inflight.table])
  /\ step' = "mirrored"
  /\ UNCHANGED <<saved, inflight, atoms, files, stops>>

\* (a bug: the old rows are kept with the new cycle)
SavedRowsOf(flight) == saved.rows @@ flight.rows
\* new_state: the rows that were read replace the ones of the last cycle.
SavedRows(flight) == flight.rows

\* The command line writes the state file once its tables are ingested.
Persist ==
  /\ step = "mirrored"
  /\ saved' = [cycle |-> inflight.cycle, rows |-> SavedRows(inflight)]
  /\ inflight' = <<>> /\ step' = "idle"
  /\ UNCHANGED <<atoms, files, manifest, stops>>

\* The process ends before the state is written, by a crash or an exception of
\* another table; what the ledger and the mirror hold stays.
Stop ==
  /\ step # "idle" /\ stops < MaxStops
  /\ stops' = stops + 1
  /\ inflight' = <<>> /\ step' = "idle"
  /\ UNCHANGED <<saved, atoms, files, manifest>>

\* All cycles of the bound are done.
Done == saved.cycle = MaxCycle /\ UNCHANGED vars

Next ==
  \/ \E t \in Tables : Pull(t)
  \/ Register \/ OpenFile \/ FillFile \/ KeepFile
  \/ AppendLine \/ Persist \/ Stop \/ Done

Spec == Init /\ [][Next]_vars

-----------------------------------------------------------------------------
(* Properties.                                                             *)

\* Type invariant: a manifest line names a file that exists.
TypeOK ==
  /\ saved.cycle \in 0 .. MaxCycle
  /\ step \in {"idle", "pulled", "registered", "writing", "written", "mirrored"}
  /\ (inflight = <<>>) <=> (step = "idle")
  /\ DOMAIN files \subseteq Tables
  /\ \A i \in DOMAIN manifest : manifest[i].file \in DOMAIN files

\* Every cell of the persisted state is a registered atom, so a later update
\* or delete supersedes an atom the ledger knows.
StateIsRegistered == AtomsOf(saved.rows) \subseteq atoms

Replayed(rows, deltas) ==
  (AtomsOf(rows) \ {d.old : d \in deltas}) \cup Registered(deltas)

\* The delta stream alone rebuilds the new snapshot from the old one: a consumer
\* of pull() that never sees the table ends with exactly its cells.
DeltasComplete ==
  step # "idle" => Replayed(saved.rows, inflight.deltas) = AtomsOf(inflight.rows)

\* The ids handed to invalidation are exactly the atoms that are gone.
SupersessionExact ==
  step # "idle" =>
    {d.old : d \in inflight.deltas} \ {NoAtom} = AtomsOf(saved.rows) \ AtomsOf(inflight.rows)

LinesOf(cycle) == {i \in DOMAIN manifest : manifest[i].cycle = cycle}

\* The mirror's latest snapshot for the persisted cycle (read_snapshot takes the
\* last line) is the table that the persisted state was read from, also when
\* ingests of that cycle were cut off.
MirrorMatchesState ==
  /\ TypeOK
  /\ saved.cycle > 0 =>
       \E i \in LinesOf(saved.cycle) :
         /\ \A j \in LinesOf(saved.cycle) : j <= i
         /\ NewRows(manifest[i].file) = saved.rows

\* A pull is exact: its deltas rebuild the snapshot, and they supersede what is
\* gone and nothing else.
PullExact == DeltasComplete /\ SupersessionExact

\* The streaming connector (largecsv.py), which never indexes the rows, leaves out
\* nothing that the in-memory one emits, whatever row keys fall together; and both
\* emit the same, and no row is lost in the index that the latter diffs, unless two
\* rows of different keys share a row key.
StreamingAgrees ==
  step # "idle" =>
    LET streamed == StreamedDeltas(saved.rows, inflight.table)
    IN  /\ inflight.deltas \subseteq streamed
        /\ ~Clash(inflight.table) =>
             /\ streamed = inflight.deltas
             /\ Cardinality(DOMAIN inflight.rows) = Len(inflight.table.rows)

-----------------------------------------------------------------------------
(* Two claims of the repository that the code does not meet: TLC refutes     *)
(* them when they are added to the configuration (README, known limits).     *)

\* Every row that was read is in the new state under a row key of its own
\* (tabular.py: "disambiguated" row keys; "failing loudly beats silent data loss").
EveryRowKept ==
  step # "idle" => Cardinality(DOMAIN inflight.rows) = Len(inflight.table.rows)

\* What a manifest line names is the content its hash stands for.
ManifestReadable == \A i \in DOMAIN manifest : files[manifest[i].file] = manifest[i].file
=============================================================================

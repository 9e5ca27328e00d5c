--------------------------- MODULE Dataflow_proofs ---------------------------
(***************************************************************************)
(* Theorems about what follows a change of the source tables.              *)
(*                                                                         *)
(* CdcTabular, for any keys, values and bounds, and for any numbering of   *)
(* repeated row keys: what a pull reports rebuilds the snapshot it read,   *)
(* the persisted state is registered, and the mirror holds the table it    *)
(* was read from, wherever an ingest is cut off.                           *)
(*                                                                         *)
(* TransformRuns, for any definitions and source tables: a run over all    *)
(* that changed gives what a full run would, what it leaves alone stays    *)
(* so, a failure stops what is downstream of it and nothing else, and the  *)
(* plan comes true.                                                        *)
(***************************************************************************)
EXTENDS CdcTabular, TransformRuns, Subsequences_proofs

-----------------------------------------------------------------------------
(* What a pull reports.                                                    *)

Fresh(old, new, d) ==
  \E rk \in DOMAIN new : \E c \in DOMAIN new[rk] :
    /\ rk \notin DOMAIN old \/ c \notin DOMAIN old[rk]
    /\ d = Insert(rk, c, new[rk][c])
Changed(old, new, d) ==
  \E rk \in DOMAIN new \cap DOMAIN old : \E c \in DOMAIN new[rk] \cap DOMAIN old[rk] :
    new[rk][c] # old[rk][c] /\ d = Update(rk, c, new[rk][c], old[rk][c])
Gone(old, new, d) ==
  \E rk \in DOMAIN old : \E c \in DOMAIN old[rk] :
    /\ rk \notin DOMAIN new \/ c \notin DOMAIN new[rk]
    /\ d = Tombstone(rk, c, old[rk][c])

\* A delta is of one of three kinds, and all of each kind are reported.
LEMMA DeltaKinds ==
  ASSUME NEW old, NEW t, NEW d
  PROVE  d \in Deltas(old, t) <=> \/ Fresh(old, NewRows(t), d)
                                  \/ Changed(old, NewRows(t), d)
                                  \/ Gone(old, NewRows(t), d)
<1> DEFINE new == NewRows(t)
           keys == RowKeys(t)
<1>1. DOMAIN new = keys
  BY DEF NewRows
<1>2. d \in Deltas(old, t) <=> (\E rk \in keys : d \in DiffRow(old, rk, new[rk])) \/ d \in Vanished(old, keys)
  <2> DEFINE D(rk) == DiffRow(old, rk, new[rk])
             gone == Vanished(old, keys)
  <2>1. Deltas(old, t) = (UNION {D(rk) : rk \in keys}) \cup gone
    BY DEF Deltas
  <2> HIDE DEF D, keys, new, gone
  <2>2. d \in Deltas(old, t) <=> (\E rk \in keys : d \in D(rk)) \/ d \in gone
    BY <2>1
  <2> QED BY <2>2 DEF D, gone
<1>3. d \in Vanished(old, keys) <=>
        \E rk \in DOMAIN old : rk \notin keys /\ \E c \in DOMAIN old[rk] : d = Tombstone(rk, c, old[rk][c])
  BY DEF Vanished
<1>4. ASSUME NEW rk \in keys
      PROVE  d \in DiffRow(old, rk, new[rk]) <=>
               \/ \E c \in DOMAIN new[rk] : /\ rk \notin DOMAIN old \/ c \notin DOMAIN old[rk]
                                            /\ d = Insert(rk, c, new[rk][c])
               \/ rk \in DOMAIN old /\ \E c \in DOMAIN new[rk] \cap DOMAIN old[rk] :
                    new[rk][c] # old[rk][c] /\ d = Update(rk, c, new[rk][c], old[rk][c])
               \/ rk \in DOMAIN old /\ \E c \in DOMAIN old[rk] \ DOMAIN new[rk] :
                    d = Tombstone(rk, c, old[rk][c])
  <2> HIDE DEF new, keys
  <2>1. CASE rk \in DOMAIN old
    BY <2>1 DEF DiffRow
  <2>2. CASE rk \notin DOMAIN old
    BY <2>2 DEF DiffRow
  <2> QED BY <2>1, <2>2
<1> HIDE DEF new, keys
<1>5. d \in Deltas(old, t) <=> Fresh(old, new, d) \/ Changed(old, new, d) \/ Gone(old, new, d)
  BY <1>1, <1>2, <1>3, <1>4 DEF Fresh, Changed, Gone
<1> QED BY <1>5 DEF new

LEMMA AtomOfRows ==
  ASSUME NEW rows, NEW a
  PROVE  a \in AtomsOf(rows) <=>
           \E rk \in DOMAIN rows : \E c \in DOMAIN rows[rk] : a = <<rk, c, rows[rk][c]>>
BY DEF AtomsOf

\* What is superseded is what is gone.
LEMMA DeltasSupersede ==
  ASSUME NEW old, NEW t
  PROVE  {d.old : d \in Deltas(old, t)} \ {NoAtom} = AtomsOf(old) \ AtomsOf(NewRows(t))
<1> DEFINE new == NewRows(t)
<1> HIDE DEF new
<1>1. \A d : d \in Deltas(old, t) <=> Fresh(old, new, d) \/ Changed(old, new, d) \/ Gone(old, new, d)
  BY DeltaKinds DEF new
<1>2. ASSUME NEW d \in Deltas(old, t), d.old # NoAtom
      PROVE  d.old \in AtomsOf(old) \ AtomsOf(new)
  <2>1. CASE Fresh(old, new, d)
    BY <1>2, <2>1 DEF Fresh, Insert
  <2>2. CASE Changed(old, new, d)
    <3>1. PICK rk \in DOMAIN new \cap DOMAIN old : \E c \in DOMAIN new[rk] \cap DOMAIN old[rk] :
            new[rk][c] # old[rk][c] /\ d.old = <<rk, c, old[rk][c]>>
      BY <2>2 DEF Changed, Update
    <3>2. PICK c \in DOMAIN new[rk] \cap DOMAIN old[rk] :
            new[rk][c] # old[rk][c] /\ d.old = <<rk, c, old[rk][c]>>
      BY <3>1
    <3> QED BY <3>1, <3>2, AtomOfRows
  <2>3. CASE Gone(old, new, d)
    <3>1. PICK rk \in DOMAIN old : \E c \in DOMAIN old[rk] :
            /\ rk \notin DOMAIN new \/ c \notin DOMAIN new[rk]
            /\ d.old = <<rk, c, old[rk][c]>>
      BY <2>3 DEF Gone, Tombstone
    <3>2. PICK c \in DOMAIN old[rk] :
            /\ rk \notin DOMAIN new \/ c \notin DOMAIN new[rk]
            /\ d.old = <<rk, c, old[rk][c]>>
      BY <3>1
    <3> QED BY <3>1, <3>2, AtomOfRows
  <2> QED BY <1>1, <2>1, <2>2, <2>3
<1>3. ASSUME NEW a \in AtomsOf(old), a \notin AtomsOf(new)
      PROVE  a # NoAtom /\ \E d \in Deltas(old, t) : d.old = a
  <2>1. PICK rk \in DOMAIN old : \E c \in DOMAIN old[rk] : a = <<rk, c, old[rk][c]>>
    BY AtomOfRows
  <2>2. PICK c \in DOMAIN old[rk] : a = <<rk, c, old[rk][c]>>
    BY <2>1
  <2>3. a # NoAtom
    BY <2>2 DEF NoAtom
  <2>4. CASE rk \in DOMAIN new /\ c \in DOMAIN new[rk]
    <3>1. new[rk][c] # old[rk][c]
      BY <1>3, <2>2, <2>4, AtomOfRows
    <3>2. Changed(old, new, Update(rk, c, new[rk][c], old[rk][c]))
      BY <2>4, <3>1 DEF Changed
    <3>3. Update(rk, c, new[rk][c], old[rk][c]).old = a
      BY <2>2 DEF Update
    <3> QED BY <1>1, <2>3, <3>2, <3>3
  <2>5. CASE rk \notin DOMAIN new \/ c \notin DOMAIN new[rk]
    <3>1. Gone(old, new, Tombstone(rk, c, old[rk][c]))
      BY <2>5 DEF Gone
    <3>2. Tombstone(rk, c, old[rk][c]).old = a
      BY <2>2 DEF Tombstone
    <3> QED BY <1>1, <2>3, <3>1, <3>2
  <2> QED BY <2>4, <2>5
<1> QED BY <1>2, <1>3 DEF new

\* What is registered is of the new rows, and all that is new in them.
LEMMA DeltasRegister ==
  ASSUME NEW old, NEW t
  PROVE  /\ Registered(Deltas(old, t)) \subseteq AtomsOf(NewRows(t))
         /\ AtomsOf(NewRows(t)) \ AtomsOf(old) \subseteq Registered(Deltas(old, t))
<1> DEFINE new == NewRows(t)
<1> HIDE DEF new
<1>1. \A d : d \in Deltas(old, t) <=> Fresh(old, new, d) \/ Changed(old, new, d) \/ Gone(old, new, d)
  BY DeltaKinds DEF new
<1>2. \A a : a \in Registered(Deltas(old, t)) <=> \E d \in Deltas(old, t) : d.kind # "delete" /\ a = d.atom
  BY DEF Registered
<1>3. ASSUME NEW d \in Deltas(old, t), d.kind # "delete" PROVE d.atom \in AtomsOf(new)
  <2>1. CASE Fresh(old, new, d)
    <3>1. \E rk \in DOMAIN new : \E c \in DOMAIN new[rk] : d.atom = <<rk, c, new[rk][c]>>
      BY <2>1 DEF Fresh, Insert
    <3> QED BY <3>1, AtomOfRows
  <2>2. CASE Changed(old, new, d)
    <3>1. \E rk \in DOMAIN new : \E c \in DOMAIN new[rk] : d.atom = <<rk, c, new[rk][c]>>
      BY <2>2 DEF Changed, Update
    <3> QED BY <3>1, AtomOfRows
  <2>3. CASE Gone(old, new, d)
    BY <1>3, <2>3 DEF Gone, Tombstone
  <2> QED BY <1>1, <2>1, <2>2, <2>3
<1>4. ASSUME NEW a \in AtomsOf(new), a \notin AtomsOf(old)
      PROVE  \E d \in Deltas(old, t) : d.kind # "delete" /\ a = d.atom
  <2>1. PICK rk \in DOMAIN new : \E c \in DOMAIN new[rk] : a = <<rk, c, new[rk][c]>>
    BY AtomOfRows
  <2>2. PICK c \in DOMAIN new[rk] : a = <<rk, c, new[rk][c]>>
    BY <2>1
  <2>3. CASE rk \in DOMAIN old /\ c \in DOMAIN old[rk]
    <3>1. new[rk][c] # old[rk][c]
      BY <1>4, <2>2, <2>3, AtomOfRows
    <3>2. Changed(old, new, Update(rk, c, new[rk][c], old[rk][c]))
      BY <2>3, <3>1 DEF Changed
    <3>3. /\ Update(rk, c, new[rk][c], old[rk][c]).atom = a
          /\ Update(rk, c, new[rk][c], old[rk][c]).kind # "delete"
      BY <2>2 DEF Update
    <3> QED BY <1>1, <3>2, <3>3
  <2>4. CASE rk \notin DOMAIN old \/ c \notin DOMAIN old[rk]
    <3>1. Fresh(old, new, Insert(rk, c, new[rk][c]))
      BY <2>4 DEF Fresh
    <3>2. Insert(rk, c, new[rk][c]).atom = a /\ Insert(rk, c, new[rk][c]).kind # "delete"
      BY <2>2 DEF Insert
    <3> QED BY <1>1, <3>1, <3>2
  <2> QED BY <2>3, <2>4
<1> QED BY <1>2, <1>3, <1>4 DEF new

\* The delta stream rebuilds the snapshot.
LEMMA DeltasRebuild ==
  ASSUME NEW old, NEW t
  PROVE  Replayed(old, Deltas(old, t)) = AtomsOf(NewRows(t))
<1>1. NoAtom \notin AtomsOf(old)
  BY AtomOfRows DEF NoAtom
<1> QED BY <1>1, DeltasSupersede, DeltasRegister DEF Replayed

LEMMA TableRows ==
  ASSUME NEW t \in Tables
  PROVE  Len(t.rows) \in Nat /\ DOMAIN t.rows = 1 .. Len(t.rows)
BY TablesAssumption

\* The row that stays in the index is among those that are read one by one.
LEMMA DeltasAmongStreamed ==
  ASSUME NEW old, NEW t \in Tables
  PROVE  Deltas(old, t) \subseteq StreamedDeltas(old, t)
<1> DEFINE I == DOMAIN t.rows
           keys == RowKeys(t)
           D(rk, cells) == DiffRow(old, rk, cells)
           gone == Vanished(old, keys)
<1>1. I \in SUBSET Nat /\ IsFiniteSet(I)
  <2>1. I = 1 .. Len(t.rows) /\ Len(t.rows) \in Nat
    BY TableRows
  <2> HIDE DEF I
  <2> QED BY <2>1, FS_Interval
<1>2. ASSUME NEW rk \in keys PROVE \E i \in I : rk = RowKey(t, i) /\ NewRows(t)[rk] = CellsOf(t, i)
  <2> DEFINE S == {i \in I : RowKey(t, i) = rk}
  <2>1. S \in SUBSET Nat /\ IsFiniteSet(S) /\ S # {}
    <3>1. S \subseteq I /\ S # {}
      BY DEF RowKeys
    <3> HIDE DEF S, I
    <3> QED BY <1>1, <3>1, FS_Subset
  <2>2. \E m \in S : \A i \in S : i <= m
    <3> HIDE DEF S
    <3> QED BY <2>1, LastPosition
  <2>3. LastRow(t, rk) \in I /\ RowKey(t, LastRow(t, rk)) = rk
    BY <2>2 DEF LastRow
  <2> QED BY <2>3 DEF NewRows
<1>3. /\ StreamedDeltas(old, t) = (UNION {D(RowKey(t, i), CellsOf(t, i)) : i \in I}) \cup gone
      /\ Deltas(old, t) = (UNION {D(rk, NewRows(t)[rk]) : rk \in keys}) \cup gone
  BY DEF StreamedDeltas, Deltas
<1> HIDE DEF D, gone, keys, I
<1> QED BY <1>2, <1>3

\* Rows that keep their keys apart are indexed one by one, so that reading them
\* one by one reports the same.
LEMMA StreamedAsIndexed ==
  ASSUME NEW old, NEW t \in Tables, Cardinality(DOMAIN NewRows(t)) = Len(t.rows)
  PROVE  StreamedDeltas(old, t) = Deltas(old, t)
<1> DEFINE I == DOMAIN t.rows
           f == [i \in I |-> RowKey(t, i)]
           keys == RowKeys(t)
<1>1. Len(t.rows) \in Nat /\ I = 1 .. Len(t.rows)
  BY TableRows
<1>2. IsFiniteSet(I) /\ Cardinality(I) = Len(t.rows)
  BY <1>1, FS_Interval
<1>3. f \in Surjection(I, keys)
  BY DEF Surjection, RowKeys
<1>4. DOMAIN NewRows(t) = keys
  BY DEF NewRows
<1>5. \A i, j \in I : RowKey(t, i) = RowKey(t, j) => i = j
  <2>1. f \in Injection(I, keys)
    BY <1>2, <1>3, <1>4, FS_Surjection
  <2> QED BY <2>1 DEF Injection, IsInjective
<1>6. ASSUME NEW i \in I PROVE RowKey(t, i) \in keys /\ NewRows(t)[RowKey(t, i)] = CellsOf(t, i)
  <2>1. LastRow(t, RowKey(t, i)) = i
    <3>1. \A j \in I : RowKey(t, j) = RowKey(t, i) => j <= i
      BY <1>1, <1>5
    <3> QED BY <1>5, <3>1 DEF LastRow
  <2>2. RowKey(t, i) \in keys
    BY DEF RowKeys
  <2> QED BY <2>1, <2>2 DEF NewRows
<1>7. \A rk \in keys : \E i \in I : rk = RowKey(t, i)
  BY DEF RowKeys
<1> DEFINE D(rk, cells) == DiffRow(old, rk, cells)
           gone == Vanished(old, keys)
<1>8. /\ StreamedDeltas(old, t) = (UNION {D(RowKey(t, i), CellsOf(t, i)) : i \in I}) \cup gone
      /\ Deltas(old, t) = (UNION {D(rk, NewRows(t)[rk]) : rk \in keys}) \cup gone
  BY DEF StreamedDeltas, Deltas
<1> HIDE DEF D, gone, keys, I
<1>9. UNION {D(RowKey(t, i), CellsOf(t, i)) : i \in I} = UNION {D(rk, NewRows(t)[rk]) : rk \in keys}
  BY <1>6, <1>7
<1> QED BY <1>8, <1>9

-----------------------------------------------------------------------------
(* The invariant.                                                          *)

Lines == [cycle : Nat, file : Tables]

\* What the ingest in progress works on, and how far the ledger, the mirror's
\* files and the manifest have come with it.
InFlight ==
  step # "idle" =>
    /\ inflight.cycle = saved.cycle + 1 /\ saved.cycle < MaxCycle
    /\ inflight.table \in Tables
    /\ inflight.rows = NewRows(inflight.table)
    /\ inflight.deltas = Deltas(saved.rows, inflight.table)
    /\ step # "pulled" => Registered(inflight.deltas) \subseteq atoms
    /\ step \in {"writing", "written", "mirrored"} => inflight.table \in DOMAIN files
    /\ step = "mirrored" =>
         /\ manifest # <<>>
         /\ manifest[Len(manifest)] = [cycle |-> inflight.cycle, file |-> inflight.table]

CInv ==
  /\ MirrorMatchesState
  /\ manifest \in Seq(Lines) /\ saved.cycle \in Nat
  /\ InFlight
  /\ StateIsRegistered

LEMMA CTypes ==
  ASSUME CInv
  PROVE  /\ manifest \in Seq(Lines) /\ Len(manifest) \in Nat /\ DOMAIN manifest = 1 .. Len(manifest)
         /\ saved.cycle \in Nat /\ MaxCycle \in Nat /\ saved.cycle <= MaxCycle
         /\ step \in {"idle", "pulled", "registered", "writing", "written", "mirrored"}
BY BoundAssumption DEF CInv, MirrorMatchesState, TypeOK

\* The mirror is looked at for the persisted cycle only.
LEMMA MirrorFrame ==
  ASSUME CInv, saved' = saved,
         \/ manifest' = manifest
         \/ \E line \in Lines : line.cycle # saved.cycle /\ manifest' = Append(manifest, line)
  PROVE  /\ manifest' \in Seq(Lines)
         /\ saved.cycle > 0 =>
              \E i \in LinesOf(saved.cycle)' :
                /\ \A j \in LinesOf(saved.cycle)' : j <= i
                /\ NewRows(manifest'[i].file) = saved.rows
<1>1. CASE manifest' = manifest
  BY <1>1 DEF CInv, MirrorMatchesState, LinesOf
<1>2. ASSUME NEW line \in Lines, line.cycle # saved.cycle, manifest' = Append(manifest, line)
      PROVE  /\ manifest' \in Seq(Lines)
             /\ LinesOf(saved.cycle)' = LinesOf(saved.cycle)
             /\ \A i \in LinesOf(saved.cycle) : manifest'[i] = manifest[i]
  <2>0. manifest \in Seq(Lines)
    BY CTypes
  <2>1. /\ manifest' \in Seq(Lines) /\ Len(manifest') = Len(manifest) + 1
        /\ DOMAIN manifest' = 1 .. Len(manifest) + 1
        /\ \A i \in 1 .. Len(manifest) : manifest'[i] = manifest[i]
        /\ manifest'[Len(manifest) + 1] = line
    BY <1>2, <2>0
  <2>2. \A i \in DOMAIN manifest' : i \in DOMAIN manifest \/ i = Len(manifest) + 1
    BY <2>1, CTypes
  <2>3. DOMAIN manifest \subseteq DOMAIN manifest'
    BY <2>1, CTypes
  <2>4. \A i : i \in LinesOf(saved.cycle)' <=> i \in DOMAIN manifest' /\ manifest'[i].cycle = saved.cycle
    BY DEF LinesOf
  <2>5. \A i : i \in LinesOf(saved.cycle) <=> i \in DOMAIN manifest /\ manifest[i].cycle = saved.cycle
    BY DEF LinesOf
  <2>6. \A i \in DOMAIN manifest : manifest'[i] = manifest[i]
    BY <2>1, CTypes
  <2>7. ASSUME NEW i PROVE i \in LinesOf(saved.cycle)' <=> i \in LinesOf(saved.cycle)
    BY <1>2, <2>1, <2>2, <2>3, <2>4, <2>5, <2>6
  <2> QED BY <2>1, <2>5, <2>6, <2>7
<1>3. CASE \E line \in Lines : line.cycle # saved.cycle /\ manifest' = Append(manifest, line)
  BY <1>2, <1>3 DEF CInv, MirrorMatchesState
<1> QED BY <1>1, <1>3

\* A stopped or idle process has no ingest.
LEMMA RecordIsNotEmpty ==
  ASSUME NEW a, NEW b, NEW c, NEW d
  PROVE  [cycle |-> a, table |-> b, rows |-> c, deltas |-> d] # <<>>
<1>1. "cycle" \in DOMAIN [cycle |-> a, table |-> b, rows |-> c, deltas |-> d]
  OBVIOUS
<1>2. DOMAIN <<>> = {}
  OBVIOUS
<1> QED BY <1>1, <1>2

LEMMA InitCInv ==
  ASSUME Init PROVE CInv
<1>1. TypeOK
  BY BoundAssumption DEF Init, TypeOK
<1>2. AtomsOf(saved.rows) = {}
  BY DEF Init, NoRows, AtomsOf
<1> QED BY <1>1, <1>2 DEF Init, CInv, InFlight, MirrorMatchesState, StateIsRegistered

LEMMA NextCInv ==
  ASSUME CInv, [Next]_vars PROVE CInv'
<1>t. TypeOK
  BY DEF CInv, MirrorMatchesState
<1>1. ASSUME NEW t \in Tables, Pull(t) PROVE CInv'
  <2>1. /\ saved' = saved /\ atoms' = atoms /\ files' = files /\ manifest' = manifest
        /\ step = "idle" /\ step' = "pulled" /\ saved.cycle < MaxCycle
        /\ inflight' = [cycle |-> saved.cycle + 1, table |-> t, rows |-> NewRows(t),
                        deltas |-> Deltas(saved.rows, t)]
    BY <1>1 DEF Pull
  <2>2. inflight' # <<>>
    BY <2>1, RecordIsNotEmpty
  <2>3. TypeOK'
    BY <1>t, <2>1, <2>2 DEF TypeOK
  <2>4. InFlight'
    BY <2>1 DEF InFlight
  <2> QED BY <2>1, <2>3, <2>4, MirrorFrame DEF CInv, MirrorMatchesState, StateIsRegistered
<1>2. ASSUME Register PROVE CInv'
  <2>1. /\ step = "pulled" /\ atoms' = atoms \cup Registered(inflight.deltas) /\ step' = "registered"
        /\ saved' = saved /\ inflight' = inflight /\ files' = files /\ manifest' = manifest
    BY <1>2 DEF Register
  <2>2. TypeOK'
    BY <1>t, <2>1 DEF TypeOK
  <2>3. InFlight'
    BY <2>1 DEF InFlight, CInv
  <2> QED BY <2>1, <2>2, <2>3, MirrorFrame DEF CInv, MirrorMatchesState, StateIsRegistered
<1>3. ASSUME OpenFile \/ FillFile \/ KeepFile PROVE CInv'
  <2>1. /\ step \in {"registered", "writing"} /\ step' \in {"writing", "written"}
        /\ saved' = saved /\ inflight' = inflight /\ atoms' = atoms /\ manifest' = manifest
        /\ DOMAIN files' = DOMAIN files \cup {inflight.table} /\ inflight.table \in Tables
    <3>1. step \in {"registered", "writing"} /\ inflight.table \in Tables
          /\ (step = "writing" => inflight.table \in DOMAIN files)
      BY <1>3 DEF OpenFile, FillFile, KeepFile, CInv, InFlight
    <3>2. CASE OpenFile
      BY <3>1, <3>2 DEF OpenFile
    <3>3. CASE FillFile
      BY <3>1, <3>3 DEF FillFile
    <3>4. CASE KeepFile
      BY <3>1, <3>4 DEF KeepFile
    <3> QED BY <1>3, <3>2, <3>3, <3>4
  <2>2. TypeOK'
    BY <1>t, <2>1 DEF TypeOK
  <2>3. InFlight'
    BY <2>1 DEF InFlight, CInv
  <2> QED BY <2>1, <2>2, <2>3, MirrorFrame DEF CInv, MirrorMatchesState, StateIsRegistered
<1>4. ASSUME AppendLine PROVE CInv'
  <2> DEFINE line == [cycle |-> inflight.cycle, file |-> inflight.table]
  <2>1. /\ step = "written" /\ manifest' = Append(manifest, line) /\ step' = "mirrored"
        /\ saved' = saved /\ inflight' = inflight /\ atoms' = atoms /\ files' = files
    BY <1>4 DEF AppendLine
  <2>2. inflight.cycle = saved.cycle + 1 /\ inflight.table \in Tables /\ inflight.table \in DOMAIN files
    BY <2>1 DEF CInv, InFlight
  <2>3. line \in Lines /\ line.cycle # saved.cycle /\ line.file \in DOMAIN files
    BY <2>2, CTypes DEF Lines
  <2> HIDE DEF line
  <2>4. /\ DOMAIN manifest' = 1 .. Len(manifest) + 1 /\ Len(manifest') = Len(manifest) + 1
        /\ \A i \in DOMAIN manifest : manifest'[i] = manifest[i]
        /\ manifest'[Len(manifest) + 1] = line /\ manifest' # <<>>
    BY <2>1, <2>3, CTypes
  <2>5. ASSUME NEW i \in DOMAIN manifest' PROVE manifest'[i].file \in DOMAIN files
    <3>1. i \in DOMAIN manifest \/ i = Len(manifest) + 1
      BY <2>4, CTypes
    <3> QED BY <1>t, <2>3, <2>4, <3>1 DEF TypeOK
  <2>6. TypeOK'
    BY <1>t, <2>1, <2>5 DEF TypeOK
  <2>7. InFlight'
    BY <2>1, <2>4 DEF InFlight, CInv, line
  <2> QED BY <2>1, <2>3, <2>6, <2>7, MirrorFrame DEF CInv, MirrorMatchesState, StateIsRegistered
<1>5. ASSUME Persist PROVE CInv'
  <2>1. /\ step = "mirrored" /\ inflight' = <<>> /\ step' = "idle"
        /\ saved' = [cycle |-> inflight.cycle, rows |-> inflight.rows]
        /\ atoms' = atoms /\ files' = files /\ manifest' = manifest
    BY <1>5 DEF Persist, SavedRows
  <2>2. /\ inflight.cycle = saved.cycle + 1 /\ saved.cycle < MaxCycle
        /\ inflight.rows = NewRows(inflight.table)
        /\ inflight.deltas = Deltas(saved.rows, inflight.table)
        /\ Registered(inflight.deltas) \subseteq atoms
        /\ manifest # <<>> /\ manifest[Len(manifest)] = [cycle |-> inflight.cycle, file |-> inflight.table]
    BY <2>1 DEF CInv, InFlight
  <2>3. saved'.cycle = saved.cycle + 1 /\ saved'.rows = NewRows(inflight.table)
    BY <2>1, <2>2
  <2>4. AtomsOf(saved'.rows) \subseteq atoms
    <3>1. Replayed(saved.rows, inflight.deltas) = AtomsOf(saved'.rows)
      BY <2>2, <2>3, DeltasRebuild
    <3> QED BY <2>2, <3>1 DEF CInv, StateIsRegistered, Replayed
  <2>5. TypeOK'
    BY <1>t, <2>1, <2>2, <2>3, CTypes DEF TypeOK
  <2> DEFINE last == Len(manifest)
  <2>6. last \in LinesOf(saved.cycle)' /\ \A j \in LinesOf(saved.cycle)' : j <= last
    <3>1. last \in DOMAIN manifest /\ \A j \in DOMAIN manifest : j <= last
      BY <2>2, CTypes
    <3> QED BY <2>1, <2>2, <2>3, <3>1 DEF LinesOf
  <2>7. NewRows(manifest'[last].file) = saved'.rows
    BY <2>1, <2>2, <2>3
  <2>8. MirrorMatchesState'
    BY <2>5, <2>6, <2>7 DEF MirrorMatchesState
  <2>9. InFlight'
    BY <2>1 DEF InFlight
  <2>10. saved'.cycle \in Nat /\ manifest' \in Seq(Lines)
    BY <2>1, <2>3, CTypes
  <2> QED BY <2>1, <2>4, <2>8, <2>9, <2>10 DEF CInv, StateIsRegistered
<1>6. ASSUME Stop PROVE CInv'
  <2>1. /\ inflight' = <<>> /\ step' = "idle"
        /\ saved' = saved /\ atoms' = atoms /\ files' = files /\ manifest' = manifest
    BY <1>6 DEF Stop
  <2>2. TypeOK' /\ InFlight'
    BY <1>t, <2>1 DEF TypeOK, InFlight
  <2> QED BY <2>1, <2>2, MirrorFrame DEF CInv, MirrorMatchesState, StateIsRegistered
<1>7. CASE UNCHANGED vars
  <2>1. /\ inflight' = inflight /\ step' = step
        /\ saved' = saved /\ atoms' = atoms /\ files' = files /\ manifest' = manifest
    BY <1>7 DEF vars
  <2>2. TypeOK' /\ InFlight'
    BY <1>t, <2>1 DEF TypeOK, InFlight, CInv
  <2> QED BY <2>1, <2>2, MirrorFrame DEF CInv, MirrorMatchesState, StateIsRegistered
<1>8. CASE Done
  BY <1>7, <1>8 DEF Done
<1> QED BY <1>1, <1>2, <1>3, <1>4, <1>5, <1>6, <1>7, <1>8 DEF Next

-----------------------------------------------------------------------------
(* The theorems.                                                           *)

\* The state, the ledger and the mirror agree, for any tables and wherever an
\* ingest is cut off (ingest, cli.py, largecsv.py).
THEOREM CaptureInvariance == Spec => []CInv
<1>1. Init => CInv
  BY InitCInv
<1>2. CInv /\ [Next]_vars => CInv'
  BY NextCInv
<1> QED BY <1>1, <1>2, PTL DEF Spec

\* Every cell of the persisted state is a registered atom (ingest: the deltas are
\* registered before the state is written).
THEOREM StateStaysRegistered == Spec => []StateIsRegistered
<1>1. CInv => StateIsRegistered
  BY DEF CInv
<1> QED BY <1>1, CaptureInvariance, PTL

\* The last manifest line of the persisted cycle names the table that the state
\* was read from, also when ingests of that cycle were cut off (write_snapshot,
\* read_snapshot).
THEOREM MirrorStaysCurrent == Spec => []MirrorMatchesState
<1>1. CInv => MirrorMatchesState
  BY DEF CInv
<1> QED BY <1>1, CaptureInvariance, PTL

\* The deltas of a pull rebuild the snapshot from the old one and supersede what
\* is gone and nothing else, for any rows, repeated and keyless ones included
\* (CsvConnector.pull).
THEOREM PullsAreExact == Spec => []PullExact
<1>1. CInv => PullExact
  BY DeltasRebuild, DeltasSupersede DEF CInv, InFlight, PullExact, DeltasComplete, SupersessionExact
<1> QED BY <1>1, CaptureInvariance, PTL

\* Rows with one base are numbered one after the other, so that each row keeps a key
\* of its own, unless rows of different bases clash.
LEMMA RowsApart ==
  ASSUME NEW t \in Tables, ~Clash(t)
  PROVE  Cardinality(RowKeys(t)) = Len(t.rows)
<1> DEFINE n == Len(t.rows)
           SameBase(i, j) == {k \in 1 .. i : Base(t, k) = Base(t, j)}
<1>1. n \in Nat /\ DOMAIN t.rows = 1 .. n
  BY TableRows
<1> HIDE DEF n
<1>2. ASSUME NEW i \in 1 .. n, NEW j \in 1 .. n
      PROVE  IsFiniteSet(SameBase(i, j)) /\ Cardinality(SameBase(i, j)) \in 0 .. i
  <2>1. IsFiniteSet(1 .. i) /\ Cardinality(1 .. i) = i
    BY <1>1, FS_Interval
  <2>2. SameBase(i, j) \subseteq 1 .. i
    OBVIOUS
  <2> HIDE DEF SameBase
  <2>3. IsFiniteSet(SameBase(i, j)) /\ Cardinality(SameBase(i, j)) <= i
    BY <2>1, <2>2, FS_Subset
  <2> QED BY <1>1, <2>3, FS_CardinalityType
<1>3. ASSUME NEW i \in 1 .. n PROVE Occurrence(t, i) \in 1 .. n
  <2>1. IsFiniteSet(SameBase(i, i)) /\ Cardinality(SameBase(i, i)) \in 0 .. i
    BY <1>2
  <2>2. i \in SameBase(i, i)
    BY <1>1
  <2>3. Cardinality(SameBase(i, i)) # 0
    <3> HIDE DEF SameBase
    <3> QED BY <2>1, <2>2, FS_EmptySet
  <2> QED BY <1>1, <2>1, <2>3 DEF Occurrence
<1>4. ASSUME NEW i \in 1 .. n, NEW j \in 1 .. n, i < j, Base(t, i) = Base(t, j)
      PROVE  Occurrence(t, i) # Occurrence(t, j)
  <2>1. SameBase(i, i) \subseteq SameBase(j, j) /\ j \in SameBase(j, j) /\ j \notin SameBase(i, i)
    BY <1>1, <1>4
  <2>2. IsFiniteSet(SameBase(j, j))
    BY <1>2
  <2>3. Cardinality(SameBase(i, i)) # Cardinality(SameBase(j, j))
    <3> HIDE DEF SameBase
    <3> QED BY <2>1, <2>2, FS_Subset
  <2> QED BY <2>3 DEF Occurrence
<1>5. ASSUME NEW i \in 1 .. n, NEW j \in 1 .. n, RowKey(t, i) = RowKey(t, j)
      PROVE  i = j
  <2>1. Base(t, i) = Base(t, j)
    BY <1>1, <1>5 DEF Clash
  <2>2. Numbered(Base(t, i), Occurrence(t, i)) = Numbered(Base(t, i), Occurrence(t, j))
    BY <1>5, <2>1 DEF RowKey
  <2>3. Occurrence(t, i) = Occurrence(t, j)
    BY <1>1, <1>3, <2>2, NumbersAssumption
  <2>4. ~(i < j) /\ ~(j < i)
    BY <1>4, <2>1, <2>3
  <2> QED BY <1>1, <2>4
<1> DEFINE f == [i \in 1 .. n |-> RowKey(t, i)]
<1>6. f \in Bijection(1 .. n, RowKeys(t))
  BY <1>1, <1>5 DEF RowKeys, Bijection, Injection, IsInjective, Surjection
<1>7. IsFiniteSet(1 .. n) /\ Cardinality(1 .. n) = n
  BY <1>1, FS_Interval
<1> HIDE DEF f
<1>8. ExistsBijection(1 .. n, RowKeys(t))
  BY <1>6 DEF ExistsBijection
<1> QED BY <1>7, <1>8, FS_Bijection DEF n

\* The connector that streams, which has no index, emits all that the one that
\* indexes does, whatever row keys fall together; and the same, with no row lost in
\* the index, unless rows of different keys share one (LargeCsvConnector.pull).
THEOREM StreamingAlwaysAgrees == Spec => []StreamingAgrees
<1>1. CInv => StreamingAgrees
  <2> SUFFICES ASSUME CInv, step # "idle"
               PROVE  /\ inflight.deltas \subseteq StreamedDeltas(saved.rows, inflight.table)
                      /\ ~Clash(inflight.table) =>
                           /\ StreamedDeltas(saved.rows, inflight.table) = inflight.deltas
                           /\ Cardinality(DOMAIN inflight.rows) = Len(inflight.table.rows)
    BY DEF StreamingAgrees
  <2>1. /\ inflight.table \in Tables /\ inflight.rows = NewRows(inflight.table)
        /\ inflight.deltas = Deltas(saved.rows, inflight.table)
    BY DEF CInv, InFlight
  <2>2. DOMAIN inflight.rows = RowKeys(inflight.table)
    BY <2>1 DEF NewRows
  <2>3. ~Clash(inflight.table) => Cardinality(DOMAIN inflight.rows) = Len(inflight.table.rows)
    BY <2>1, <2>2, RowsApart
  <2>4. ~Clash(inflight.table) => StreamedDeltas(saved.rows, inflight.table) = inflight.deltas
    BY <2>1, <2>3, StreamedAsIndexed
  <2> QED BY <2>1, <2>3, <2>4, DeltasAmongStreamed
<1> QED BY <1>1, CaptureInvariance, PTL

-----------------------------------------------------------------------------
(* TransformRuns.  Its invariant TInv says, besides the types, that every   *)
(* memo entry is what the body computes (MemoSound), that the tables of a   *)
(* run are those of the nodes behind it (RunTables), why each node has its  *)
(* status (NodeStatus), that the tables of a covering run are those of a    *)
(* full one (RunExact), and that what no run has touched since the last     *)
(* exact one is as that one left it (SettledInv), on which a node that is   *)
(* not visited relies.                                                      *)

-----------------------------------------------------------------------------
(* The order of the transforms.                                            *)

Injective(s) == \A i, j \in DOMAIN s : s[i] = s[j] => i = j

\* Transforms without repetition, each after those it needs among defs.
UpstreamFirst(order, defs) ==
  \A i \in DOMAIN order, e \in defs :
    e.output \in order[i].inputs => \E j \in DOMAIN order : j < i /\ order[j] = e
Ordered(order, defs) ==
  order \in Seq(defs) /\ Injective(order) /\ UpstreamFirst(order, defs)

\* All of them.
Sorted(order, defs) == Ordered(order, defs) /\ Range(order) = defs

OneOutput(defs) == \A d, e \in defs : d.output = e.output => d = e

\* A sequence without repetition has as many elements as places.
LEMMA DistinctCount ==
  ASSUME NEW S, NEW s \in Seq(S), Injective(s)
  PROVE  IsFiniteSet(Range(s)) /\ Cardinality(Range(s)) = Len(s)
<1>1. DOMAIN s = 1 .. Len(s) /\ Len(s) \in Nat
  OBVIOUS
<1>2. IsFiniteSet(1 .. Len(s)) /\ Cardinality(1 .. Len(s)) = Len(s)
  BY <1>1, FS_Interval
<1> DEFINE f == [i \in 1 .. Len(s) |-> s[i]]
<1>3. f \in Bijection(1 .. Len(s), Range(s))
  BY <1>1 DEF Injective, Range, Bijection, Injection, IsInjective, Surjection
<1> HIDE DEF f
<1>4. ExistsBijection(1 .. Len(s), Range(s))
  BY <1>3 DEF ExistsBijection
<1> QED BY <1>2, <1>4, FS_Bijection

\* A transform joins the order in its place.
LEMMA JoinedOrdered ==
  ASSUME NEW order, Ordered(order, Active), NEW d \in Active
  PROVE  Ordered(Joined(order, d), Active)
<1>1. CASE ~(d \notin Range(order) /\ Upstream(d) \subseteq Range(order))
  BY <1>1 DEF Joined
<1>2. CASE d \notin Range(order) /\ Upstream(d) \subseteq Range(order)
  <2> DEFINE n == Len(order)
             longer == Append(order, d)
  <2>1. Joined(order, d) = longer
    BY <1>2 DEF Joined
  <2>2. order \in Seq(Active) /\ n \in Nat /\ DOMAIN order = 1 .. n
    BY DEF Ordered
  <2>3. /\ longer \in Seq(Active) /\ DOMAIN longer = 1 .. n + 1
        /\ \A i \in 1 .. n : longer[i] = order[i]
        /\ longer[n + 1] = d
    BY <2>2
  <2> HIDE DEF longer, n
  <2>4. \A i \in 1 .. n : order[i] # d
    BY <1>2, <2>2 DEF Range
  <2>5. Injective(longer)
    <3> SUFFICES ASSUME NEW i \in 1 .. n + 1, NEW j \in 1 .. n + 1, longer[i] = longer[j]
                 PROVE  i = j
      BY <2>3 DEF Injective
    <3>1. CASE i \in 1 .. n /\ j \in 1 .. n
      BY <2>2, <2>3, <3>1 DEF Ordered, Injective
    <3>2. CASE i = n + 1 \/ j = n + 1
      <4>1. \A k \in 1 .. n + 1 : k # n + 1 => k \in 1 .. n
        BY <2>2
      <4> QED BY <2>3, <2>4, <3>2, <4>1
    <3> QED BY <2>2, <3>1, <3>2
  <2>6. UpstreamFirst(longer, Active)
    <3> SUFFICES ASSUME NEW i \in 1 .. n + 1, NEW e \in Active, e.output \in longer[i].inputs
                 PROVE  \E j \in 1 .. n + 1 : j < i /\ longer[j] = e
      BY <2>3 DEF UpstreamFirst
    <3>1. CASE i \in 1 .. n
      <4>1. PICK j \in 1 .. n : j < i /\ order[j] = e
        BY <2>2, <2>3, <3>1 DEF Ordered, UpstreamFirst
      <4>2. j \in 1 .. n + 1
        BY <2>2
      <4> QED BY <2>3, <4>1, <4>2
    <3>2. CASE i = n + 1
      <4>1. e \in Upstream(d)
        BY <2>3, <3>2 DEF Upstream
      <4>2. PICK j \in 1 .. n : order[j] = e
        BY <1>2, <2>2, <4>1 DEF Range
      <4>3. j \in 1 .. n + 1 /\ j < n + 1
        BY <2>2
      <4> QED BY <2>3, <3>2, <4>2, <4>3
    <3> QED BY <2>2, <3>1, <3>2
  <2> QED BY <2>1, <2>3, <2>5, <2>6 DEF Ordered
<1> QED BY <1>1, <1>2

Orders == {order \in Seq(Active) : Ordered(order, Active)}

\* A pass keeps the order.
LEMMA PassOrdered ==
  ASSUME active \in Seq(Transforms), NEW order \in Orders
  PROVE  TopoPass(order) \in Orders
<1> DEFINE n == Len(active)
           F == [i \in 1 .. n |-> [x \in Orders |-> Joined(x, active[i])]]
           Body(g) == [i \in 0 .. n |-> IF i = 0 THEN order ELSE Joined(g[i - 1], active[i])]
<1>1. n \in Nat /\ \A i \in 1 .. n : active[i] \in Active
  BY DEF Active, Range
<1>2. \A i \in 1 .. n : \A x \in Orders : Joined(x, active[i]) \in Orders
  BY <1>1, JoinedOrdered DEF Orders, Ordered
<1>3. \A i \in 1 .. n : \A x \in Orders : F[i][x] = Joined(x, active[i]) /\ F[i][x] \in Orders
  BY <1>2
<1> HIDE DEF F, n
<1>4. PICK g : Recorded(g, n, Orders, order, F)
  BY <1>1, <1>3, StagesOf
<1>5. g \in [0 .. n -> Orders] /\ g[0] = order /\ \A i \in 1 .. n : g[i] = Joined(g[i - 1], active[i])
  <2>1. g \in [0 .. n -> Orders] /\ g[0] = order /\ \A i \in 1 .. n : g[i] = F[i][g[i - 1]]
    BY <1>4 DEF Recorded
  <2>2. \A i \in 1 .. n : i - 1 \in 0 .. n
    BY <1>1
  <2> QED BY <1>3, <2>1, <2>2
<1>6. g = Body(g)
  <2>1. \A i \in 0 .. n : i # 0 => i \in 1 .. n
    BY <1>1
  <2> QED BY <1>5, <2>1
<1> DEFINE h == CHOOSE f : f = Body(f)
<1>7. h = Body(h)
  BY <1>6
<1>8. TopoPass(order) = h[n]
  BY DEF TopoPass, n
<1> HIDE DEF h
<1> DEFINE Good == {i \in 0 .. n : h[i] \in Orders}
<1>9. 0 \in Good
  BY <1>1, <1>7
<1>10. ASSUME NEW i \in 1 .. n, i - 1 \in Good PROVE i \in Good
  <2>1. i \in 0 .. n /\ i # 0
    BY <1>1
  <2>2. h[i] = Joined(h[i - 1], active[i])
    BY <1>7, <2>1
  <2> QED BY <1>2, <1>10, <2>1, <2>2
<1> HIDE DEF Good
<1>11. n \in Good
  BY <1>1, <1>9, <1>10, StageInduction
<1> QED BY <1>8, <1>11 DEF Good

\* All the passes do, and if they reach every transform, it is an order of them.
LEMMA OrderSorted ==
  ASSUME active \in Seq(Transforms), Injective(active), ~Cyclic
  PROVE  Sorted(TopoOrder, Active)
<1> DEFINE n == Len(active)
           F == [i \in 1 .. n |-> [x \in Orders |-> TopoPass(x)]]
           Body(g) == [i \in 0 .. n |-> IF i = 0 THEN <<>> ELSE TopoPass(g[i - 1])]
<1>1. n \in Nat
  OBVIOUS
<1>2. \A x \in Orders : TopoPass(x) \in Orders
  BY PassOrdered
<1>3. <<>> \in Orders
  BY DEF Orders, Ordered, Injective, UpstreamFirst
<1>4. \A i \in 1 .. n : \A x \in Orders : F[i][x] = TopoPass(x) /\ F[i][x] \in Orders
  BY <1>2
<1> HIDE DEF F, n
<1>5. PICK g : Recorded(g, n, Orders, <<>>, F)
  BY <1>1, <1>3, <1>4, StagesOf
<1>6. g \in [0 .. n -> Orders] /\ g[0] = <<>> /\ \A i \in 1 .. n : g[i] = TopoPass(g[i - 1])
  <2>1. g \in [0 .. n -> Orders] /\ g[0] = <<>> /\ \A i \in 1 .. n : g[i] = F[i][g[i - 1]]
    BY <1>5 DEF Recorded
  <2>2. \A i \in 1 .. n : i - 1 \in 0 .. n
    BY <1>1
  <2> QED BY <1>4, <2>1, <2>2
<1>7. g = Body(g)
  <2>1. \A i \in 0 .. n : i # 0 => i \in 1 .. n
    BY <1>1
  <2> QED BY <1>6, <2>1
<1> DEFINE h == CHOOSE f : f = Body(f)
<1>8. h = Body(h)
  BY <1>7
<1>9. TopoOrder = h[n]
  BY DEF TopoOrder, n
<1> HIDE DEF h
<1> DEFINE Good == {i \in 0 .. n : h[i] \in Orders}
<1>10. 0 \in Good
  BY <1>1, <1>3, <1>8
<1>11. ASSUME NEW i \in 1 .. n, i - 1 \in Good PROVE i \in Good
  <2>1. i \in 0 .. n /\ i # 0
    BY <1>1
  <2>2. h[i] = TopoPass(h[i - 1])
    BY <1>8, <2>1
  <2> QED BY <1>2, <1>11, <2>1, <2>2
<1> HIDE DEF Good
<1>12. n \in Good
  BY <1>1, <1>10, <1>11, StageInduction
<1>13. Ordered(TopoOrder, Active)
  BY <1>9, <1>12 DEF Good, Orders
<1>14. Len(TopoOrder) >= n /\ Len(TopoOrder) \in Nat
  BY <1>1, <1>13 DEF Cyclic, Ordered, n
<1>15. IsFiniteSet(Active) /\ Cardinality(Active) = n
  BY DistinctCount DEF Active, n
<1>16. Cardinality(Range(TopoOrder)) = Len(TopoOrder) /\ Range(TopoOrder) \subseteq Active
  <2>1. TopoOrder \in Seq(Active)
    BY <1>13 DEF Ordered
  <2>2. Range(TopoOrder) \subseteq Active
    BY <2>1 DEF Range
  <2> QED BY <1>13, <2>1, <2>2, DistinctCount DEF Ordered
<1>17. Cardinality(Range(TopoOrder)) <= n
  BY <1>15, <1>16, FS_Subset
<1>18. Range(TopoOrder) = Active
  <2>1. Cardinality(Range(TopoOrder)) = Cardinality(Active)
    BY <1>1, <1>14, <1>15, <1>16, <1>17
  <2> QED BY <1>15, <1>16, <2>1, FS_Subset
<1> QED BY <1>13, <1>18 DEF Sorted

\* The place of a transform in the order of all.
LEMMA Places ==
  ASSUME NEW defs, NEW order, Sorted(order, defs)
  PROVE  /\ order \in Seq(defs) /\ Len(order) \in Nat /\ DOMAIN order = 1 .. Len(order)
         /\ \A i, j \in DOMAIN order : order[i] = order[j] => i = j
         /\ \A d \in defs : \E i \in DOMAIN order : order[i] = d
         /\ \A i \in DOMAIN order : order[i] \in defs
         /\ \A i, j \in DOMAIN order : order[j].output \in order[i].inputs => j < i
         /\ IsFiniteSet(defs) /\ Cardinality(defs) = Len(order)
<1>1. order \in Seq(defs) /\ Injective(order) /\ UpstreamFirst(order, defs) /\ Range(order) = defs
  BY DEF Sorted, Ordered
<1>2. Len(order) \in Nat /\ DOMAIN order = 1 .. Len(order)
  BY <1>1
<1>3. \A i \in DOMAIN order : order[i] \in defs
  BY <1>1
<1>4. \A d \in defs : \E i \in DOMAIN order : order[i] = d
  BY <1>1 DEF Range
<1>5. ASSUME NEW i \in DOMAIN order, NEW j \in DOMAIN order, order[j].output \in order[i].inputs
      PROVE  j < i
  <2>1. PICK k \in DOMAIN order : k < i /\ order[k] = order[j]
    BY <1>1, <1>3, <1>5 DEF UpstreamFirst
  <2>2. k = j
    BY <1>1, <2>1 DEF Injective
  <2> QED BY <2>1, <2>2
<1>6. IsFiniteSet(defs) /\ Cardinality(defs) = Len(order)
  BY <1>1, DistinctCount
<1> QED BY <1>1, <1>2, <1>3, <1>4, <1>5, <1>6 DEF Injective

-----------------------------------------------------------------------------
(* What a full run computes.                                               *)

\* Every step of the evaluation.
LEMMA EvaluatedStages ==
  ASSUME NEW defs, NEW given, Cardinality(defs) \in Nat
  PROVE  \E g : /\ g[0] = given
                /\ \A i \in 1 .. Cardinality(defs) : g[i] = Evaluation(defs, given, g[i - 1])
                /\ Evaluated(defs, given) = g[Cardinality(defs)]
<1> DEFINE n == Cardinality(defs)
           Body(g) == [i \in 0 .. n |-> IF i = 0 THEN given ELSE Evaluation(defs, given, g[i - 1])]
           Begun(k) == \E g : g[0] = given /\ \A i \in 1 .. k : g[i] = Evaluation(defs, given, g[i - 1])
           Good == {k \in 0 .. n : Begun(k)}
<1> HIDE DEF n
<1>1. n \in Nat
  BY DEF n
<1>2. 0 \in Good
  <2> DEFINE g == [i \in {0} |-> given]
  <2>1. g[0] = given /\ \A i \in 1 .. 0 : g[i] = Evaluation(defs, given, g[i - 1])
    OBVIOUS
  <2> HIDE DEF g
  <2>2. Begun(0) /\ 0 \in 0 .. n
    BY <1>1, <2>1
  <2> HIDE DEF Begun
  <2> QED BY <2>2
<1>3. ASSUME NEW k \in 1 .. n, k - 1 \in Good PROVE k \in Good
  <2>1. PICK g : g[0] = given /\ \A i \in 1 .. k - 1 : g[i] = Evaluation(defs, given, g[i - 1])
    BY <1>3
  <2> DEFINE h == [i \in 0 .. k |-> IF i = k THEN Evaluation(defs, given, g[k - 1]) ELSE g[i]]
  <2>2. \A i \in 0 .. k - 1 : i \in 0 .. k /\ i # k
    BY <1>1
  <2>3. \A i \in 0 .. k - 1 : h[i] = g[i]
    BY <2>2
  <2>4. k \in 0 .. k /\ 0 \in 0 .. k - 1 /\ k - 1 \in 0 .. k - 1 /\ k \in 0 .. n
    BY <1>1
  <2>5. h[k] = Evaluation(defs, given, g[k - 1])
    BY <2>4
  <2> HIDE DEF h
  <2>6. h[0] = given
    BY <2>1, <2>3, <2>4
  <2>7. ASSUME NEW i \in 1 .. k PROVE h[i] = Evaluation(defs, given, h[i - 1])
    <3>1. CASE i = k
      BY <2>3, <2>4, <2>5, <3>1
    <3>2. CASE i # k
      <4>1. i \in 1 .. k - 1 /\ i \in 0 .. k - 1 /\ i - 1 \in 0 .. k - 1
        BY <3>2
      <4> QED BY <2>1, <2>3, <4>1
    <3> QED BY <3>1, <3>2
  <2>8. Begun(k)
    BY <2>6, <2>7
  <2> QED BY <2>4, <2>8
<1> HIDE DEF Good
<1>4. n \in Good
  BY <1>1, <1>2, <1>3, StageInduction
<1>5. PICK g : g[0] = given /\ \A i \in 1 .. n : g[i] = Evaluation(defs, given, g[i - 1])
  BY <1>4 DEF Good
<1> DEFINE f == [i \in 0 .. n |-> g[i]]
<1>6. f = Body(f)
  <2>1. \A i \in 0 .. n : f[i] = g[i]
    OBVIOUS
  <2>2. ASSUME NEW i \in 0 .. n
        PROVE  f[i] = IF i = 0 THEN given ELSE Evaluation(defs, given, f[i - 1])
    <3>1. CASE i = 0
      BY <1>5, <2>1, <3>1
    <3>2. CASE i # 0
      <4>1. i \in 1 .. n /\ i - 1 \in 0 .. n
        BY <1>1, <3>2
      <4> HIDE DEF f
      <4> QED BY <1>5, <2>1, <3>2, <4>1
    <3> QED BY <3>1, <3>2
  <2>3. f = [i \in 0 .. n |-> f[i]]
    OBVIOUS
  <2> HIDE DEF f
  <2> QED BY <2>2, <2>3
<1> DEFINE h == CHOOSE x : x = Body(x)
<1> HIDE DEF f
<1>7. h = Body(h)
  BY <1>6
<1>8. Evaluated(defs, given) = h[n]
  BY DEF Evaluated, n
<1> HIDE DEF h
<1>9. h[0] = given
  BY <1>1, <1>7
<1>10. \A i \in 1 .. n : i \in 0 .. n /\ i # 0
  BY <1>1
<1>11. \A i \in 1 .. n : h[i] = Evaluation(defs, given, h[i - 1])
  BY <1>7, <1>10
<1> QED BY <1>8, <1>9, <1>11 DEF n

\* Tables that agree on what a body reads give the same output.
LEMMA SameReads ==
  ASSUME NEW d \in Transforms, NEW f, NEW g, \A x \in d.inputs : f[x] = g[x]
  PROVE  Applied(d, f) = Applied(d, g) /\ MemoKey(d, f) = MemoKey(d, g)
<1>1. \A x \in d.reads : f[x] = g[x]
  BY TransformsAssumption
<1> QED BY <1>1 DEF Applied, MemoKey, Restrict

OutputsOf(defs) == {d.output : d \in defs}

\* One step of the evaluation, table by table.
LEMMA EvaluationAt ==
  ASSUME NEW defs, OneOutput(defs), NEW given, NEW before
  PROVE  LET V == Evaluation(defs, given, before) IN
         /\ DOMAIN given \subseteq DOMAIN V
         /\ \A t : t \notin OutputsOf(defs) =>
              (t \in DOMAIN V <=> t \in DOMAIN given) /\ (t \in DOMAIN V => V[t] = given[t])
         /\ \A d \in defs :
              IF d.inputs \subseteq DOMAIN before
              THEN d.output \in DOMAIN V /\ V[d.output] = Applied(d, before)
              ELSE /\ d.output \in DOMAIN V <=> d.output \in DOMAIN given
                   /\ d.output \in DOMAIN V => V[d.output] = given[d.output]
<1> DEFINE V == Evaluation(defs, given, before)
           ready == {d \in defs : d.inputs \subseteq DOMAIN before}
           made == OutputsOf(ready)
           Maker(o) == CHOOSE d \in ready : d.output = o
<1>1. V = [t \in made \cup DOMAIN given |-> IF t \in made THEN Applied(Maker(t), before) ELSE given[t]]
  BY DEF Evaluation, OutputsOf
<1>2. \A d \in defs : d.output \in made <=> d \in ready
  BY DEF OneOutput, OutputsOf
<1>3. ASSUME NEW d \in ready PROVE Maker(d.output) = d
  <2>1. \A e \in ready : e.output = d.output => e = d
    BY DEF OneOutput
  <2> QED BY <1>3, <2>1
<1>4. made \subseteq OutputsOf(defs)
  BY DEF OutputsOf
<1> HIDE DEF V, made, Maker
<1>5. \A t : t \notin OutputsOf(defs) =>
        (t \in DOMAIN V <=> t \in DOMAIN given) /\ (t \in DOMAIN V => V[t] = given[t])
  BY <1>1, <1>4
<1>6. ASSUME NEW d \in defs
      PROVE  IF d.inputs \subseteq DOMAIN before
             THEN d.output \in DOMAIN V /\ V[d.output] = Applied(d, before)
             ELSE /\ d.output \in DOMAIN V <=> d.output \in DOMAIN given
                  /\ d.output \in DOMAIN V => V[d.output] = given[d.output]
  <2>1. CASE d \in ready
    BY <1>1, <1>2, <1>3, <2>1
  <2>2. CASE d \notin ready
    BY <1>1, <1>2, <2>2
  <2> QED BY <2>1, <2>2
<1>7. DOMAIN given \subseteq DOMAIN V
  BY <1>1
<1> QED BY <1>5, <1>6, <1>7 DEF V

\* f and g say the same of a table.
Agree(f, g, t) == (t \in DOMAIN f <=> t \in DOMAIN g) /\ (t \in DOMAIN f => f[t] = g[t])

\* A full run leaves given tables that nothing produces, and makes of every
\* transform whose inputs it has what the body computes from the tables at the end:
\* after n steps the first n transforms of the order have their outputs.
LEMMA FullRunEquations ==
  ASSUME NEW defs \in SUBSET Transforms, NEW order, Sorted(order, defs), OneOutput(defs), NEW given
  PROVE  LET E == Evaluated(defs, given) IN
         /\ DOMAIN given \subseteq DOMAIN E
         /\ DOMAIN E \subseteq DOMAIN given \cup OutputsOf(defs)
         /\ \A t \in DOMAIN given : t \notin OutputsOf(defs) => E[t] = given[t]
         /\ \A d \in defs : d.inputs \subseteq DOMAIN E =>
              d.output \in DOMAIN E /\ E[d.output] = Applied(d, E)
<1> DEFINE n == Len(order)
<1>1. /\ order \in Seq(defs) /\ n \in Nat /\ DOMAIN order = 1 .. n
      /\ \A d \in defs : \E i \in 1 .. n : order[i] = d
      /\ \A i \in 1 .. n : order[i] \in defs
      /\ \A i, j \in 1 .. n : order[j].output \in order[i].inputs => j < i
      /\ Cardinality(defs) = n
  BY Places
<1> HIDE DEF n
<1>2. PICK g : /\ g[0] = given
               /\ \A i \in 1 .. n : g[i] = Evaluation(defs, given, g[i - 1])
               /\ Evaluated(defs, given) = g[n]
  BY <1>1, EvaluatedStages
<1> DEFINE After(k, t) == \A j \in k + 1 .. n : order[j].output # t
           Good == {k \in 0 .. n : \A m \in k .. n : \A t : After(k, t) => Agree(g[k], g[m], t)}
\* What nothing produces stays as it was given.
<1>3. ASSUME NEW m \in 0 .. n, NEW t, t \notin OutputsOf(defs) PROVE Agree(given, g[m], t)
  <2>1. CASE m = 0
    BY <1>2, <2>1 DEF Agree
  <2>2. CASE m # 0
    <3>1. m \in 1 .. n
      BY <2>2
    <3>2. g[m] = Evaluation(defs, given, g[m - 1])
      BY <1>2, <3>1
    <3> QED BY <1>3, <3>2, EvaluationAt DEF Agree
  <2> QED BY <2>1, <2>2
<1>4. 0 \in Good
  <2> SUFFICES ASSUME NEW m \in 0 .. n, NEW t, After(0, t) PROVE Agree(g[0], g[m], t)
    BY <1>1
  <2>1. t \notin OutputsOf(defs)
    <3>1. \A j \in 1 .. n : j \in 0 + 1 .. n
      BY <1>1
    <3> QED BY <1>1, <3>1 DEF OutputsOf
  <2> QED BY <1>2, <1>3, <2>1
<1>5. ASSUME NEW k \in 1 .. n, k - 1 \in Good PROVE k \in Good
  <2>a. k \in 0 .. n
    BY <1>1
  <2> HIDE DEF After
  <2> SUFFICES ASSUME NEW m \in k .. n, NEW t, After(k, t) PROVE Agree(g[k], g[m], t)
    BY <2>a
  <2> USE DEF After
  <2>0. m \in 1 .. n /\ m - 1 \in k - 1 .. n /\ m \in 0 .. n /\ k \in 0 .. n
    BY <1>1
  <2>1. CASE t \notin OutputsOf(defs)
    <3>1. Agree(given, g[m], t) /\ Agree(given, g[k], t)
      BY <1>3, <2>0, <2>1
    <3> QED BY <3>1 DEF Agree
  <2>2. CASE t \in OutputsOf(defs)
    <3>1. PICK i \in 1 .. n : order[i].output = t
      BY <1>1, <2>2 DEF OutputsOf
    <3>2. i <= k
      <4>1. i \notin k + 1 .. n
        BY <3>1
      <4> QED BY <1>1, <4>1
    <3> DEFINE d == order[i]
    <3>3. d \in defs /\ d \in Transforms
      BY <1>1
    <3>4. ASSUME NEW x \in d.inputs PROVE Agree(g[k - 1], g[m - 1], x)
      <4>1. After(k - 1, x)
        <5> SUFFICES ASSUME NEW j \in (k - 1) + 1 .. n, order[j].output = x PROVE FALSE
          OBVIOUS
        <5>1. j \in 1 .. n /\ k <= j
          BY <1>1
        <5>2. j < i
          BY <1>1, <3>4, <5>1
        <5> QED BY <3>2, <5>1, <5>2
      <4> QED BY <1>5, <2>0, <4>1
    <3>5. g[k] = Evaluation(defs, given, g[k - 1]) /\ g[m] = Evaluation(defs, given, g[m - 1])
      BY <1>2, <2>0
    <3> HIDE DEF d
    <3>6. CASE d.inputs \subseteq DOMAIN g[k - 1]
      <4>1. d.inputs \subseteq DOMAIN g[m - 1] /\ \A x \in d.inputs : g[k - 1][x] = g[m - 1][x]
        BY <3>4, <3>6 DEF Agree
      <4>2. Applied(d, g[k - 1]) = Applied(d, g[m - 1])
        BY <3>3, <4>1, SameReads
      <4>3. d.output \in DOMAIN g[k] /\ g[k][d.output] = Applied(d, g[k - 1])
        BY <3>3, <3>5, <3>6, EvaluationAt
      <4>4. d.output \in DOMAIN g[m] /\ g[m][d.output] = Applied(d, g[m - 1])
        BY <3>3, <3>5, <4>1, EvaluationAt
      <4> QED BY <3>1, <4>2, <4>3, <4>4 DEF Agree, d
    <3>7. CASE ~(d.inputs \subseteq DOMAIN g[k - 1])
      <4>1. ~(d.inputs \subseteq DOMAIN g[m - 1])
        BY <3>4, <3>7 DEF Agree
      <4>2. Agree(given, g[k], d.output)
        BY <3>3, <3>5, <3>7, EvaluationAt DEF Agree
      <4>3. Agree(given, g[m], d.output)
        BY <3>3, <3>5, <4>1, EvaluationAt DEF Agree
      <4> QED BY <3>1, <4>2, <4>3 DEF Agree, d
    <3> QED BY <3>6, <3>7
  <2> QED BY <2>1, <2>2
<1>6. ASSUME NEW k \in 0 .. n PROVE k \in Good
  <2>1. k \in Nat /\ \A i \in 1 .. k : i \in 1 .. n
    BY <1>1
  <2> HIDE DEF Good
  <2>2. \A i \in 1 .. k : i - 1 \in Good => i \in Good
    BY <1>5, <2>1
  <2> QED BY <1>4, <2>1, <2>2, StageInduction
<1> DEFINE E == g[n]
<1>7. /\ \A t \in DOMAIN given : t \notin OutputsOf(defs) => E[t] = given[t]
      /\ DOMAIN E \subseteq DOMAIN given \cup OutputsOf(defs)
  BY <1>1, <1>3 DEF Agree
<1>8. ASSUME NEW d \in defs, d.inputs \subseteq DOMAIN E
      PROVE  d.output \in DOMAIN E /\ E[d.output] = Applied(d, E)
  <2>1. PICK i \in 1 .. n : order[i] = d
    BY <1>1
  <2>2. n \in 1 .. n /\ n - 1 \in 0 .. n /\ n \in n - 1 .. n
    BY <1>1
  <2>3. ASSUME NEW x \in d.inputs PROVE Agree(g[n - 1], g[n], x)
    <3>1. After(n - 1, x)
      <4> SUFFICES ASSUME NEW j \in (n - 1) + 1 .. n, order[j].output = x PROVE FALSE
        OBVIOUS
      <4>1. j = n /\ j \in 1 .. n
        BY <1>1, <2>2
      <4>2. j < i
        BY <1>1, <2>1, <2>3, <4>1
      <4> QED BY <4>1, <4>2
    <3>2. n - 1 \in Good
      BY <1>6, <2>2
    <3> QED BY <2>2, <3>1, <3>2
  <2>4. d.inputs \subseteq DOMAIN g[n - 1] /\ \A x \in d.inputs : g[n - 1][x] = g[n][x]
    BY <1>8, <2>3 DEF Agree
  <2>5. Applied(d, g[n - 1]) = Applied(d, g[n])
    BY <2>4, SameReads
  <2>6. g[n] = Evaluation(defs, given, g[n - 1])
    BY <1>2, <2>2
  <2>7. d.output \in DOMAIN g[n] /\ g[n][d.output] = Applied(d, g[n - 1])
    BY <2>4, <2>6, EvaluationAt
  <2> QED BY <2>5, <2>7
<1>9. DOMAIN given \subseteq DOMAIN E
  <2>1. CASE n = 0
    BY <1>2, <2>1
  <2>2. CASE n # 0
    <3>1. n \in 1 .. n
      BY <1>1, <2>2
    <3>2. g[n] = Evaluation(defs, given, g[n - 1])
      BY <1>2, <3>1
    <3> QED BY <3>2, EvaluationAt
  <2> QED BY <2>1, <2>2
<1> HIDE DEF E
<1>10. Evaluated(defs, given) = E
  BY <1>2 DEF E
<1> QED BY <1>7, <1>8, <1>9, <1>10
-----------------------------------------------------------------------------
(* The invariant.                                                          *)

Fields == {"state", "order", "delta", "changed", "cone", "given", "tables", "retries",
           "attempt", "failed", "outs", "status", "plan", "covers"}
Statuses == {"outside-delta", "memo", "success", "failed", "upstream_failed"}
Going == run.state \in {"running", "done"}

\* What the nodes of the run have come to.
Visited == 1 .. Len(run.status)
Bad(i) == run.status[i] \in {"failed", "upstream_failed"}
Made(i) == run.status[i] \in {"memo", "success"}
Out(i) == run.order[i].output
MadeFrom == Evaluated(Active, run.given)

\* The registry and the counters.
RegistryOK ==
  /\ active \in Seq(Transforms) /\ known \subseteq Transforms /\ Active \subseteq known
  /\ \A i, j \in DOMAIN active : i # j => active[i].name # active[j].name
  /\ DOMAIN outputs \subseteq TableNames /\ dirty \subseteq TableNames
  /\ starts \in 0 .. MaxRuns /\ faults \in 0 .. MaxFaults
  /\ source = [t \in Sources |-> source[t]]
  /\ run.state \in {"idle", "running", "done", "refused", "aborted"}

\* The memo holds what the body makes of the contents in the key.
MemoSound ==
  \A k \in DOMAIN memo : memo[k] = <<k[1].body, Restrict(k[2], k[1].reads)>>

\* The run goes through all active transforms in their order.
RunShape ==
  /\ DOMAIN run = Fields
  /\ Sorted(run.order, Active) /\ OneOutput(Active)
  /\ run.status \in Seq(Statuses) /\ Len(run.status) <= Len(run.order)
  /\ run.state = "done" => Len(run.status) = Len(run.order)
  /\ DOMAIN run.plan = DOMAIN run.order
  /\ run.given = [t \in Sources |-> run.given[t]]

\* The cone has the consumers of what changed, and of its own outputs.
ConeClosed ==
  /\ run.cone \subseteq Active
  /\ \A d \in Active, e \in run.cone : e.output \in d.inputs => d \in run.cone
  /\ run.changed = FullRun => run.cone = Active
  /\ run.changed # FullRun => \A d \in Active : d.inputs \cap run.changed[1] # {} => d \in run.cone

\* The run's tables are the caller's and those of the nodes that did not fail.
RunTables ==
  /\ \A t : t \in DOMAIN run.tables <=> t \in Sources \/ \E i \in Visited : ~Bad(i) /\ Out(i) = t
  /\ \A t \in Sources : (\A i \in Visited : Bad(i) \/ Out(i) # t) => run.tables[t] = run.given[t]
  /\ \A i \in Visited : ~Bad(i) => Out(i) \in DOMAIN outputs /\ outputs[Out(i)] = run.tables[Out(i)]
  /\ \A t : t \in DOMAIN run.outs <=> \E i \in Visited : Made(i) /\ Out(i) = t
  /\ run.outs = [t \in DOMAIN run.outs |-> run.tables[t]]

\* A node is passed over outside the cone, and skipped below a failure.
NodeStatus ==
  /\ \A t : t \in run.failed <=> \E i \in Visited : Bad(i) /\ Out(i) = t
  /\ \A i \in Visited : run.status[i] = "outside-delta" <=> run.order[i] \notin run.cone
  /\ \A i \in Visited :
       run.status[i] = "upstream_failed" <=>
         run.order[i] \in run.cone /\ \E j \in Visited : Bad(j) /\ Out(j) \in run.order[i].inputs

\* A run that covers what has changed has the tables of a full run.
RunExact ==
  run.covers =>
    \A i \in Visited : ~Bad(i) =>
      run.order[i].inputs \subseteq DOMAIN MadeFrom /\ run.tables[Out(i)] = MadeFrom[Out(i)]

\* What it covers stays as it was while it runs.
StillCovers ==
  run.state = "running" =>
    /\ run.given = source
    /\ run.covers => Covers(run.changed, run.cone)
    /\ OutputsOf(run.cone) \subseteq dirty

RunInv == Going => RunShape /\ ConeClosed /\ RunTables /\ NodeStatus /\ RunExact /\ StillCovers

Sortable(defs) == \E order \in [1 .. Cardinality(defs) -> defs] : Sorted(order, defs)

\* What no run has visited since the last exact one is as that one left it.
SettledInv ==
  settled # <<>> =>
    LET defs == settled[1].active
        E == Evaluated(defs, settled[1].given)
    IN /\ defs \subseteq Transforms /\ OneOutput(defs) /\ Sortable(defs)
       /\ DOMAIN settled[1].given = Sources
       /\ \A d \in defs :
            /\ d.inputs \subseteq DOMAIN E
            /\ d.output \notin dirty => d.output \in DOMAIN outputs /\ outputs[d.output] = E[d.output]

TInv == RegistryOK /\ MemoSound /\ RunInv /\ SettledInv

-----------------------------------------------------------------------------
(* What one node of the run comes to.                                      *)

\* The closure of the consumers has all of its own consumers.
LEMMA AffectedClosed ==
  ASSUME NEW changed
  PROVE  Affected(changed) \subseteq Active /\ ClosedCone(Affected(changed), changed)
<1>1. Affected(changed) \subseteq Active
  BY DEF Affected
<1> SUFFICES ASSUME NEW d \in Active,
                    d.inputs \cap (changed \cup {e.output : e \in Affected(changed)}) # {},
                    NEW S \in SUBSET Active, ClosedCone(S, changed)
             PROVE  d \in S
  BY <1>1 DEF ClosedCone, Affected
<1>2. Affected(changed) \subseteq S
  BY DEF Affected
<1>3. d.inputs \cap (changed \cup {e.output : e \in S}) # {}
  BY <1>2
<1> QED BY <1>3 DEF ClosedCone

\* The facts of a run in progress that every step of a node uses.
LEMMA AtNode ==
  ASSUME TInv, Running
  PROVE  /\ RunShape /\ ConeClosed /\ RunTables /\ NodeStatus /\ RunExact /\ StillCovers
         /\ Active \subseteq Transforms
         /\ Len(run.status) \in Nat /\ Len(run.status) + 1 \in DOMAIN run.order
         /\ DOMAIN run.order = 1 .. Len(run.order) /\ Len(run.order) \in Nat
         /\ Visited \subseteq DOMAIN run.order
         /\ Node = run.order[Len(run.status) + 1] /\ Node \in Active
         /\ \A i \in DOMAIN run.order : run.order[i] \in Active
         /\ \A i, j \in DOMAIN run.order : Out(i) = Out(j) => i = j
         /\ \A i, j \in DOMAIN run.order : Out(j) \in run.order[i].inputs => j < i
         /\ \A d \in Active : \E i \in DOMAIN run.order : run.order[i] = d
<1>1. RunShape /\ ConeClosed /\ RunTables /\ NodeStatus /\ RunExact /\ StillCovers
  BY DEF TInv, RunInv, Going, Running
<1>2. Active \subseteq Transforms
  BY DEF TInv, RegistryOK, Active, Range
<1>3. /\ run.order \in Seq(Active) /\ Len(run.order) \in Nat /\ DOMAIN run.order = 1 .. Len(run.order)
      /\ \A i, j \in DOMAIN run.order : run.order[i] = run.order[j] => i = j
      /\ \A d \in Active : \E i \in DOMAIN run.order : run.order[i] = d
      /\ \A i \in DOMAIN run.order : run.order[i] \in Active
      /\ \A i, j \in DOMAIN run.order : run.order[j].output \in run.order[i].inputs => j < i
  BY <1>1, Places DEF RunShape
<1>4. Len(run.status) \in Nat /\ Len(run.status) < Len(run.order)
  BY <1>1 DEF RunShape, Running
<1>5. Len(run.status) + 1 \in DOMAIN run.order /\ Visited \subseteq DOMAIN run.order
  BY <1>3, <1>4 DEF Visited
<1>6. \A i, j \in DOMAIN run.order : Out(i) = Out(j) => i = j
  BY <1>1, <1>3 DEF Out, RunShape, OneOutput
<1> QED BY <1>1, <1>2, <1>3, <1>4, <1>5, <1>6 DEF Node, Out

\* The equations of a full run of what the run was given.
LEMMA MadeFromEquations ==
  ASSUME TInv, Running
  PROVE  /\ \A t \in Sources : t \in DOMAIN MadeFrom
         /\ \A t \in DOMAIN MadeFrom : t \in Sources \/ t \in OutputsOf(Active)
         /\ \A t \in Sources : t \notin OutputsOf(Active) => MadeFrom[t] = run.given[t]
         /\ \A d \in Active : d.inputs \subseteq DOMAIN MadeFrom =>
              d.output \in DOMAIN MadeFrom /\ MadeFrom[d.output] = Applied(d, MadeFrom)
<1>1. Active \in SUBSET Transforms /\ Sorted(run.order, Active) /\ OneOutput(Active) /\ DOMAIN run.given = Sources
  BY AtNode DEF RunShape
<1> QED BY <1>1, FullRunEquations DEF MadeFrom

\* A node that has its turn computes what a full run would.
LEMMA VisitExact ==
  ASSUME TInv, Visiting, ~Blocked, Complete, run.covers
  PROVE  Node.inputs \subseteq DOMAIN MadeFrom /\ Applied(Node, run.tables) = MadeFrom[Node.output]
<1>0. Running /\ Node \in Active /\ Node \in Transforms
  BY AtNode DEF Visiting
<1>1. ASSUME NEW x \in Node.inputs
      PROVE  x \in DOMAIN MadeFrom /\ run.tables[x] = MadeFrom[x]
  <2>1. CASE x \in OutputsOf(Active)
    <3>1. PICK j \in DOMAIN run.order : Out(j) = x
      BY <1>0, <2>1, AtNode DEF OutputsOf, Out
    <3>2. j \in Visited
      <4>1. j < Len(run.status) + 1
        BY <1>0, <1>1, <3>1, AtNode
      <4> QED BY <1>0, <3>1, <4>1, AtNode DEF Visited
    <3>3. ~Bad(j)
      <4>1. x \notin run.failed
        BY <1>1 DEF Blocked
      <4> QED BY <1>0, <3>1, <3>2, <4>1, AtNode DEF NodeStatus
    <3>4. run.order[j].inputs \subseteq DOMAIN MadeFrom /\ run.tables[Out(j)] = MadeFrom[Out(j)]
      BY <1>0, <3>2, <3>3, AtNode DEF RunExact
    <3>5. run.order[j] \in Active
      BY <1>0, <3>1, AtNode
    <3> QED BY <1>0, <3>1, <3>4, <3>5, MadeFromEquations DEF Out
  <2>2. CASE x \notin OutputsOf(Active)
    <3>1. \A i \in Visited : Out(i) # x
      BY <1>0, <2>2, AtNode DEF OutputsOf, Out
    <3>2. x \in DOMAIN run.tables
      BY <1>1 DEF Complete
    <3>3. x \in Sources /\ run.tables[x] = run.given[x]
      BY <1>0, <3>1, <3>2, AtNode DEF RunTables
    <3> QED BY <1>0, <2>2, <3>3, MadeFromEquations
  <2> QED BY <2>1, <2>2
<1>2. Node.inputs \subseteq DOMAIN MadeFrom
  BY <1>1
<1>3. Applied(Node, run.tables) = Applied(Node, MadeFrom)
  BY <1>0, <1>1, SameReads
<1> QED BY <1>0, <1>2, <1>3, MadeFromEquations

\* Outside the cone nothing has changed since the last exact run: a full run
\* of what is given now makes the same tables as one did then.
LEMMA OutsideExact ==
  ASSUME TInv, Running, run.covers, Node \notin run.cone
  PROVE  /\ Node.inputs \subseteq DOMAIN MadeFrom
         /\ outputs[Node.output] = MadeFrom[Node.output]
<1> DEFINE before == settled[1].active
           Es == Evaluated(before, settled[1].given)
           n == Len(run.order)
<1>0. n \in Nat /\ DOMAIN run.order = 1 .. n /\ Node \in Active /\ Active \subseteq Transforms
  BY AtNode
<1>1. run.changed # FullRun
  BY <1>0, AtNode DEF ConeClosed
<1>2. /\ settled # <<>>
      /\ \A t \in Sources : source[t] # settled[1].given[t] => t \in run.changed[1]
      /\ \A d \in Active : d \notin run.cone => d \in before
      /\ \A d \in before : d \notin Active => d.output \in OutputsOf(run.cone)
      /\ \A t \in dirty : t \in OutputsOf(run.cone)
  <2>1. Covers(run.changed, run.cone)
    BY AtNode DEF StillCovers, Running
  <2> QED BY <1>1, <2>1 DEF Covers, OutputsOf
<1>3. /\ before \subseteq Transforms /\ OneOutput(before) /\ Sortable(before)
      /\ DOMAIN settled[1].given = Sources
      /\ \A d \in before : /\ d.inputs \subseteq DOMAIN Es
                           /\ d.output \notin dirty => outputs[d.output] = Es[d.output]
  BY <1>2 DEF TInv, SettledInv
<1>4. PICK order : Sorted(order, before)
  BY <1>3 DEF Sortable
<1>5. /\ DOMAIN Es \subseteq Sources \cup OutputsOf(before)
      /\ \A t \in Sources : t \notin OutputsOf(before) => Es[t] = settled[1].given[t]
      /\ \A d \in before : d.output \in DOMAIN Es /\ Es[d.output] = Applied(d, Es)
  BY <1>3, <1>4, FullRunEquations
<1> HIDE DEF before, Es, n
<1>6. \A d \in Active : d \notin run.cone => d.output \notin OutputsOf(run.cone)
  BY AtNode DEF OutputsOf, OneOutput, RunShape, ConeClosed
<1> DEFINE Same(d) == d.inputs \subseteq DOMAIN MadeFrom /\ Es[d.output] = MadeFrom[d.output]
           Good == {i \in 0 .. n : \A j \in 1 .. i : run.order[j] \notin run.cone => Same(run.order[j])}
<1>7. 0 \in Good
  BY <1>0
<1>8. ASSUME NEW i \in 1 .. n, i - 1 \in Good PROVE i \in Good
  <2> DEFINE d == run.order[i]
  <2>0. d \in Active /\ i \in 0 .. n
    BY <1>0, AtNode
  <2>1. ASSUME d \notin run.cone PROVE Same(d)
    <3>1. d \in before /\ d \in Transforms
      BY <1>0, <1>2, <2>0, <2>1
    <3>2. ASSUME NEW x \in d.inputs PROVE x \in DOMAIN MadeFrom /\ Es[x] = MadeFrom[x]
      <4>0. x \in DOMAIN Es
        BY <1>3, <3>1, <3>2
      <4>1. CASE x \in OutputsOf(Active)
        <5>1. PICK j \in DOMAIN run.order : run.order[j].output = x
          BY <4>1, AtNode DEF OutputsOf
        <5>2. j < i /\ j \in 1 .. i - 1
          <6>1. j < i
            BY <1>0, <3>2, <5>1, AtNode DEF Out
          <6> QED BY <1>0, <5>1, <6>1
        <5>3. run.order[j] \in Active
          BY <5>1, AtNode
        <5>4. run.order[j] \notin run.cone
          BY <2>0, <2>1, <3>2, <5>1, AtNode DEF ConeClosed
        <5>5. Same(run.order[j])
          BY <1>8, <5>2, <5>4
        <5> QED BY <5>1, <5>3, <5>5, MadeFromEquations
      <4>2. CASE x \notin OutputsOf(Active)
        <5>1. OutputsOf(run.cone) \subseteq OutputsOf(Active)
          BY AtNode DEF OutputsOf, ConeClosed
        <5>2. x \notin OutputsOf(before)
          <6> SUFFICES ASSUME NEW e \in before, e.output = x PROVE FALSE
            BY DEF OutputsOf
          <6>1. e \notin Active
            BY <4>2 DEF OutputsOf
          <6> QED BY <1>2, <4>2, <5>1, <6>1
        <5>3. x \in Sources /\ Es[x] = settled[1].given[x]
          BY <1>5, <4>0, <5>2
        <5>4. x \notin run.changed[1]
          BY <1>1, <2>0, <2>1, <3>2, AtNode DEF ConeClosed
        <5>5. run.given[x] = settled[1].given[x]
          BY <1>2, <5>3, <5>4, AtNode DEF StillCovers, Running
        <5> QED BY <4>2, <5>3, <5>5, MadeFromEquations
      <4> QED BY <4>1, <4>2
    <3>3. d.inputs \subseteq DOMAIN MadeFrom
      BY <3>2
    <3>4. Applied(d, Es) = Applied(d, MadeFrom)
      BY <3>1, <3>2, SameReads
    <3>5. Es[d.output] = Applied(d, Es)
      BY <1>5, <3>1
    <3>6. MadeFrom[d.output] = Applied(d, MadeFrom)
      BY <2>0, <3>3, MadeFromEquations
    <3> QED BY <3>3, <3>4, <3>5, <3>6
  <2>2. ASSUME NEW j \in 1 .. i, run.order[j] \notin run.cone PROVE Same(run.order[j])
    <3>1. CASE j = i
      BY <2>1, <2>2, <3>1
    <3>2. CASE j # i
      <4>1. j \in 1 .. i - 1
        BY <3>2
      <4> QED BY <1>8, <2>2, <4>1
    <3> QED BY <3>1, <3>2
  <2> QED BY <2>0, <2>2
<1>9. n \in Good
  <2> HIDE DEF Good
  <2> QED BY <1>0, <1>7, <1>8, StageInduction
<1>10. Same(Node)
  BY <1>0, <1>9, AtNode
<1>11. Node.output \notin dirty /\ Node \in before
  BY <1>0, <1>2, <1>6
<1> QED BY <1>3, <1>10, <1>11

-----------------------------------------------------------------------------
(* One node more.                                                          *)

\* What the steps of a node leave alone.
Onward(s) ==
  /\ UNCHANGED <<active, source, settled, dirty>>
  /\ DOMAIN run' = Fields
  /\ run'.state = run.state /\ run'.order = run.order /\ run'.changed = run.changed
  /\ run'.cone = run.cone /\ run'.given = run.given /\ run'.plan = run.plan
  /\ run'.covers = run.covers
  /\ run'.status = Append(run.status, s)

\* The node is visited then, with status s, and all else is as it was.
LEMMA NodeVisited ==
  ASSUME TInv, Running, NEW s \in Statuses, Onward(s)
  PROVE  LET m == Len(run.status) + 1 IN
         /\ RunShape' /\ ConeClosed' /\ StillCovers'
         /\ Visited' = Visited \cup {m} /\ m \notin Visited
         /\ \A i \in Visited : run'.status[i] = run.status[i]
         /\ run'.status[m] = s
         /\ run'.order = run.order /\ run.order[m] = Node
         /\ \A i \in Visited : run.order[i].output # Node.output
         /\ \A i \in Visited \cup {m} : Node.output \notin run.order[i].inputs
         /\ MadeFrom' = MadeFrom
<1> DEFINE m == Len(run.status) + 1
<1>1. run.status \in Seq(Statuses) /\ Len(run.status) \in Nat /\ m \in Nat
  BY AtNode DEF RunShape
<1>2. /\ run'.status \in Seq(Statuses) /\ Len(run'.status) = m
      /\ \A i \in 1 .. Len(run.status) : run'.status[i] = run.status[i]
      /\ run'.status[m] = s
  BY <1>1 DEF Onward
<1>3. Visited' = Visited \cup {m} /\ m \notin Visited
  BY <1>1, <1>2 DEF Visited
<1>4. run.state = "running" /\ Len(run.status) < Len(run.order) /\ Len(run.order) \in Nat
  BY AtNode DEF Running
<1>5. RunShape'
  <2>1. m <= Len(run.order)
    BY <1>1, <1>4
  <2>2. Active' = Active
    BY DEF Onward, Active
  <2>3. RunShape
    BY AtNode
  <2> QED BY <1>2, <1>4, <2>1, <2>2, <2>3 DEF Onward, RunShape
<1>6. ConeClosed' /\ MadeFrom' = MadeFrom
  <2>1. Active' = Active
    BY DEF Onward, Active
  <2>2. ConeClosed
    BY AtNode
  <2> QED BY <2>1, <2>2 DEF Onward, ConeClosed, MadeFrom
<1>7. StillCovers'
  <2>1. Active' = Active
    BY DEF Onward, Active
  <2>2. StillCovers
    BY AtNode
  <2> QED BY <2>1, <2>2 DEF Onward, StillCovers, Covers
<1>8. \A i \in Visited : run.order[i].output # Node.output
  <2>1. \A i \in Visited : i \in DOMAIN run.order /\ i # m
    BY <1>3, AtNode
  <2>2. m \in DOMAIN run.order /\ run.order[m] = Node
    BY AtNode
  <2> QED BY <2>1, <2>2, AtNode DEF Out
<1>9. \A i \in Visited \cup {m} : Node.output \notin run.order[i].inputs
  <2> SUFFICES ASSUME NEW i \in Visited \cup {m}, Node.output \in run.order[i].inputs PROVE FALSE
    OBVIOUS
  <2>1. i \in DOMAIN run.order /\ i <= m /\ i \in Nat
    BY <1>1, AtNode DEF Visited
  <2>2. m < i
    BY <2>1, AtNode DEF Out
  <2> QED BY <1>1, <2>1, <2>2
<1>10. run.order[m] = Node /\ run'.order = run.order
  BY AtNode DEF Onward
<1> HIDE DEF m
<1> QED BY <1>2, <1>3, <1>5, <1>6, <1>7, <1>8, <1>9, <1>10 DEF m, Visited

\* A node that fails or is skipped.
LEMMA NodeBad ==
  ASSUME TInv, Visiting, NEW s \in {"failed", "upstream_failed"}, Onward(s),
         s = "upstream_failed" <=> Blocked,
         run'.tables = run.tables, run'.outs = run.outs, outputs' = outputs,
         run'.failed = run.failed \cup {Node.output}
  PROVE  RunInv'
<1>m. PICK m : m = Len(run.status) + 1
  OBVIOUS
<1>0. Running /\ s \in Statuses /\ Node \in run.cone
  BY DEF Visiting, Statuses
<1>1. /\ RunShape' /\ ConeClosed' /\ StillCovers'
      /\ Visited' = Visited \cup {m} /\ m \notin Visited
      /\ \A i \in Visited : run'.status[i] = run.status[i]
      /\ run'.status[m] = s
      /\ run'.order = run.order /\ run.order[m] = Node
      /\ \A i \in Visited : run.order[i].output # Node.output
      /\ \A i \in Visited \cup {m} : Node.output \notin run.order[i].inputs
      /\ MadeFrom' = MadeFrom
  BY <1>m, <1>0, NodeVisited
<1>2. /\ \A i \in Visited : (Bad(i)' <=> Bad(i)) /\ (Made(i)' <=> Made(i)) /\ Out(i)' = Out(i)
      /\ Bad(m)' /\ ~Made(m)' /\ Out(m)' = Node.output
  BY <1>1 DEF Bad, Made, Out
<1>3. RunTables /\ NodeStatus /\ RunExact
  BY <1>0, AtNode
<1>4. run'.given = run.given /\ run'.cone = run.cone /\ run'.covers = run.covers
  BY DEF Onward
<1>5. RunTables'
  BY <1>1, <1>2, <1>3, <1>4 DEF RunTables
<1>6. NodeStatus'
  <2>1. \A t : t \in run'.failed <=> \E i \in Visited' : Bad(i)' /\ Out(i)' = t
    BY <1>1, <1>2, <1>3 DEF NodeStatus
  <2>2. \A i \in Visited' : run'.status[i] = "outside-delta" <=> run'.order[i] \notin run'.cone
    BY <1>0, <1>1, <1>3, <1>4 DEF NodeStatus
  <2>3. ASSUME NEW i \in Visited'
        PROVE  run'.status[i] = "upstream_failed" <=>
                 run'.order[i] \in run'.cone /\ \E j \in Visited' : Bad(j)' /\ Out(j)' \in run'.order[i].inputs
    <3>1. (\E j \in Visited' : Bad(j)' /\ Out(j)' \in run'.order[i].inputs)
            <=> \E j \in Visited : Bad(j) /\ Out(j) \in run.order[i].inputs
      BY <1>1, <1>2, <2>3
    <3>2. CASE i \in Visited
      BY <1>1, <1>3, <1>4, <3>1, <3>2 DEF NodeStatus
    <3>3. CASE i = m
      <4>1. Blocked <=> \E j \in Visited : Bad(j) /\ Out(j) \in Node.inputs
        BY <1>3 DEF NodeStatus, Blocked
      <4> QED BY <1>0, <1>1, <1>4, <3>1, <3>3, <4>1
    <3> QED BY <1>1, <2>3, <3>2, <3>3
  <2> QED BY <2>1, <2>2, <2>3 DEF NodeStatus
<1>7. RunExact'
  BY <1>1, <1>2, <1>3, <1>4 DEF RunExact
<1> QED BY <1>1, <1>5, <1>6, <1>7 DEF RunInv

\* A node that has its output: its own, or its last outside the cone.
LEMMA NodeGood ==
  ASSUME TInv, Running, NEW s \in {"outside-delta", "memo", "success"}, Onward(s), NEW content,
         s = "outside-delta" <=> Node \notin run.cone,
         Node \in run.cone => ~Blocked,
         run.covers => Node.inputs \subseteq DOMAIN MadeFrom /\ content = MadeFrom[Node.output],
         run'.tables = With(run.tables, Node.output, content),
         run'.failed = run.failed,
         run'.outs = IF s = "outside-delta" THEN run.outs ELSE With(run.outs, Node.output, content),
         Node.output \in DOMAIN outputs', outputs'[Node.output] = content,
         \A t \in DOMAIN outputs : t # Node.output => t \in DOMAIN outputs' /\ outputs'[t] = outputs[t]
  PROVE  RunInv'
<1>m. PICK m : m = Len(run.status) + 1
  OBVIOUS
<1>0. s \in Statuses
  BY DEF Statuses
<1>1. /\ RunShape' /\ ConeClosed' /\ StillCovers'
      /\ Visited' = Visited \cup {m} /\ m \notin Visited
      /\ \A i \in Visited : run'.status[i] = run.status[i]
      /\ run'.status[m] = s
      /\ run'.order = run.order /\ run.order[m] = Node
      /\ \A i \in Visited : run.order[i].output # Node.output
      /\ \A i \in Visited \cup {m} : Node.output \notin run.order[i].inputs
      /\ MadeFrom' = MadeFrom
  BY <1>m, <1>0, NodeVisited
<1>2. /\ \A i \in Visited : (Bad(i)' <=> Bad(i)) /\ (Made(i)' <=> Made(i)) /\ Out(i)' = Out(i)
      /\ ~Bad(m)' /\ (Made(m)' <=> s # "outside-delta") /\ Out(m)' = Node.output
  BY <1>1 DEF Bad, Made, Out
<1>3. RunTables /\ NodeStatus /\ RunExact
  BY AtNode
<1>4. run'.given = run.given /\ run'.cone = run.cone /\ run'.covers = run.covers
  BY DEF Onward
<1>5. /\ DOMAIN run'.tables = DOMAIN run.tables \cup {Node.output}
      /\ run'.tables[Node.output] = content
      /\ \A t \in DOMAIN run.tables : t # Node.output => run'.tables[t] = run.tables[t]
  BY DEF With
<1>6. \A i \in Visited : Out(i) # Node.output
  BY <1>1 DEF Out
<1>7. RunTables'
  <2>1. \A t : t \in DOMAIN run'.tables <=> t \in Sources \/ \E i \in Visited' : ~Bad(i)' /\ Out(i)' = t
    BY <1>1, <1>2, <1>3, <1>5 DEF RunTables
  <2>2. ASSUME NEW t \in Sources, \A i \in Visited' : Bad(i)' \/ Out(i)' # t
        PROVE  run'.tables[t] = run'.given[t]
    <3>1. t # Node.output
      BY <1>1, <1>2, <2>2
    <3>2. \A i \in Visited : Bad(i) \/ Out(i) # t
      BY <1>1, <1>2, <2>2
    <3>3. t \in DOMAIN run.tables /\ run.tables[t] = run.given[t]
      BY <1>3, <3>2 DEF RunTables
    <3> QED BY <1>4, <1>5, <3>1, <3>3
  <2>3. ASSUME NEW i \in Visited', ~Bad(i)'
        PROVE  Out(i)' \in DOMAIN outputs' /\ outputs'[Out(i)'] = run'.tables[Out(i)']
    <3>1. CASE i = m
      BY <1>2, <1>5, <3>1
    <3>2. CASE i \in Visited
      <4>1. Out(i) \in DOMAIN outputs /\ outputs[Out(i)] = run.tables[Out(i)] /\ Out(i) \in DOMAIN run.tables
        BY <1>2, <1>3, <2>3, <3>2 DEF RunTables
      <4> QED BY <1>2, <1>5, <1>6, <3>2, <4>1
    <3> QED BY <1>1, <2>3, <3>1, <3>2
  <2>4. /\ \A t : t \in DOMAIN run'.outs <=> \E i \in Visited' : Made(i)' /\ Out(i)' = t
        /\ run'.outs = [t \in DOMAIN run'.outs |-> run'.tables[t]]
    <3>0. \A t \in DOMAIN run.outs : t # Node.output /\ t \in DOMAIN run.tables /\ run.outs[t] = run.tables[t]
      <4>1. \A i : Made(i) => ~Bad(i)
        BY DEF Made, Bad
      <4> QED BY <1>3, <1>6, <4>1 DEF RunTables
    <3>1. CASE s = "outside-delta"
      <4>1. run'.outs = run.outs
        BY <3>1
      <4>2. [t \in DOMAIN run'.outs |-> run.tables[t]] = [t \in DOMAIN run'.outs |-> run'.tables[t]]
        BY <1>5, <3>0, <4>1
      <4>3. run'.outs = [t \in DOMAIN run'.outs |-> run'.tables[t]]
        BY <1>3, <4>1, <4>2 DEF RunTables
      <4> QED BY <4>3, <1>1, <1>2, <1>3, <1>5, <3>0, <3>1, <4>1 DEF RunTables
    <3>2. CASE s # "outside-delta"
      <4>1. /\ DOMAIN run'.outs = DOMAIN run.outs \cup {Node.output}
            /\ run'.outs[Node.output] = content
            /\ \A t \in DOMAIN run.outs : t # Node.output => run'.outs[t] = run.outs[t]
            /\ run'.outs = [t \in DOMAIN run'.outs |-> run'.outs[t]]
        BY <3>2 DEF With
      <4>2. \A t \in DOMAIN run'.outs : run'.outs[t] = run'.tables[t]
        BY <1>5, <3>0, <4>1
      <4>3. run'.outs = [t \in DOMAIN run'.outs |-> run'.tables[t]]
        BY <4>1, <4>2
      <4> QED BY <4>3, <1>1, <1>2, <1>3, <1>5, <3>0, <3>2, <4>1 DEF RunTables
    <3> QED BY <3>1, <3>2
  <2> QED BY <2>1, <2>2, <2>3, <2>4 DEF RunTables
<1>8. NodeStatus'
  <2>1. \A t : t \in run'.failed <=> \E i \in Visited' : Bad(i)' /\ Out(i)' = t
    BY <1>1, <1>2, <1>3 DEF NodeStatus
  <2>2. \A i \in Visited' : run'.status[i] = "outside-delta" <=> run'.order[i] \notin run'.cone
    BY <1>1, <1>3, <1>4 DEF NodeStatus
  <2>3. ASSUME NEW i \in Visited'
        PROVE  run'.status[i] = "upstream_failed" <=>
                 run'.order[i] \in run'.cone /\ \E j \in Visited' : Bad(j)' /\ Out(j)' \in run'.order[i].inputs
    <3>1. (\E j \in Visited' : Bad(j)' /\ Out(j)' \in run'.order[i].inputs)
            <=> \E j \in Visited : Bad(j) /\ Out(j) \in run.order[i].inputs
      BY <1>1, <1>2, <2>3
    <3>2. CASE i \in Visited
      BY <1>1, <1>3, <1>4, <3>1, <3>2 DEF NodeStatus
    <3>3. CASE i = m
      <4>1. Blocked <=> \E j \in Visited : Bad(j) /\ Out(j) \in Node.inputs
        BY <1>3 DEF NodeStatus, Blocked
      <4> QED BY <1>1, <1>4, <3>1, <3>3, <4>1
    <3> QED BY <1>1, <2>3, <3>2, <3>3
  <2> QED BY <2>1, <2>2, <2>3 DEF NodeStatus
<1>9. RunExact'
  <2> SUFFICES ASSUME run.covers, NEW i \in Visited', ~Bad(i)'
               PROVE  run'.order[i].inputs \subseteq DOMAIN MadeFrom' /\ run'.tables[Out(i)'] = MadeFrom'[Out(i)']
    BY <1>4 DEF RunExact
  <2>1. CASE i = m
    BY <1>1, <1>2, <1>5, <2>1
  <2>2. CASE i \in Visited
    <3>1. /\ run.order[i].inputs \subseteq DOMAIN MadeFrom /\ run.tables[Out(i)] = MadeFrom[Out(i)]
          /\ Out(i) \in DOMAIN run.tables
      BY <1>2, <1>3, <2>2 DEF RunExact, RunTables
    <3> QED BY <1>1, <1>2, <1>5, <1>6, <2>2, <3>1
  <2> QED BY <1>1, <2>1, <2>2
<1> QED BY <1>1, <1>7, <1>8, <1>9 DEF RunInv

-----------------------------------------------------------------------------
(* Every step keeps the invariant.                                         *)

\* What was settled stays so while only dirty tables are made anew.
LEMMA SettledKept ==
  ASSUME SettledInv, settled' = settled, dirty \subseteq dirty',
         \A t \in DOMAIN outputs : t \notin dirty' => t \in DOMAIN outputs' /\ outputs'[t] = outputs[t]
  PROVE  SettledInv'
BY DEF SettledInv

\* The registry, when no definition is registered.
LEMMA RegistryKept ==
  ASSUME RegistryOK, UNCHANGED <<active, known>>,
         DOMAIN outputs' \subseteq TableNames, dirty' \subseteq TableNames, source' = [t \in Sources |-> source'[t]],
         starts' \in 0 .. MaxRuns, faults' \in 0 .. MaxFaults,
         run'.state \in {"idle", "running", "done", "refused", "aborted"}
  PROVE  RegistryOK'
BY DEF RegistryOK, Active

\* A run that is not going on has nothing to keep.
LEMMA NotGoing ==
  ASSUME run'.state \notin {"running", "done"}
  PROVE  RunInv'
BY DEF RunInv, Going

\* Another fault is within the bound.
LEMMA OneFaultMore ==
  ASSUME RegistryOK, faults < MaxFaults, faults' = faults + 1
  PROVE  faults' \in 0 .. MaxFaults
BY BoundsAssumption DEF RegistryOK

\* A step of a node that the ledger may refuse: it is enough to look at the step
\* that is recorded.
LEMMA Recording ==
  ASSUME RegistryOK, run.state = "running", NEW after, after.state = "running", Record(after),
         run' = after => RunInv'
  PROVE  /\ RunInv' /\ faults' \in 0 .. MaxFaults
         /\ run'.state \in {"idle", "running", "done", "refused", "aborted"}
<1>1. CASE run' = after /\ UNCHANGED faults
  BY <1>1 DEF RegistryOK
<1>2. CASE faults < MaxFaults /\ faults' = faults + 1 /\ Abort
  <2>1. run'.state = "aborted"
    BY <1>2 DEF Abort
  <2> QED BY <1>2, <2>1, NotGoing, OneFaultMore
<1> QED BY <1>1, <1>2 DEF Record

LEMMA RegisterStep ==
  ASSUME TInv, NEW d \in Transforms, RegisterTransform(d)
  PROVE  TInv'
<1>0. RegistryOK /\ SettledInv /\ MemoSound
  BY DEF TInv
<1>1. /\ active' = Latest(d) /\ known' = known \cup {d} /\ run' = Idle
      /\ UNCHANGED <<memo, outputs, source, starts, faults, settled, dirty>>
  BY DEF RegisterTransform, history
<1>2. active \in Seq(Transforms) /\ DOMAIN active = 1 .. Len(active) /\ Len(active) \in Nat
  BY <1>0 DEF RegistryOK
<1>3. /\ active' \in Seq(Transforms)
      /\ \A i \in DOMAIN active' : active'[i] = d \/ (i \in DOMAIN active /\ active'[i] = active[i])
      /\ \A i, j \in DOMAIN active' : i # j => active'[i].name # active'[j].name
  <2>1. CASE \E i \in DOMAIN active : active[i].name = d.name
    <3>1. active' = [i \in DOMAIN active |-> IF active[i].name = d.name THEN d ELSE active[i]]
      BY <1>1, <2>1 DEF Latest
    <3>2. \A i \in DOMAIN active : active[i] \in Transforms
      BY <1>2
    <3>3. active' \in [1 .. Len(active) -> Transforms]
      BY <1>2, <3>1, <3>2
    <3> QED BY <1>0, <1>2, <3>1, <3>3 DEF RegistryOK
  <2>2. CASE ~ \E i \in DOMAIN active : active[i].name = d.name
    <3> DEFINE n == Len(active)
    <3>1. active' = Append(active, d)
      BY <1>1, <2>2 DEF Latest
    <3>2. /\ active' \in Seq(Transforms) /\ DOMAIN active' = 1 .. n + 1
          /\ \A i \in 1 .. n : active'[i] = active[i]
          /\ active'[n + 1] = d
      BY <1>2, <3>1
    <3>3. \A i \in 1 .. n + 1 : i = n + 1 \/ i \in 1 .. n
      BY <1>2
    <3> HIDE DEF n
    <3>4. \A i, j \in 1 .. n : i # j => active[i].name # active[j].name
      BY <1>0, <1>2 DEF RegistryOK, n
    <3>5. \A i \in 1 .. n : active[i].name # d.name /\ i \in DOMAIN active
      BY <1>2, <2>2 DEF n
    <3> QED BY <3>2, <3>3, <3>4, <3>5
  <2> QED BY <2>1, <2>2
<1>4. Range(active') \subseteq known' /\ known' \subseteq Transforms
  BY <1>0, <1>1, <1>3 DEF RegistryOK, Active, Range
<1>5. RegistryOK'
  BY <1>0, <1>1, <1>3, <1>4 DEF RegistryOK, Active, Idle
<1>6. RunInv'
  BY <1>1, NotGoing DEF Idle
<1>7. SettledInv'
  BY <1>0, <1>1, SettledKept
<1>8. MemoSound'
  BY <1>0, <1>1 DEF MemoSound
<1> QED BY <1>5, <1>6, <1>7, <1>8 DEF TInv

LEMMA StartStep ==
  ASSUME TInv, NEW changed \in Calls, NEW retries, Start(changed, retries)
  PROVE  TInv'
<1>c. PICK cone : cone = IF changed = FullRun THEN Active ELSE Affected(changed[1])
  OBVIOUS
<1>0. RegistryOK /\ SettledInv /\ MemoSound
  BY DEF TInv
<1>1. /\ starts < MaxRuns /\ starts' = starts + 1
      /\ UNCHANGED <<known, active, memo, outputs, source, faults, settled>>
  BY DEF Start, registry
<1>2. starts' \in 0 .. MaxRuns
  BY <1>0, <1>1, BoundsAssumption DEF RegistryOK
<1>3. MemoSound'
  BY <1>0, <1>1 DEF MemoSound
<1>4. CASE OutputsClash \/ Cyclic
  <2>1. run' = [state |-> "refused"] /\ dirty' = dirty
    BY <1>4 DEF Start
  <2>2. RegistryOK'
    BY <1>0, <1>1, <1>2, <2>1, RegistryKept DEF RegistryOK
  <2>3. RunInv' /\ SettledInv'
    BY <1>0, <1>1, <2>1, NotGoing, SettledKept
  <2> QED BY <1>3, <2>2, <2>3 DEF TInv
<1>5. CASE ~(OutputsClash \/ Cyclic)
  <2>1. run' = [state |-> "running", order |-> TopoOrder, delta |-> changed # FullRun,
                changed |-> changed, cone |-> cone, given |-> source, tables |-> source,
                retries |-> retries, attempt |-> 0,
                failed |-> {}, outs |-> <<>>, status |-> <<>>,
                plan |-> Planned(TopoOrder, source, cone),
                covers |-> Covers(changed, cone)]
    BY <1>5, <1>c DEF Start
  <2>2. /\ run'.state = "running" /\ run'.order = TopoOrder /\ run'.changed = changed
        /\ run'.cone = cone /\ run'.given = source /\ run'.tables = source
        /\ run'.failed = {} /\ run'.outs = <<>> /\ run'.status = <<>>
        /\ run'.plan = Planned(TopoOrder, source, cone) /\ run'.covers = Covers(changed, cone)
        /\ DOMAIN run' = Fields
    BY <2>1 DEF Fields
  <2>3. dirty' = dirty \cup OutputsOf(cone)
    BY <2>2 DEF Start, OutputsOf
  <2>4. Injective(active) /\ active \in Seq(Transforms) /\ Active \subseteq Transforms
    BY <1>0 DEF RegistryOK, Injective, Active, Range
  <2>5. Sorted(TopoOrder, Active) /\ OneOutput(Active)
    BY <1>5, <2>4, OrderSorted DEF OutputsClash, OneOutput
  <2>6. /\ cone \subseteq Active
        /\ \A d \in Active, e \in cone : e.output \in d.inputs => d \in cone
        /\ changed = FullRun => cone = Active
        /\ changed # FullRun => \A d \in Active : d.inputs \cap changed[1] # {} => d \in cone
    BY <1>c, AffectedClosed DEF ClosedCone
  <2>7. Active' = Active
    BY <1>1 DEF Active
  <2>8. RegistryOK'
    <3>1. OutputsOf(cone) \subseteq TableNames
      BY <2>4, <2>6 DEF OutputsOf, TableNames
    <3> QED BY <1>0, <1>1, <1>2, <2>2, <2>3, <3>1, RegistryKept DEF RegistryOK
  <2>9. SettledInv'
    BY <1>0, <1>1, <2>3, SettledKept
  <2>10. Visited' = {} /\ Len(run'.status) = 0 /\ run'.status \in Seq(Statuses)
    BY <2>2 DEF Visited
  <2>11. RunShape'
    <3>1. TopoOrder \in Seq(Active) /\ DOMAIN TopoOrder = 1 .. Len(TopoOrder) /\ Len(TopoOrder) \in Nat
      BY <2>5, Places
    <3>2. DOMAIN Planned(TopoOrder, source, cone) = 1 .. Len(TopoOrder)
      BY DEF Planned
    <3>3. run'.given = [t \in Sources |-> run'.given[t]]
      BY <1>0, <2>2 DEF RegistryOK
    <3> QED BY <2>2, <2>5, <2>7, <2>10, <3>1, <3>2, <3>3 DEF RunShape
  <2>12. ConeClosed'
    BY <2>2, <2>6, <2>7 DEF ConeClosed
  <2>13. RunTables'
    <3>1. DOMAIN source = Sources
      BY <1>0 DEF RegistryOK
    <3>2. DOMAIN run'.outs = {}
      BY <2>2
    <3> QED BY <2>2, <2>10, <3>1, <3>2 DEF RunTables
  <2>14. NodeStatus' /\ RunExact'
    BY <2>2, <2>10 DEF NodeStatus, RunExact
  <2>15. StillCovers'
    <3>1. Covers(changed, cone) => Covers(changed, cone)'
      BY <1>1, <2>3, <2>7 DEF Covers, OutputsOf
    <3> QED BY <1>1, <2>2, <2>3, <3>1 DEF StillCovers
  <2> QED BY <1>3, <2>8, <2>9, <2>11, <2>12, <2>13, <2>14, <2>15 DEF TInv, RunInv
<1> QED BY <1>4, <1>5

LEMMA ReuseOutputStep ==
  ASSUME TInv, ReuseOutput
  PROVE  TInv'
<1>0. RegistryOK /\ SettledInv /\ MemoSound /\ Running /\ Node \notin run.cone
  BY DEF TInv, ReuseOutput
<1>1. UNCHANGED <<known, active, memo, outputs, starts, source, faults, settled, dirty>>
  BY DEF ReuseOutput, registry, history
<1>2. RunInv' /\ run'.state \in {"running", "aborted"}
  <2>1. CASE Node.output \in DOMAIN outputs
    <3>1. run' = [run EXCEPT !.tables = With(@, Node.output, outputs[Node.output]),
                             !.status = Append(@, "outside-delta")]
      BY <2>1 DEF ReuseOutput
    <3>2. DOMAIN run = Fields
      BY <1>0, AtNode DEF RunShape
    <3>3. /\ Onward("outside-delta") /\ run'.tables = With(run.tables, Node.output, outputs[Node.output])
          /\ run'.failed = run.failed /\ run'.outs = run.outs
      BY <1>1, <3>1, <3>2 DEF Onward, Fields
    <3>4. run.covers => Node.inputs \subseteq DOMAIN MadeFrom /\ outputs[Node.output] = MadeFrom[Node.output]
      BY <1>0, OutsideExact
    <3>5. PICK content : content = outputs[Node.output]
      OBVIOUS
    <3>6. RunInv'
      BY <1>0, <1>1, <2>1, <3>3, <3>4, <3>5, NodeGood
    <3> QED BY <1>0, <3>3, <3>6 DEF Onward, Running
  <2>2. CASE Node.output \notin DOMAIN outputs
    BY <2>2, NotGoing DEF ReuseOutput, Abort
  <2> QED BY <2>1, <2>2
<1>3. RegistryOK'
  BY <1>0, <1>1, <1>2, RegistryKept DEF RegistryOK
<1>4. SettledInv' /\ MemoSound'
  BY <1>0, <1>1, SettledKept DEF MemoSound
<1> QED BY <1>2, <1>3, <1>4 DEF TInv

LEMMA SkipBlockedStep ==
  ASSUME TInv, SkipBlocked
  PROVE  TInv'
<1>0. RegistryOK /\ SettledInv /\ MemoSound /\ Visiting /\ Blocked /\ Running
  BY DEF TInv, SkipBlocked, Visiting
<1>1. UNCHANGED <<known, active, memo, outputs, starts, source, settled, dirty>>
  BY DEF SkipBlocked, registry, history
<1>2. DOMAIN run = Fields /\ run.state = "running"
  BY <1>0, AtNode DEF RunShape, Running
<1>3. PICK after : after = MarkedFailed("upstream_failed")
  OBVIOUS
<1>4. /\ after = [run EXCEPT !.failed = @ \cup {Node.output},
                             !.status = Append(@, "upstream_failed"), !.attempt = 0]
      /\ Record(after)
  BY <1>3 DEF MarkedFailed, SkipBlocked
<1>5. after.state = "running"
  BY <1>2, <1>4 DEF Fields
<1>6. ASSUME run' = after PROVE RunInv'
  <2>1. /\ Onward("upstream_failed") /\ run'.tables = run.tables /\ run'.outs = run.outs
        /\ run'.failed = run.failed \cup {Node.output}
    BY <1>1, <1>2, <1>4, <1>6 DEF Onward, Fields
  <2> QED BY <1>0, <1>1, <2>1, NodeBad
<1>7. /\ RunInv' /\ faults' \in 0 .. MaxFaults
      /\ run'.state \in {"idle", "running", "done", "refused", "aborted"}
  BY <1>0, <1>2, <1>4, <1>5, <1>6, Recording
<1>8. RegistryOK'
  BY <1>0, <1>1, <1>7, RegistryKept DEF RegistryOK
<1>9. SettledInv' /\ MemoSound'
  BY <1>0, <1>1, SettledKept DEF MemoSound
<1> QED BY <1>7, <1>8, <1>9 DEF TInv

LEMMA MissingInputStep ==
  ASSUME TInv, MissingInput
  PROVE  TInv'
<1>1. UNCHANGED <<known, active, memo, outputs, starts, source, faults, settled, dirty>>
  BY DEF MissingInput, registry, history
<1>2. run'.state = "aborted"
  BY DEF MissingInput, Abort
<1>3. RegistryOK /\ SettledInv /\ MemoSound
  BY DEF TInv
<1>4. RegistryOK'
  BY <1>1, <1>2, <1>3, RegistryKept DEF RegistryOK
<1>5. SettledInv' /\ MemoSound' /\ RunInv'
  BY <1>1, <1>2, <1>3, SettledKept, NotGoing DEF MemoSound
<1> QED BY <1>4, <1>5 DEF TInv

\* An output is installed: what the body computes, from the memo or anew.
LEMMA InstallStep ==
  ASSUME TInv, Visiting, ~Blocked, Complete, NEW content, content = Applied(Node, run.tables),
         NEW s \in {"memo", "success"}, Install(content, s), MemoSound',
         UNCHANGED <<known, active, starts, source, settled, dirty>>
  PROVE  TInv'
<1>0. RegistryOK /\ SettledInv /\ Running /\ Node \in run.cone /\ Node \in Transforms /\ Node \in Active
  BY AtNode DEF TInv, Visiting
<1>1. outputs' = With(outputs, Node.output, content)
  BY DEF Install
<1>2. /\ DOMAIN outputs' = DOMAIN outputs \cup {Node.output} /\ outputs'[Node.output] = content
      /\ \A t \in DOMAIN outputs : t # Node.output => outputs'[t] = outputs[t]
  BY <1>1 DEF With
<1>3. DOMAIN run = Fields /\ run.state = "running"
  BY <1>0, AtNode DEF RunShape, Running
<1>4. PICK after : after = [run EXCEPT !.tables = With(@, Node.output, content),
                                       !.outs = With(@, Node.output, content),
                                       !.status = Append(@, s), !.attempt = 0]
  OBVIOUS
<1>5. Record(after)
  BY <1>4 DEF Install
<1>6. after.state = "running"
  BY <1>3, <1>4 DEF Fields
<1>7. ASSUME run' = after PROVE RunInv'
  <2>1. /\ Onward(s) /\ run'.tables = With(run.tables, Node.output, content)
        /\ run'.outs = With(run.outs, Node.output, content) /\ run'.failed = run.failed
    BY <1>3, <1>4, <1>7 DEF Onward, Fields
  <2>2. run.covers => Node.inputs \subseteq DOMAIN MadeFrom /\ content = MadeFrom[Node.output]
    BY VisitExact
  <2>3. s \in {"outside-delta", "memo", "success"} /\ s # "outside-delta"
    OBVIOUS
  <2> QED BY <1>0, <1>2, <2>1, <2>2, <2>3, NodeGood
<1>8. /\ RunInv' /\ faults' \in 0 .. MaxFaults
      /\ run'.state \in {"idle", "running", "done", "refused", "aborted"}
  BY <1>0, <1>3, <1>5, <1>6, <1>7, Recording
<1>9. RegistryOK'
  <2>1. DOMAIN outputs' \subseteq TableNames
    BY <1>0, <1>2 DEF RegistryOK, TableNames
  <2> QED BY <1>0, <1>8, <2>1, RegistryKept DEF RegistryOK
<1>10. SettledInv'
  <2>1. Node.output \in dirty
    BY <1>0, <1>3, AtNode DEF StillCovers, OutputsOf
  <2> QED BY <1>0, <1>2, <2>1, SettledKept
<1> QED BY <1>8, <1>9, <1>10 DEF TInv

\* The memo gives what the body would.
LEMMA MemoGives ==
  ASSUME MemoSound, NEW d \in Transforms, NEW tables, MemoKey(d, tables) \in DOMAIN memo
  PROVE  memo[MemoKey(d, tables)] = Applied(d, tables)
<1> DEFINE k == MemoKey(d, tables)
<1>1. k[1] = d /\ k[2] = [t \in d.inputs |-> tables[t]]
  BY DEF MemoKey, Restrict
<1>2. [t \in d.reads |-> k[2][t]] = [t \in d.reads |-> tables[t]]
  BY <1>1, TransformsAssumption
<1>3. memo[k] = <<k[1].body, [t \in k[1].reads |-> k[2][t]]>>
  BY DEF MemoSound, Restrict
<1> HIDE DEF k
<1>4. memo[k] = Applied(d, tables)
  BY <1>1, <1>2, <1>3 DEF Applied, Restrict
<1> QED BY <1>4 DEF k

LEMMA ReuseMemoStep ==
  ASSUME TInv, ReuseMemo
  PROVE  TInv'
<1>0. MemoSound /\ Visiting /\ Running /\ ~Blocked /\ Complete /\ Key \in DOMAIN memo
  BY DEF TInv, ReuseMemo, Visiting
<1>1. UNCHANGED <<known, active, memo, starts, source, settled, dirty>>
  BY DEF ReuseMemo, registry, history
<1>2. Node \in Transforms
  BY <1>0, AtNode
<1>3. PICK content : content = memo[Key]
  OBVIOUS
<1>4. content = Applied(Node, run.tables)
  BY <1>0, <1>2, <1>3, MemoGives DEF Key
<1>5. Install(content, "memo")
  BY <1>3 DEF ReuseMemo
<1>6. MemoSound'
  BY <1>0, <1>1 DEF MemoSound
<1> QED BY <1>0, <1>1, <1>4, <1>5, <1>6, InstallStep

LEMMA ExecuteStep ==
  ASSUME TInv, Execute
  PROVE  TInv'
<1>0. MemoSound /\ Visiting /\ Running /\ ~Blocked /\ Complete
  BY DEF TInv, Execute, Executable, Visiting
<1>1. UNCHANGED <<known, active, starts, source, settled, dirty>>
  BY DEF Execute, registry, history
<1>2. Node \in Transforms
  BY <1>0, AtNode
<1>3. PICK content : content = Applied(Node, run.tables)
  OBVIOUS
<1>4. Install(content, "success") /\ memo' = With(memo, Key, content)
  BY <1>3 DEF Execute
<1>5. MemoSound'
  <2>1. Key[1] = Node /\ Key[2] = [t \in Node.inputs |-> run.tables[t]]
    BY DEF Key, MemoKey, Restrict
  <2>2. [t \in Node.reads |-> Key[2][t]] = [t \in Node.reads |-> run.tables[t]]
    BY <1>2, <2>1, TransformsAssumption
  <2>3. content = <<Key[1].body, Restrict(Key[2], Key[1].reads)>>
    BY <1>3, <2>1, <2>2 DEF Applied, Restrict
  <2>4. PICK key : key = Key
    OBVIOUS
  <2>5. /\ DOMAIN memo' = DOMAIN memo \cup {key} /\ memo'[key] = content
        /\ \A k \in DOMAIN memo : k # key => memo'[k] = memo[k]
    BY <1>4, <2>4 DEF With
  <2> QED BY <1>0, <2>3, <2>4, <2>5 DEF MemoSound
<1> QED BY <1>0, <1>1, <1>3, <1>4, <1>5, InstallStep

LEMMA AttemptFailsStep ==
  ASSUME TInv, AttemptFails
  PROVE  TInv'
<1>0. RegistryOK /\ SettledInv /\ MemoSound /\ Visiting /\ Running
  BY DEF TInv, AttemptFails, Executable, Visiting
<1>1. UNCHANGED <<known, active, memo, outputs, starts, source, settled, dirty>>
  BY DEF AttemptFails, registry, history
<1>2. faults' \in 0 .. MaxFaults
  BY <1>0, OneFaultMore DEF AttemptFails
<1>3. DOMAIN run = Fields /\ run.state = "running"
  BY <1>0, AtNode DEF RunShape, Running
<1>4. /\ DOMAIN run' = Fields /\ run'.state = run.state
      /\ \A f \in Fields : f # "attempt" => run'[f] = run[f]
  BY <1>3 DEF AttemptFails, Fields
<1>5. /\ run'.order = run.order /\ run'.changed = run.changed /\ run'.cone = run.cone
      /\ run'.given = run.given /\ run'.tables = run.tables /\ run'.failed = run.failed
      /\ run'.outs = run.outs /\ run'.status = run.status /\ run'.plan = run.plan
      /\ run'.covers = run.covers
  BY <1>4 DEF Fields
<1>6. Active' = Active /\ MadeFrom' = MadeFrom /\ Visited' = Visited
  BY <1>1, <1>5 DEF Active, MadeFrom, Visited
<1>7. \A i : (Bad(i)' <=> Bad(i)) /\ (Made(i)' <=> Made(i)) /\ Out(i)' = Out(i)
  BY <1>5 DEF Bad, Made, Out
<1>8. RunShape /\ ConeClosed /\ RunTables /\ NodeStatus /\ RunExact /\ StillCovers
  BY <1>0, AtNode
<1>9. RunShape' /\ ConeClosed'
  BY <1>4, <1>5, <1>6, <1>8 DEF RunShape, ConeClosed
<1>10. RunTables' /\ NodeStatus' /\ RunExact'
  BY <1>1, <1>5, <1>6, <1>7, <1>8 DEF RunTables, NodeStatus, RunExact
<1>11. StillCovers'
  BY <1>1, <1>4, <1>5, <1>6, <1>8 DEF StillCovers, Covers
<1>12. RegistryOK'
  BY <1>0, <1>1, <1>2, <1>3, <1>4, RegistryKept DEF RegistryOK
<1>13. SettledInv' /\ MemoSound'
  BY <1>0, <1>1, SettledKept DEF MemoSound
<1> QED BY <1>9, <1>10, <1>11, <1>12, <1>13 DEF TInv, RunInv

LEMMA LastAttemptFailsStep ==
  ASSUME TInv, LastAttemptFails
  PROVE  TInv'
<1>0. RegistryOK /\ SettledInv /\ MemoSound /\ Visiting /\ ~Blocked /\ Running
  BY DEF TInv, LastAttemptFails, Executable, Visiting
<1>1. UNCHANGED <<known, active, memo, outputs, starts, source, settled, dirty>>
  BY DEF LastAttemptFails, registry, history
<1>2. faults' \in 0 .. MaxFaults
  BY <1>0, OneFaultMore DEF LastAttemptFails
<1>3. DOMAIN run = Fields /\ run.state = "running"
  BY <1>0, AtNode DEF RunShape, Running
<1>4. run' = [run EXCEPT !.failed = @ \cup {Node.output}, !.status = Append(@, "failed"), !.attempt = 0]
  BY DEF LastAttemptFails, MarkedFailed
<1>5. /\ Onward("failed") /\ run'.tables = run.tables /\ run'.outs = run.outs
      /\ run'.failed = run.failed \cup {Node.output}
  BY <1>1, <1>3, <1>4 DEF Onward, Fields
<1>6. RunInv'
  BY <1>0, <1>1, <1>5, NodeBad
<1>7. RegistryOK'
  BY <1>0, <1>1, <1>2, <1>3, <1>5, RegistryKept DEF RegistryOK, Onward
<1>8. SettledInv' /\ MemoSound'
  BY <1>0, <1>1, SettledKept DEF MemoSound
<1> QED BY <1>6, <1>7, <1>8 DEF TInv

LEMMA FinishStep ==
  ASSUME TInv, Finish
  PROVE  TInv'
<1>0. /\ RegistryOK /\ SettledInv /\ MemoSound
      /\ RunShape /\ ConeClosed /\ RunTables /\ NodeStatus /\ RunExact /\ StillCovers
  BY DEF TInv, Finish, RunInv, Going
<1>1. /\ UNCHANGED <<known, active, memo, outputs, starts, source, faults>>
      /\ run' = [run EXCEPT !.state = "done"]
      /\ run.state = "running" /\ Len(run.status) = Len(run.order)
  BY DEF Finish, registry
<1>2. /\ DOMAIN run' = Fields /\ run'.state = "done" /\ run'.order = run.order
      /\ run'.changed = run.changed /\ run'.cone = run.cone /\ run'.given = run.given
      /\ run'.tables = run.tables /\ run'.failed = run.failed /\ run'.outs = run.outs
      /\ run'.status = run.status /\ run'.plan = run.plan /\ run'.covers = run.covers
  BY <1>0, <1>1 DEF RunShape, Fields
<1>3. Active' = Active /\ MadeFrom' = MadeFrom /\ Visited' = Visited
  BY <1>1, <1>2 DEF Active, MadeFrom, Visited
<1>4. \A i : (Bad(i)' <=> Bad(i)) /\ (Made(i)' <=> Made(i)) /\ Out(i)' = Out(i)
  BY <1>2 DEF Bad, Made, Out
<1>5. RunShape' /\ ConeClosed'
  BY <1>0, <1>1, <1>2, <1>3 DEF RunShape, ConeClosed
<1>6. RunTables' /\ NodeStatus' /\ RunExact'
  BY <1>0, <1>1, <1>2, <1>3, <1>4 DEF RunTables, NodeStatus, RunExact
<1>7. StillCovers'
  BY <1>2 DEF StillCovers
<1>8. RunInv' /\ MemoSound'
  BY <1>0, <1>1, <1>5, <1>6, <1>7 DEF RunInv, MemoSound
<1>9. CASE ~(run.covers /\ run.failed = {})
  <2>1. UNCHANGED <<settled, dirty>>
    BY <1>9 DEF Finish, history
  <2>2. RegistryOK' /\ SettledInv'
    BY <1>0, <1>1, <1>2, <2>1, RegistryKept, SettledKept DEF RegistryOK
  <2> QED BY <1>8, <2>2 DEF TInv
<1>10. CASE run.covers /\ run.failed = {}
  <2>1. settled' = <<[given |-> run.given, active |-> Active]>> /\ dirty' = {}
    BY <1>10 DEF Finish
  <2>2. /\ settled'[1].given = run.given /\ settled'[1].active = Active /\ settled' # <<>>
    BY <2>1
  <2>3. RegistryOK'
    BY <1>0, <1>1, <1>2, <2>1, RegistryKept DEF RegistryOK
  <2>4. Active \subseteq Transforms
    BY <1>0 DEF RegistryOK, Active, Range
  <2>5. Sortable(Active)
    <3>1. run.order \in Seq(Active) /\ Len(run.order) = Cardinality(Active)
      BY <1>0, Places DEF RunShape
    <3>2. run.order \in [1 .. Cardinality(Active) -> Active]
      BY <3>1
    <3> QED BY <1>0, <3>2 DEF Sortable, RunShape
  <2>6. ASSUME NEW d \in Active
        PROVE  /\ d.inputs \subseteq DOMAIN MadeFrom
               /\ d.output \in DOMAIN outputs /\ outputs[d.output] = MadeFrom[d.output]
    <3>1. PICK i \in Visited : run.order[i] = d
      BY <1>0, <1>1, Places DEF RunShape, Visited
    <3>2. ~Bad(i)
      BY <1>0, <1>10, <3>1 DEF NodeStatus
    <3> QED BY <1>0, <1>10, <3>1, <3>2 DEF RunTables, RunExact, Out
  <2>7. SettledInv'
    BY <1>0, <1>1, <2>2, <2>4, <2>5, <2>6 DEF SettledInv, MadeFrom, RunShape
  <2> QED BY <1>8, <2>3, <2>7 DEF TInv
<1> QED BY <1>9, <1>10

LEMMA EditStep ==
  ASSUME TInv, NEW t \in Sources, Edit(t)
  PROVE  TInv'
<1>0. RegistryOK /\ SettledInv /\ MemoSound
  BY DEF TInv
<1>1. /\ UNCHANGED <<known, active, memo, outputs, starts, faults, settled, dirty>>
      /\ run' = Idle /\ source' = [t2 \in DOMAIN source |-> source'[t2]]
  BY DEF Edit, registry, history
<1>2. RegistryOK'
  BY <1>0, <1>1, RegistryKept DEF RegistryOK, Idle
<1>3. RunInv' /\ SettledInv' /\ MemoSound'
  BY <1>0, <1>1, NotGoing, SettledKept DEF MemoSound, Idle
<1> QED BY <1>2, <1>3 DEF TInv

LEMMA TransformStart ==
  ASSUME TransformInit
  PROVE  TInv
<1>1. RegistryOK
  BY BoundsAssumption DEF TransformInit, RegistryOK, Active, Range, Idle
<1>2. MemoSound /\ RunInv /\ SettledInv
  BY DEF TransformInit, MemoSound, RunInv, Going, Idle, SettledInv
<1> QED BY <1>1, <1>2 DEF TInv

LEMMA TransformStep ==
  ASSUME TInv, [TransformNext]_transformVars
  PROVE  TInv'
<1>1. CASE \E d \in Transforms : RegisterTransform(d)
  BY <1>1, RegisterStep
<1>2. CASE \E changed \in Calls, retries \in Retries : Start(changed, retries)
  BY <1>2, StartStep
<1>3. CASE ReuseOutput
  BY <1>3, ReuseOutputStep
<1>4. CASE SkipBlocked
  BY <1>4, SkipBlockedStep
<1>5. CASE MissingInput
  BY <1>5, MissingInputStep
<1>6. CASE ReuseMemo
  BY <1>6, ReuseMemoStep
<1>7. CASE Execute
  BY <1>7, ExecuteStep
<1>8. CASE AttemptFails
  BY <1>8, AttemptFailsStep
<1>9. CASE LastAttemptFails
  BY <1>9, LastAttemptFailsStep
<1>10. CASE Finish
  BY <1>10, FinishStep
<1>11. CASE \E t \in Sources : Edit(t)
  BY <1>11, EditStep
<1>12. CASE UNCHANGED transformVars
  <2>1. UNCHANGED <<known, active, memo, outputs, source, run, starts, faults, settled, dirty>>
    BY <1>12 DEF transformVars
  <2>2. /\ RegistryOK' = RegistryOK /\ MemoSound' = MemoSound /\ SettledInv' = SettledInv
        /\ Active' = Active /\ Visited' = Visited /\ MadeFrom' = MadeFrom
    BY <2>1 DEF RegistryOK, MemoSound, SettledInv, Active, Visited, MadeFrom
  <2>3. \A i : (Bad(i)' <=> Bad(i)) /\ (Made(i)' <=> Made(i)) /\ Out(i)' = Out(i)
    BY <2>1 DEF Bad, Made, Out
  <2>4. (RunShape => RunShape') /\ (ConeClosed => ConeClosed') /\ (StillCovers => StillCovers')
    BY <2>1, <2>2 DEF RunShape, ConeClosed, StillCovers, Covers
  <2>5. (RunTables => RunTables') /\ (NodeStatus => NodeStatus') /\ (RunExact => RunExact')
    BY <2>1, <2>2, <2>3 DEF RunTables, NodeStatus, RunExact
  <2>6. RunInv'
    BY <2>1, <2>4, <2>5 DEF TInv, RunInv, Going
  <2> QED BY <2>2, <2>6 DEF TInv
<1> QED BY <1>1, <1>2, <1>3, <1>4, <1>5, <1>6, <1>7, <1>8, <1>9, <1>10, <1>11, <1>12
        DEF TransformNext

THEOREM TransformInvariant == TransformSpec => []TInv
<1>1. TransformInit => TInv
  BY TransformStart
<1>2. TInv /\ [TransformNext]_transformVars => TInv'
  BY TransformStep
<1> QED BY <1>1, <1>2, PTL DEF TransformSpec

-----------------------------------------------------------------------------
(* The properties.                                                         *)

LEMMA EndedRun ==
  ASSUME TInv, run.state \in {"running", "done"}
  PROVE  /\ RunShape /\ ConeClosed /\ RunTables /\ NodeStatus /\ RunExact
         /\ Visited \subseteq DOMAIN run.order
         /\ run.state = "done" => Visited = DOMAIN run.order
         /\ \A i \in DOMAIN run.order : run.order[i] \in Active
         /\ \A d \in Active : \E i \in DOMAIN run.order : run.order[i] = d
         /\ \A i, j \in DOMAIN run.order : run.order[i] = run.order[j] => i = j
         /\ \A i, j \in DOMAIN run.order : Out(i) = Out(j) => i = j
         /\ \A i, j \in DOMAIN run.order : Out(j) \in run.order[i].inputs => j < i
         /\ \A i \in Visited : run.status[i] \in Statuses
         /\ Len(run.order) \in Nat /\ DOMAIN run.order = 1 .. Len(run.order)
<1>1. RunShape /\ ConeClosed /\ RunTables /\ NodeStatus /\ RunExact
  BY DEF TInv, RunInv, Going
<1>2. /\ Len(run.order) \in Nat /\ DOMAIN run.order = 1 .. Len(run.order)
      /\ \A i, j \in DOMAIN run.order : run.order[i] = run.order[j] => i = j
      /\ \A d \in Active : \E i \in DOMAIN run.order : run.order[i] = d
      /\ \A i \in DOMAIN run.order : run.order[i] \in Active
      /\ \A i, j \in DOMAIN run.order : run.order[j].output \in run.order[i].inputs => j < i
  BY <1>1, Places DEF RunShape
<1>3. /\ Visited \subseteq DOMAIN run.order
      /\ run.state = "done" => Visited = DOMAIN run.order
      /\ \A i \in Visited : run.status[i] \in Statuses
  BY <1>1, <1>2 DEF RunShape, Visited
<1>4. \A i, j \in DOMAIN run.order : Out(i) = Out(j) => i = j
  BY <1>1, <1>2 DEF RunShape, OneOutput, Out
<1> QED BY <1>1, <1>2, <1>3, <1>4 DEF Out

LEMMA TypesHold ==
  ASSUME TInv
  PROVE  TransformTypeOK
<1>1. RegistryOK
  BY DEF TInv
<1>2. ASSUME run.state \in {"running", "done"}
      PROVE  /\ Len(run.status) <= Len(run.order) /\ DOMAIN run.plan = DOMAIN run.order
             /\ DOMAIN run.outs \subseteq {run.order[i].output : i \in DOMAIN run.status}
  <2>1. RunShape /\ RunTables
    BY <1>2, EndedRun
  <2>2. DOMAIN run.status = Visited
    BY <2>1 DEF RunShape, Visited
  <2> QED BY <2>1, <2>2 DEF RunShape, RunTables, Out
<1> QED BY <1>1, <1>2 DEF TransformTypeOK, RegistryOK

LEMMA ExactResults ==
  ASSUME TInv, Ended, run.covers
  PROVE  run.outs = Restrict(MadeFrom, OutputsOf(run.cone) \ run.failed)
<1> DEFINE names == OutputsOf(run.cone) \ run.failed
<1>0. run.state \in {"running", "done"} /\ run.state = "done"
  BY DEF Ended
<1>1. /\ RunTables /\ NodeStatus /\ RunExact /\ ConeClosed
      /\ Visited = DOMAIN run.order
      /\ \A i, j \in DOMAIN run.order : Out(i) = Out(j) => i = j
      /\ \A d \in Active : \E i \in DOMAIN run.order : run.order[i] = d
      /\ \A i \in Visited : run.status[i] \in Statuses
  BY <1>0, EndedRun
<1>2. \A i \in Visited : Made(i) <=> run.order[i] \in run.cone /\ ~Bad(i)
  BY <1>1 DEF NodeStatus, Made, Bad, Statuses
<1>3. \A i \in Visited : Bad(i) <=> Out(i) \in run.failed
  BY <1>1 DEF NodeStatus
<1>4. DOMAIN run.outs = names
  <2>1. \A t : t \in DOMAIN run.outs <=> \E i \in Visited : Made(i) /\ Out(i) = t
    BY <1>1 DEF RunTables
  <2>2. \A t : t \in names <=> \E i \in Visited : Made(i) /\ Out(i) = t
    <3>1. ASSUME NEW t \in names PROVE \E i \in Visited : Made(i) /\ Out(i) = t
      <4>1. PICK d \in run.cone : d.output = t
        BY DEF OutputsOf
      <4>2. PICK i \in Visited : run.order[i] = d
        BY <1>1 DEF ConeClosed
      <4> QED BY <1>2, <1>3, <4>1, <4>2 DEF Out
    <3>2. ASSUME NEW i \in Visited, Made(i) PROVE Out(i) \in names
      BY <1>2, <1>3, <3>2 DEF OutputsOf, Out
    <3> HIDE DEF names
    <3> QED BY <3>1, <3>2
  <2> HIDE DEF names
  <2> QED BY <2>1, <2>2
<1>5. ASSUME NEW t \in DOMAIN run.outs PROVE run.outs[t] = MadeFrom[t]
  <2>1. PICK i \in Visited : Made(i) /\ Out(i) = t
    BY <1>1 DEF RunTables
  <2>2. run.outs[t] = run.tables[t]
    BY <1>1 DEF RunTables
  <2> QED BY <1>1, <1>2, <2>1, <2>2 DEF RunExact
<1>6. run.outs = [t \in DOMAIN run.outs |-> run.outs[t]]
  BY <1>1 DEF RunTables
<1>7. run.outs = [t \in names |-> MadeFrom[t]]
  BY <1>4, <1>5, <1>6
<1> QED BY <1>7 DEF Restrict

\* Of a run that ended: a node is skipped exactly when a node upstream of it failed.
LEMMA Isolated ==
  ASSUME TInv, Ended
  PROVE  FailureIsolated
<1> DEFINE n == Len(run.order)
           StatusOf(d) == run.status[CHOOSE i \in DOMAIN run.order : run.order[i] = d]
           failing == {d \in Active : StatusOf(d) = "failed"}
           Reached(d) == \E e \in failing : d \in Downstream(e)
           Stopped(d) == StatusOf(d) \in {"failed", "upstream_failed"}
<1>0. run.state \in {"running", "done"} /\ run.state = "done"
  BY DEF Ended
<1>1. /\ NodeStatus /\ ConeClosed /\ Visited = DOMAIN run.order
      /\ \A i \in DOMAIN run.order : run.order[i] \in Active
      /\ \A d \in Active : \E i \in DOMAIN run.order : run.order[i] = d
      /\ \A i, j \in DOMAIN run.order : run.order[i] = run.order[j] => i = j
      /\ \A i, j \in DOMAIN run.order : Out(j) \in run.order[i].inputs => j < i
      /\ n \in Nat /\ DOMAIN run.order = 1 .. n
  BY <1>0, EndedRun
<1>2. ASSUME NEW i \in DOMAIN run.order PROVE StatusOf(run.order[i]) = run.status[i]
  <2>1. \A j \in DOMAIN run.order : run.order[j] = run.order[i] => j = i
    BY <1>1
  <2> QED BY <2>1
<1> HIDE DEF StatusOf, n
\* The status of a node, from those of the nodes upstream.
<1>3. ASSUME NEW d \in Active
      PROVE  /\ StatusOf(d) = "outside-delta" <=> d \notin run.cone
             /\ StatusOf(d) = "upstream_failed" <=>
                  d \in run.cone /\ \E u \in Upstream(d) : Stopped(u)
  <2>1. PICK i \in Visited : run.order[i] = d
    BY <1>1
  <2>2. StatusOf(d) = run.status[i]
    BY <1>1, <1>2, <2>1
  <2>3. (\E j \in Visited : Bad(j) /\ Out(j) \in d.inputs) <=> \E u \in Upstream(d) : Stopped(u)
    <3>1. ASSUME NEW j \in Visited, Bad(j), Out(j) \in d.inputs PROVE \E u \in Upstream(d) : Stopped(u)
      <4>1. run.order[j] \in Upstream(d) /\ StatusOf(run.order[j]) = run.status[j]
        BY <1>1, <1>2, <3>1 DEF Upstream, Out
      <4> QED BY <3>1, <4>1 DEF Bad
    <3>2. ASSUME NEW u \in Upstream(d), Stopped(u)
          PROVE  \E j \in Visited : Bad(j) /\ Out(j) \in d.inputs
      <4>1. u \in Active /\ u.output \in d.inputs
        BY DEF Upstream
      <4>2. PICK j \in Visited : run.order[j] = u
        BY <1>1, <4>1
      <4>3. StatusOf(u) = run.status[j]
        BY <1>1, <1>2, <4>2
      <4> QED BY <3>2, <4>1, <4>2, <4>3 DEF Bad, Out
    <3> QED BY <3>1, <3>2
  <2> QED BY <1>1, <2>1, <2>2, <2>3 DEF NodeStatus
\* Downwards: consumers of a stopped node are stopped.
<1>4. ASSUME NEW d \in Active, StatusOf(d) # "failed", Reached(d)
      PROVE  StatusOf(d) = "upstream_failed"
  <2> DEFINE S == {x \in Active : Stopped(x)}
  <2>1. PICK e \in failing : d \in Downstream(e)
    BY <1>4
  <2>2. e \in S /\ S \in SUBSET Active
    OBVIOUS
  <2>3. ASSUME NEW x \in Active, Upstream(x) \cap S # {} PROVE x \in S
    <3>1. PICK u \in Upstream(x) : u \in Active /\ Stopped(u)
      BY <2>3
    <3>2. u \in run.cone
      <4>1. StatusOf(u) # "outside-delta"
        BY <3>1
      <4> QED BY <1>3, <3>1, <4>1
    <3>3. x \in run.cone
      BY <1>1, <3>1, <3>2 DEF ConeClosed, Upstream
    <3>4. StatusOf(x) = "upstream_failed"
      BY <1>3, <3>1, <3>3
    <3> QED BY <3>4
  <2>4. d \in S
    <3> HIDE DEF S, failing
    <3> QED BY <2>1, <2>2, <2>3 DEF Downstream
  <2> QED BY <1>4, <2>4
\* Upwards: above a skipped node, at some distance, one failed.
<1> DEFINE Good == {i \in 0 .. n : \A j \in 1 .. i :
                      StatusOf(run.order[j]) = "upstream_failed" => Reached(run.order[j])}
<1>5. 0 \in Good
  BY <1>1
<1>6. ASSUME NEW i \in 1 .. n, i - 1 \in Good PROVE i \in Good
  <2> DEFINE d == run.order[i]
  <2>0. d \in Active /\ i \in 0 .. n
    BY <1>1
  <2>1. ASSUME StatusOf(d) = "upstream_failed" PROVE Reached(d)
    <3>1. PICK u \in Upstream(d) : Stopped(u)
      BY <1>3, <2>0, <2>1
    <3>2. u \in Active /\ u.output \in d.inputs
      BY DEF Upstream
    <3>3. PICK j \in DOMAIN run.order : run.order[j] = u
      BY <1>1, <3>2
    <3>4. j \in 1 .. i - 1
      <4>1. j < i
        BY <1>1, <3>2, <3>3 DEF Out
      <4> QED BY <1>1, <3>3, <4>1
    <3>5. PICK e \in failing : u \in Downstream(e)
      <4>1. CASE StatusOf(u) = "failed"
        BY <3>2, <4>1 DEF Downstream
      <4>2. CASE StatusOf(u) = "upstream_failed"
        BY <1>6, <3>3, <3>4, <4>2
      <4> QED BY <3>1, <4>1, <4>2
    <3>6. d \in Downstream(e)
      <4> SUFFICES ASSUME NEW S \in SUBSET Active, e \in S,
                          \A x \in Active : Upstream(x) \cap S # {} => x \in S
                   PROVE  d \in S
        BY <2>0 DEF Downstream
      <4>1. u \in S
        BY <3>5 DEF Downstream
      <4> QED BY <2>0, <3>1, <4>1
    <3> QED BY <3>5, <3>6
  <2>2. ASSUME NEW j \in 1 .. i, StatusOf(run.order[j]) = "upstream_failed" PROVE Reached(run.order[j])
    <3>1. CASE j = i
      BY <2>1, <2>2, <3>1
    <3>2. CASE j # i
      <4>1. j \in 1 .. i - 1
        BY <3>2
      <4> QED BY <1>6, <2>2, <4>1
    <3> QED BY <3>1, <3>2
  <2> QED BY <2>0, <2>2
<1>7. n \in Good
  <2> HIDE DEF Good
  <2> QED BY <1>1, <1>5, <1>6, StageInduction
<1>8. \A d \in Active : StatusOf(d) = "upstream_failed" => Reached(d)
  BY <1>1, <1>7
<1>9. \A d \in Active : StatusOf(d) = "upstream_failed" <=> d \notin failing /\ Reached(d)
  <2>1. \A d \in failing : StatusOf(d) # "upstream_failed"
    OBVIOUS
  <2>2. \A d \in Active : d \notin failing => StatusOf(d) # "failed"
    OBVIOUS
  <2> HIDE DEF Reached, failing
  <2> QED BY <1>4, <1>8, <2>1, <2>2
<1> QED BY <1>9 DEF FailureIsolated, StatusOf

\* A run that covers what has changed since the last exact one returns what a
\* full run over the same tables would: exact results whatever the memo and the
\* materializations hold.
THEOREM ResultsAlwaysExact == TransformSpec => []ResultsExact
<1>1. ASSUME TInv PROVE ResultsExact
  <2>1. TransformTypeOK
    BY <1>1, TypesHold
  <2>2. ASSUME Ended, run.covers
        PROVE  run.outs = Restrict(Evaluated(Active, run.given), {d.output : d \in run.cone} \ run.failed)
    BY <1>1, <2>2, ExactResults DEF MadeFrom, OutputsOf
  <2> QED BY <2>1, <2>2 DEF ResultsExact
<1> QED BY <1>1, TransformInvariant, PTL

\* What no run has visited since an exact one is still what that run left, and
\* that is what a full run computes.
THEOREM OutputsStaySettled == TransformSpec => []OutputsSettled
<1>1. TInv => OutputsSettled
  BY DEF TInv, SettledInv, OutputsSettled
<1> QED BY <1>1, TransformInvariant, PTL

\* A failure stops what is downstream of it, at any distance, and nothing else.
THEOREM FailureStaysIsolated == TransformSpec => []FailureIsolated
<1>1. TInv => FailureIsolated
  BY Isolated DEF FailureIsolated
<1> QED BY <1>1, TransformInvariant, PTL

-----------------------------------------------------------------------------
(* The plan.  It is kept when no transform makes a table the caller passes. *)

NoSourceMade == \A d \in Transforms : d.output \notin Sources

\* foreseen[i]: the tables the plan knew after i nodes of the order, which are the
\* given ones and what the memo holds.
Known(foreseen) ==
  /\ foreseen[0] = run.given
  /\ \A i \in 1 .. Len(run.order) :
       /\ run.plan[i] = "outside-delta" <=> run.order[i] \notin run.cone
       /\ IF run.plan[i] = "memo"
          THEN /\ run.order[i].inputs \subseteq DOMAIN foreseen[i - 1]
               /\ MemoKey(run.order[i], foreseen[i - 1]) \in DOMAIN memo
               /\ foreseen[i] = With(foreseen[i - 1], Out(i), memo[MemoKey(run.order[i], foreseen[i - 1])])
          ELSE foreseen[i] = foreseen[i - 1]
  /\ \A i \in 0 .. Len(run.order) : DOMAIN foreseen[i] \subseteq Sources \cup {Out(j) : j \in 1 .. i}

\* What was foreseen for the nodes visited so far has come true.
CameTrue(foreseen) ==
  /\ \A t \in DOMAIN foreseen[Len(run.status)] :
       t \in DOMAIN run.tables /\ t \notin run.failed /\ run.tables[t] = foreseen[Len(run.status)][t]
  /\ \A i \in Visited : run.plan[i] = "memo" => run.status[i] = "memo"

PlanInv == Going => \E foreseen : Known(foreseen) /\ CameTrue(foreseen)

\* The plan a run starts with.
LEMMA PlanStart ==
  ASSUME TInv', run'.state = "running", run'.tables = run'.given, run'.failed = {}, run'.status = <<>>,
         memo' = memo, run'.plan = Planned(run'.order, run'.given, run'.cone)
  PROVE  PlanInv'
<1>1. PICK order : order = run'.order
  OBVIOUS
<1>2. PICK given : given = run'.given
  OBVIOUS
<1>3. PICK cone : cone = run'.cone
  OBVIOUS
<1> DEFINE n == Len(order)
           Contents == {memo[k] : k \in DOMAIN memo} \cup {given[t] : t \in Sources}
           Names == Sources \cup {order[j].output : j \in 1 .. n}
           S == UNION {[D -> Contents] : D \in SUBSET Names}
           Step(i, x) == IF order[i] \in cone /\ Provable(order[i], x)
                         THEN With(x, order[i].output, memo[MemoKey(order[i], x)]) ELSE x
           F == [i \in 1 .. n |-> [x \in S |-> Step(i, x)]]
           Body(g) == [i \in 0 .. n |->
                         IF i = 0 THEN given
                         ELSE LET d == order[i]
                                  before == g[i - 1]
                              IN IF d \in cone /\ Provable(d, before)
                                 THEN With(before, d.output, memo[MemoKey(d, before)]) ELSE before]
<1>4. n \in Nat /\ DOMAIN order = 1 .. n /\ RunShape'
  <2>1. RunShape'
    BY DEF TInv, RunInv, Going
  <2>2. Sorted(order, Active')
    BY <1>1, <2>1 DEF RunShape
  <2>3. Len(order) \in Nat /\ DOMAIN order = 1 .. Len(order)
    BY <2>2, Places
  <2> QED BY <2>1, <2>3
<1>5. given \in S
  <2>1. given = [t \in Sources |-> given[t]]
    BY <1>2, <1>4 DEF RunShape
  <2>2. given \in [Sources -> Contents] /\ Sources \in SUBSET Names
    BY <2>1
  <2> QED BY <2>2
<1>6. ASSUME NEW i \in 1 .. n, NEW x \in S PROVE Step(i, x) \in S
  <2>1. PICK D \in SUBSET Names : x \in [D -> Contents]
    OBVIOUS
  <2>2. CASE order[i] \in cone /\ Provable(order[i], x)
    <3>1. PICK key \in DOMAIN memo : key = MemoKey(order[i], x)
      BY <2>2 DEF Provable
    <3>2. Step(i, x) = [t \in D \cup {order[i].output} |-> IF t = order[i].output THEN memo[key] ELSE x[t]]
      BY <2>1, <2>2, <3>1 DEF With
    <3>3. memo[key] \in Contents /\ order[i].output \in Names
      OBVIOUS
    <3> HIDE DEF Contents, Names, Step
    <3>4. Step(i, x) \in [D \cup {order[i].output} -> Contents]
      BY <2>1, <3>2, <3>3
    <3>5. D \cup {order[i].output} \in SUBSET Names
      BY <3>3
    <3> QED BY <3>4, <3>5
  <2>3. CASE ~(order[i] \in cone /\ Provable(order[i], x))
    BY <2>3
  <2> QED BY <2>2, <2>3
<1> HIDE DEF S
<1>7. \A i \in 1 .. n : \A x \in S : F[i][x] = Step(i, x) /\ F[i][x] \in S
  BY <1>6
<1> HIDE DEF F, n
<1>8. PICK g : Recorded(g, n, S, given, F)
  BY <1>4, <1>5, <1>7, StagesOf
<1>9. g \in [0 .. n -> S] /\ g[0] = given /\ \A i \in 1 .. n : g[i] = Step(i, g[i - 1])
  <2>1. g \in [0 .. n -> S] /\ g[0] = given /\ \A i \in 1 .. n : g[i] = F[i][g[i - 1]]
    BY <1>8 DEF Recorded
  <2>2. \A i \in 1 .. n : i - 1 \in 0 .. n
    BY <1>4
  <2> HIDE DEF Step
  <2> QED BY <1>7, <2>1, <2>2
<1>10. g = Body(g)
  <2>1. \A i \in 0 .. n : i # 0 => i \in 1 .. n
    BY <1>4
  <2>2. \A i \in 1 .. n : Step(i, g[i - 1]) =
          LET d == order[i]
              before == g[i - 1]
          IN IF d \in cone /\ Provable(d, before)
             THEN With(before, d.output, memo[MemoKey(d, before)]) ELSE before
    OBVIOUS
  <2> HIDE DEF Step
  <2> QED BY <1>9, <2>1, <2>2
<1> DEFINE h == CHOOSE f : f = Body(f)
<1>11. h = Body(h)
  BY <1>10
<1>12. Planned(order, given, cone) =
         [i \in 1 .. n |-> IF order[i] \notin cone THEN "outside-delta"
                           ELSE IF Provable(order[i], h[i - 1]) THEN "memo" ELSE "execute"]
  BY DEF Planned, n
<1> HIDE DEF h
<1>13. h[0] = given /\ \A i \in 1 .. n : h[i] = Step(i, h[i - 1])
  <2>1. \A i \in 1 .. n : i \in 0 .. n /\ i # 0
    BY <1>4
  <2>2. 0 \in 0 .. n
    BY <1>4
  <2> QED BY <1>11, <2>1, <2>2
<1>14. PICK foreseen : foreseen = h
  OBVIOUS
<1>15. foreseen[0] = given /\ \A i \in 1 .. n : foreseen[i] = Step(i, foreseen[i - 1])
  BY <1>13, <1>14
<1>16. \A i \in 1 .. n :
         run'.plan[i] = IF order[i] \notin cone THEN "outside-delta"
                        ELSE IF Provable(order[i], foreseen[i - 1]) THEN "memo" ELSE "execute"
  BY <1>1, <1>2, <1>3, <1>12, <1>14
<1> DEFINE Before(i) == Sources \cup {order[j].output : j \in 1 .. i}
           Good == {i \in 0 .. n : \A m \in 0 .. i : DOMAIN foreseen[m] \subseteq Before(m)}
<1>17. 0 \in Good
  <2>1. DOMAIN given = Sources
    BY <1>2, <1>4 DEF RunShape
  <2> QED BY <1>4, <1>15, <2>1
<1>18. ASSUME NEW i \in 1 .. n, i - 1 \in Good PROVE i \in Good
  <2>0. i - 1 \in 0 .. i - 1 /\ i \in 0 .. n
    BY <1>4
  <2>1. DOMAIN foreseen[i - 1] \subseteq Before(i - 1)
    BY <1>18, <2>0
  <2>2. Before(i - 1) \cup {order[i].output} \subseteq Before(i)
    <3>1. i \in 1 .. i /\ \A j \in 1 .. i - 1 : j \in 1 .. i
      BY <1>4
    <3> QED BY <3>1
  <2>3. DOMAIN foreseen[i] \subseteq DOMAIN foreseen[i - 1] \cup {order[i].output}
    BY <1>15 DEF With
  <2> HIDE DEF Before
  <2>4. \A m \in 0 .. i : m = i \/ m \in 0 .. i - 1
    BY <1>4
  <2> QED BY <1>18, <2>0, <2>1, <2>2, <2>3, <2>4
<1>19. n \in Good
  <2> HIDE DEF Good
  <2> QED BY <1>4, <1>17, <1>18, StageInduction
<1>20. Known(foreseen)'
  <2>1. ASSUME NEW i \in 1 .. n
        PROVE  /\ run'.plan[i] = "outside-delta" <=> order[i] \notin cone
               /\ IF run'.plan[i] = "memo"
                  THEN /\ order[i].inputs \subseteq DOMAIN foreseen[i - 1]
                       /\ MemoKey(order[i], foreseen[i - 1]) \in DOMAIN memo
                       /\ foreseen[i] = With(foreseen[i - 1], order[i].output, memo[MemoKey(order[i], foreseen[i - 1])])
                  ELSE foreseen[i] = foreseen[i - 1]
    <3>1. CASE order[i] \notin cone
      BY <1>15, <1>16, <3>1
    <3>2. CASE order[i] \in cone /\ Provable(order[i], foreseen[i - 1])
      BY <1>15, <1>16, <3>2 DEF Provable
    <3>3. CASE order[i] \in cone /\ ~Provable(order[i], foreseen[i - 1])
      BY <1>15, <1>16, <3>3
    <3> QED BY <3>1, <3>2, <3>3
  <2>2. \A i \in 0 .. n : DOMAIN foreseen[i] \subseteq Before(i)
    BY <1>19
  <2> HIDE DEF Step, Good
  <2> QED BY <1>1, <1>2, <1>3, <1>15, <2>1, <2>2 DEF Known, Out, n
<1>21. CameTrue(foreseen)'
  <2>1. Len(run'.status) = 0 /\ Visited' = {}
    BY DEF Visited
  <2> QED BY <1>2, <1>15, <2>1 DEF CameTrue
<1> QED BY <1>20, <1>21 DEF PlanInv

\* A step of a node that keeps to the plan.
LEMMA PlanOnward ==
  ASSUME NoSourceMade, TInv, Running, PlanInv, NEW s, Onward(s),
         \A k \in DOMAIN memo : k \in DOMAIN memo' /\ memo'[k] = memo[k],
         \A t \in DOMAIN run.tables : t # Node.output => t \in DOMAIN run'.tables /\ run'.tables[t] = run.tables[t],
         \A t \in run'.failed : t \in run.failed \/ t = Node.output,
         run.plan[Len(run.status) + 1] = "memo" =>
           /\ s = "memo" /\ Node.output \notin run'.failed
           /\ Node.output \in DOMAIN run'.tables /\ run'.tables[Node.output] = memo[Key]
  PROVE  PlanInv'
<1>1. PICK m : m = Len(run.status) + 1
  OBVIOUS
<1>2. PICK foreseen : Known(foreseen) /\ CameTrue(foreseen)
  BY DEF PlanInv, Going, Running
<1>3. Known(foreseen)'
  <2>1. run'.plan = run.plan /\ run'.order = run.order /\ run'.cone = run.cone /\ run'.given = run.given
    BY DEF Onward
  <2>2. \A i : Out(i)' = Out(i)
    BY <2>1 DEF Out
  <2> QED BY <1>2, <2>1, <2>2 DEF Known
<1>4. /\ Len(run.status) \in Nat /\ m \in 1 .. Len(run.order) /\ m - 1 = Len(run.status)
      /\ Node = run.order[m] /\ Out(m) = Node.output /\ Node \in Transforms
      /\ Len(run'.status) = m /\ run.status \in Seq(Statuses)
  BY <1>1, AtNode DEF Onward, Out, RunShape
<1>5. /\ Visited' = 1 .. m /\ run'.status[m] = s
      /\ \A i \in 1 .. m : i # m => i \in Visited /\ run'.status[i] = run.status[i]
  BY <1>1, <1>4 DEF Visited, Onward
<1>6. /\ \A t \in DOMAIN foreseen[m - 1] :
           t \in DOMAIN run.tables /\ t \notin run.failed /\ run.tables[t] = foreseen[m - 1][t]
      /\ \A i \in Visited : run.plan[i] = "memo" => run.status[i] = "memo"
  BY <1>2, <1>4 DEF CameTrue
<1>7. Node.output \notin DOMAIN foreseen[m - 1]
  <2>1. DOMAIN foreseen[m - 1] \subseteq Sources \cup {Out(j) : j \in 1 .. m - 1}
    BY <1>2, <1>4 DEF Known
  <2>2. ASSUME NEW j \in 1 .. m - 1, Out(j) = Node.output PROVE FALSE
    <3>1. j \in DOMAIN run.order /\ m \in DOMAIN run.order /\ j # m
      BY <1>4, AtNode
    <3> QED BY <1>4, <2>2, <3>1, AtNode
  <2> QED BY <1>4, <2>1, <2>2 DEF NoSourceMade
<1>8. ASSUME NEW t \in DOMAIN foreseen[m - 1]
      PROVE  t \in DOMAIN run'.tables /\ t \notin run'.failed /\ run'.tables[t] = foreseen[m - 1][t]
  BY <1>6, <1>7, <1>8
<1>9. ASSUME NEW t \in DOMAIN foreseen[m]
      PROVE  t \in DOMAIN run'.tables /\ t \notin run'.failed /\ run'.tables[t] = foreseen[m][t]
  <2>1. CASE run.plan[m] = "memo"
    <3>1. /\ Node.inputs \subseteq DOMAIN foreseen[m - 1]
          /\ foreseen[m] = With(foreseen[m - 1], Node.output, memo[MemoKey(Node, foreseen[m - 1])])
      BY <1>2, <1>4, <2>1 DEF Known
    <3>2. MemoKey(Node, foreseen[m - 1]) = Key
      BY <1>4, <1>6, <3>1, SameReads DEF Key
    <3>3. CASE t = Node.output
      BY <1>1, <2>1, <3>1, <3>2, <3>3 DEF With
    <3>4. CASE t # Node.output
      <4>1. t \in DOMAIN foreseen[m - 1] /\ foreseen[m][t] = foreseen[m - 1][t]
        BY <1>9, <3>1, <3>4 DEF With
      <4> QED BY <1>8, <4>1
    <3> QED BY <3>3, <3>4
  <2>2. CASE run.plan[m] # "memo"
    <3>1. foreseen[m] = foreseen[m - 1]
      BY <1>2, <1>4, <2>2 DEF Known
    <3> QED BY <1>8, <1>9, <3>1
  <2> QED BY <2>1, <2>2
<1>10. CameTrue(foreseen)'
  <2>1. \A i \in 1 .. m : run'.plan[i] = "memo" => run'.status[i] = "memo"
    BY <1>1, <1>5, <1>6 DEF Onward
  <2> QED BY <1>4, <1>5, <1>9, <2>1 DEF CameTrue
<1> QED BY <1>3, <1>10 DEF PlanInv

\* A node that is planned from the memo has its turn and is found there.
LEMMA PlannedMemo ==
  ASSUME TInv, Running, PlanInv, run.plan[Len(run.status) + 1] = "memo"
  PROVE  Node \in run.cone /\ ~Blocked /\ Complete /\ Key \in DOMAIN memo
<1>1. PICK m : m = Len(run.status) + 1
  OBVIOUS
<1>2. PICK foreseen : Known(foreseen) /\ CameTrue(foreseen)
  BY DEF PlanInv, Going, Running
<1>3. /\ Len(run.status) \in Nat /\ m \in 1 .. Len(run.order) /\ m - 1 = Len(run.status)
      /\ Node = run.order[m] /\ Node \in Transforms
  BY <1>1, AtNode
<1>4. /\ \A t \in DOMAIN foreseen[m - 1] :
           t \in DOMAIN run.tables /\ t \notin run.failed /\ run.tables[t] = foreseen[m - 1][t]
  BY <1>2, <1>3 DEF CameTrue
<1>5. /\ Node \in run.cone /\ Node.inputs \subseteq DOMAIN foreseen[m - 1]
      /\ MemoKey(Node, foreseen[m - 1]) \in DOMAIN memo
  BY <1>1, <1>2, <1>3 DEF Known
<1>6. MemoKey(Node, foreseen[m - 1]) = Key
  BY <1>3, <1>4, <1>5, SameReads DEF Key
<1> QED BY <1>4, <1>5, <1>6 DEF Blocked, Complete

\* The plan, where the run stands as it was.
LEMMA PlanKept ==
  ASSUME PlanInv, Going, UNCHANGED memo,
         \A f \in {"order", "plan", "cone", "given", "tables", "failed", "status"} : run'[f] = run[f]
  PROVE  PlanInv'
<1>1. PICK foreseen : Known(foreseen) /\ CameTrue(foreseen)
  BY DEF PlanInv
<1>2. /\ run'.plan = run.plan /\ run'.order = run.order /\ run'.cone = run.cone /\ run'.given = run.given
      /\ run'.tables = run.tables /\ run'.failed = run.failed /\ run'.status = run.status
  OBVIOUS
<1>3. \A i : Out(i)' = Out(i)
  BY <1>2 DEF Out
<1>4. Known(foreseen)'
  BY <1>1, <1>2, <1>3 DEF Known
<1>5. CameTrue(foreseen)'
  BY <1>1, <1>2 DEF CameTrue, Visited
<1> QED BY <1>4, <1>5 DEF PlanInv

LEMMA NoPlan ==
  ASSUME run'.state \notin {"running", "done"}
  PROVE  PlanInv'
BY DEF PlanInv, Going

LEMMA PlanStep ==
  ASSUME NoSourceMade, TInv, TInv', PlanInv, [TransformNext]_transformVars
  PROVE  PlanInv'
<1>1. CASE \E d \in Transforms : RegisterTransform(d)
  BY <1>1, NoPlan DEF RegisterTransform, Idle
<1>2. ASSUME NEW changed \in Calls, NEW retries \in Retries, Start(changed, retries) PROVE PlanInv'
  <2>1. CASE OutputsClash \/ Cyclic
    BY <1>2, <2>1, NoPlan DEF Start
  <2>2. CASE ~(OutputsClash \/ Cyclic)
    <3>1. PICK cone : cone = IF changed = FullRun THEN Active ELSE Affected(changed[1])
      OBVIOUS
    <3>2. run' = [state |-> "running", order |-> TopoOrder, delta |-> changed # FullRun,
                  changed |-> changed, cone |-> cone, given |-> source, tables |-> source,
                  retries |-> retries, attempt |-> 0,
                  failed |-> {}, outs |-> <<>>, status |-> <<>>,
                  plan |-> Planned(TopoOrder, source, cone),
                  covers |-> Covers(changed, cone)]
      BY <1>2, <2>2, <3>1 DEF Start
    <3>3. memo' = memo
      BY <1>2 DEF Start
    <3>4. /\ run'.state = "running" /\ run'.tables = run'.given /\ run'.failed = {} /\ run'.status = <<>>
          /\ run'.order = TopoOrder /\ run'.given = source /\ run'.cone = cone
          /\ run'.plan = Planned(TopoOrder, source, cone)
      BY <3>2
    <3>5. run'.plan = Planned(run'.order, run'.given, run'.cone)
      BY <3>4
    <3> QED BY <3>3, <3>4, <3>5, PlanStart
  <2> QED BY <2>1, <2>2
<1>3. ASSUME Running PROVE DOMAIN run = Fields /\ run.state = "running" /\ Node \in Transforms
  BY <1>3, AtNode DEF RunShape, Running
<1>4. CASE ReuseOutput
  <2>1. Running /\ Node \notin run.cone /\ UNCHANGED <<active, source, settled, dirty, memo>>
    BY <1>4 DEF ReuseOutput, registry, history
  <2>2. CASE Node.output \in DOMAIN outputs
    <3>1. run' = [run EXCEPT !.tables = With(@, Node.output, outputs[Node.output]),
                             !.status = Append(@, "outside-delta")]
      BY <1>4, <2>2 DEF ReuseOutput
    <3>2. /\ Onward("outside-delta") /\ run'.failed = run.failed
          /\ run'.tables = With(run.tables, Node.output, outputs[Node.output])
      BY <1>3, <2>1, <3>1 DEF Onward, Fields
    <3>3. run.plan[Len(run.status) + 1] # "memo"
      BY <2>1, PlannedMemo
    <3>4. \A t \in DOMAIN run.tables : t # Node.output => t \in DOMAIN run'.tables /\ run'.tables[t] = run.tables[t]
      BY <3>2 DEF With
    <3> QED BY <2>1, <3>2, <3>3, <3>4, PlanOnward
  <2>3. CASE Node.output \notin DOMAIN outputs
    BY <1>4, <2>3, NoPlan DEF ReuseOutput, Abort
  <2> QED BY <2>2, <2>3
<1>5. CASE SkipBlocked
  <2>1. Running /\ Blocked /\ UNCHANGED <<active, source, settled, dirty, memo>> /\ Record(MarkedFailed("upstream_failed"))
    BY <1>5 DEF SkipBlocked, Visiting, registry, history
  <2>2. CASE run' = MarkedFailed("upstream_failed")
    <3>1. /\ Onward("upstream_failed") /\ run'.failed = run.failed \cup {Node.output}
          /\ run'.tables = run.tables
      BY <1>3, <2>1, <2>2 DEF MarkedFailed, Onward, Fields
    <3>2. run.plan[Len(run.status) + 1] # "memo"
      BY <2>1, PlannedMemo
    <3> QED BY <2>1, <3>1, <3>2, PlanOnward
  <2>3. CASE Abort
    BY <2>3, NoPlan DEF Abort
  <2> QED BY <2>1, <2>2, <2>3 DEF Record
<1>6. CASE MissingInput
  BY <1>6, NoPlan DEF MissingInput, Abort
\* An output is installed, and the plan foresaw it or nothing.
<1>7. ASSUME Running, NEW content, NEW s \in {"memo", "success"}, Install(content, s),
             UNCHANGED <<active, source, settled, dirty>>,
             \A k \in DOMAIN memo : k \in DOMAIN memo' /\ memo'[k] = memo[k],
             run.plan[Len(run.status) + 1] = "memo" => s = "memo" /\ content = memo[Key]
      PROVE  PlanInv'
  <2>1. PICK after : after = [run EXCEPT !.tables = With(@, Node.output, content),
                                         !.outs = With(@, Node.output, content),
                                         !.status = Append(@, s), !.attempt = 0]
    OBVIOUS
  <2>2. Record(after)
    BY <1>7, <2>1 DEF Install
  <2>3. CASE run' = after
    <3>1. /\ Onward(s) /\ run'.tables = With(run.tables, Node.output, content) /\ run'.failed = run.failed
      BY <1>3, <1>7, <2>1, <2>3 DEF Onward, Fields
    <3>2. /\ \A t \in DOMAIN run.tables : t # Node.output => t \in DOMAIN run'.tables /\ run'.tables[t] = run.tables[t]
          /\ Node.output \in DOMAIN run'.tables /\ run'.tables[Node.output] = content
      BY <3>1 DEF With
    <3>3. Node.output \notin run.failed
      <4>1. /\ NodeStatus /\ Visited \subseteq DOMAIN run.order
            /\ \A i, j \in DOMAIN run.order : Out(i) = Out(j) => i = j
            /\ Len(run.status) + 1 \in DOMAIN run.order /\ Node = run.order[Len(run.status) + 1]
            /\ Len(run.status) \in Nat
        BY <1>7, AtNode
      <4>2. Len(run.status) + 1 \notin Visited
        BY <4>1 DEF Visited
      <4> QED BY <4>1, <4>2 DEF NodeStatus, Out
    <3> QED BY <1>7, <3>1, <3>2, <3>3, PlanOnward
  <2>4. CASE Abort
    BY <2>4, NoPlan DEF Abort
  <2> QED BY <2>2, <2>3, <2>4 DEF Record
<1>8. CASE ReuseMemo
  <2>1. Running /\ Install(memo[Key], "memo") /\ UNCHANGED <<active, source, settled, dirty, memo>>
    BY <1>8 DEF ReuseMemo, Visiting, registry, history
  <2>2. PICK content : content = memo[Key]
    OBVIOUS
  <2> QED BY <1>7, <2>1, <2>2
<1>9. CASE Execute
  <2>1. /\ Running /\ Key \notin DOMAIN memo /\ Install(Applied(Node, run.tables), "success")
        /\ memo' = With(memo, Key, Applied(Node, run.tables))
        /\ UNCHANGED <<active, source, settled, dirty>>
    BY <1>9 DEF Execute, Executable, Visiting, registry, history
  <2>2. PICK content : content = Applied(Node, run.tables)
    OBVIOUS
  <2>3. \A k \in DOMAIN memo : k \in DOMAIN memo' /\ memo'[k] = memo[k]
    BY <2>1 DEF With
  <2>4. run.plan[Len(run.status) + 1] # "memo"
    BY <2>1, PlannedMemo
  <2> QED BY <1>7, <2>1, <2>2, <2>3, <2>4
<1>10. CASE AttemptFails
  <2>1. Running /\ run' = [run EXCEPT !.attempt = @ + 1] /\ memo' = memo
    BY <1>10 DEF AttemptFails, Executable, Visiting
  <2>2. \A f \in {"order", "plan", "cone", "given", "tables", "failed", "status"} : run'[f] = run[f]
    BY <1>3, <2>1 DEF Fields
  <2> QED BY <2>1, <2>2, PlanKept DEF Going, Running
<1>11. CASE LastAttemptFails
  <2>1. /\ Running /\ Key \notin DOMAIN memo /\ run' = MarkedFailed("failed")
        /\ UNCHANGED <<active, source, settled, dirty, memo>>
    BY <1>11 DEF LastAttemptFails, Executable, Visiting, registry, history
  <2>2. /\ Onward("failed") /\ run'.failed = run.failed \cup {Node.output}
        /\ run'.tables = run.tables
    BY <1>3, <2>1 DEF MarkedFailed, Onward, Fields
  <2>3. run.plan[Len(run.status) + 1] # "memo"
    BY <2>1, PlannedMemo
  <2> QED BY <2>1, <2>2, <2>3, PlanOnward
<1>12. CASE Finish
  <2>1. run.state = "running" /\ run' = [run EXCEPT !.state = "done"] /\ memo' = memo
    BY <1>12 DEF Finish
  <2>2. DOMAIN run = Fields
    BY <2>1 DEF TInv, RunInv, Going, RunShape
  <2>3. \A f \in {"order", "plan", "cone", "given", "tables", "failed", "status"} : run'[f] = run[f]
    BY <2>1, <2>2 DEF Fields
  <2> QED BY <2>1, <2>3, PlanKept DEF Going
<1>13. CASE \E t \in Sources : Edit(t)
  BY <1>13, NoPlan DEF Edit, Idle
<1>14. CASE UNCHANGED transformVars
  <2>1. run' = run /\ memo' = memo
    BY <1>14 DEF transformVars
  <2>2. CASE Going
    BY <2>1, <2>2, PlanKept
  <2>3. CASE ~Going
    BY <2>1, <2>3, NoPlan DEF Going
  <2> QED BY <2>2, <2>3
<1> QED BY <1>1, <1>2, <1>4, <1>5, <1>6, <1>8, <1>9, <1>10, <1>11, <1>12, <1>13, <1>14
        DEF TransformNext

\* What a plan says of a run comes true, however the run goes, when no transform
\* makes a table the caller passes.
THEOREM PlanAlwaysHonoured == NoSourceMade => (TransformSpec => []PlanHonoured)
<1> SUFFICES ASSUME NoSourceMade PROVE TransformSpec => []PlanHonoured
  OBVIOUS
<1>1. TransformInit => PlanInv
  BY DEF TransformInit, PlanInv, Going, Idle
<1>2. TInv /\ TInv' /\ PlanInv /\ [TransformNext]_transformVars => PlanInv'
  BY PlanStep
<1>3. ASSUME TInv, PlanInv PROVE PlanHonoured
  <2> SUFFICES ASSUME Ended, NEW i \in DOMAIN run.plan
               PROVE  /\ run.plan[i] = "memo" => run.status[i] = "memo"
                      /\ run.plan[i] = "outside-delta" <=> run.status[i] = "outside-delta"
    BY DEF PlanHonoured
  <2>1. run.state \in {"running", "done"} /\ run.state = "done"
    BY DEF Ended
  <2>2. /\ RunShape /\ NodeStatus /\ Visited = DOMAIN run.order
        /\ Len(run.order) \in Nat /\ DOMAIN run.order = 1 .. Len(run.order)
    BY <1>3, <2>1, EndedRun
  <2>3. PICK foreseen : Known(foreseen) /\ CameTrue(foreseen)
    BY <1>3, <2>1 DEF PlanInv, Going
  <2>4. i \in 1 .. Len(run.order) /\ i \in Visited
    BY <2>2 DEF RunShape
  <2>5. run.plan[i] = "outside-delta" <=> run.order[i] \notin run.cone
    BY <2>3, <2>4 DEF Known
  <2> QED BY <2>2, <2>3, <2>4, <2>5 DEF CameTrue, NodeStatus
<1>4. TInv /\ PlanInv => PlanHonoured
  BY <1>3
<1> QED BY <1>1, <1>2, <1>4, TransformInvariant, PTL DEF TransformSpec
=============================================================================

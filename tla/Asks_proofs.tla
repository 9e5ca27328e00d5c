----------------------------- MODULE Asks_proofs -----------------------------
(***************************************************************************)
(* What the write path promises to whoever asks, for any facts, links,     *)
(* operations, questions and bounds: every row has its evidence, whatever  *)
(* was refused, cut off or not saved, questions change no data, and what a *)
(* clarification offers holds data.                                        *)
(*                                                                         *)
(* What a hit serves is current because a list or a count can be read off  *)
(* the atoms it cites (Told): an atom tells a value of each fact it is of, *)
(* and a plan follows links, whose atoms tell where they lead.  An atom of *)
(* a CreateObject is of several facts, and where a plan selects by one and *)
(* shows another of the same entity, it does not tell which was read; such *)
(* plans are left out (ReadsApart), and for them the claim is false.       *)
(***************************************************************************)
EXTENDS Asks, Subsequences_proofs

-----------------------------------------------------------------------------
(* The invariant.                                                          *)

\* The evidence of an atom is in the ledger.
Backed(known, cited) == {a \in known : a[1] = "edit" => a \in cited}

\* What an atom tells of a fact or pair, read off its content alone.
EditTells(op, about, v) ==
  \/ op.op = "SetProperty" /\ op.fact = about /\ op.value = v
  \/ op.op = "CreateObject" /\ about \in DOMAIN op.props /\ op.props[about] = v
  \/ op.op \in {"Link", "Unlink"} /\ op.pair = about
Tells(a, about, v) ==
  \/ a = SourceAtom(about, v)
  \/ \E op \in Ops : \E at \in Nat : a = EditAtom(op, at) /\ EditTells(op, about, v)

\* Well-formed rows of a fact or pair, whose atoms are backed and tell the
\* value in the row.
Written == Values \cup {"linked"} \cup {Loaded[about] : about \in DOMAIN Loaded}
BackedRows(known, cited, about) ==
  {r \in [value : Written, atom : Backed(known, cited), rank : {HumanRank, PipelineRank},
          valid : [start : Nat, end : Nat], since : Nat] : Tells(r.atom, about, r.value)}
OpenRows(known, cited, about) == Seq(BackedRows(known, cited, about))

\* Memory and files hold such rows.
Held(table, S, known, cited) ==
  /\ table = [x \in S |-> table[x]]
  /\ \A x \in S : table[x] \in OpenRows(known, cited, x)
StoreHeld(open, linked, files, known, cited) ==
  /\ Held(open, Facts, known, cited) /\ Held(linked, Pairs, known, cited)
  /\ Held(files.rows, Facts, known, cited) /\ Held(files.links, Pairs, known, cited)
  /\ files = [rows |-> files.rows, links |-> files.links, stamped |-> files.stamped]

\* The Action in progress is one of the operations, and its atom is
\* registered, its artifact perhaps not yet.
EInv ==
  /\ StoreHeld(rows, links, disk, atoms, artifacts)
  /\ doing # None => /\ doing.op \in Ops /\ doing.at \in Nat
                     /\ EditAtom(doing.op, doing.at) \in atoms

\* The ledger is append-only: what is backed stays backed.
LEMMA LedgerGrows ==
  ASSUME NEW known, NEW cited, NEW more, NEW again, known \subseteq more, cited \subseteq again
  PROVE  /\ \A about : OpenRows(known, cited, about) \subseteq OpenRows(more, again, about)
         /\ \A open, linked, files :
              StoreHeld(open, linked, files, known, cited) => StoreHeld(open, linked, files, more, again)
<1>1. Backed(known, cited) \subseteq Backed(more, again)
  BY DEF Backed
<1>2. \A about : BackedRows(known, cited, about) \subseteq BackedRows(more, again, about)
  BY <1>1 DEF BackedRows
<1>3. \A about : OpenRows(known, cited, about) \subseteq OpenRows(more, again, about)
  BY <1>2 DEF OpenRows
<1>4. \A table, S : Held(table, S, known, cited) => Held(table, S, more, again)
  BY <1>3 DEF Held
<1> QED BY <1>3, <1>4 DEF StoreHeld

-----------------------------------------------------------------------------
(* Applying a row.                                                         *)

\* The rows that pass a test are rows.
LEMMA SomeRows ==
  ASSUME NEW S, NEW s \in Seq(S), NEW I \in SUBSET DOMAIN s
  PROVE  At(s, I) \in Seq(S)
<1>1. /\ IsFiniteSet(I) /\ Cardinality(I) \in Nat
      /\ At(s, I) \in Seq(S)
  BY AtPositions
<1> QED BY <1>1

\* What is left of backed rows is backed: a piece keeps the atom.
LEMMA PiecesBacked ==
  ASSUME NEW known, NEW cited, NEW about, NEW over \in OpenRows(known, cited, about),
         NEW r \in BackedRows(known, cited, about)
  PROVE  Residuals(over, r) \in OpenRows(known, cited, about)
<1> DEFINE S == BackedRows(known, cited, about)
           L == Len(over)
           P == Pieces(over, r)
<1>1. over \in Seq(S) /\ L \in Nat /\ \A i \in 1 .. L : over[i] \in S
  BY DEF OpenRows
<1>2. ASSUME NEW k \in 1 .. 2 * L PROVE P[k] \in S
  <2> DEFINE old == over[(k + 1) \div 2]
  <2>1. (k + 1) \div 2 \in 1 .. L
    BY <1>1
  <2>2. old \in S
    BY <1>1, <2>1
  <2>3. P[k] = IF k % 2 = 1 THEN [old EXCEPT !.valid.end = r.valid.start, !.since = r.since]
                            ELSE [old EXCEPT !.valid.start = r.valid.end, !.since = r.since]
    BY DEF Pieces
  <2> HIDE DEF old, P
  <2>4. /\ r.valid.start \in Nat /\ r.valid.end \in Nat /\ r.since \in Nat
    BY DEF BackedRows
  <2>5. \A o \in S, n \in Nat, t \in Nat : /\ [o EXCEPT !.valid.end = n, !.since = t] \in S
                                           /\ [o EXCEPT !.valid.start = n, !.since = t] \in S
    BY DEF BackedRows
  <2> HIDE DEF S
  <2>6. /\ [old EXCEPT !.valid.end = r.valid.start, !.since = r.since] \in S
        /\ [old EXCEPT !.valid.start = r.valid.end, !.since = r.since] \in S
    BY <2>2, <2>4, <2>5
  <2> QED BY <2>3, <2>6
<1>3. P = [k \in 1 .. 2 * L |-> P[k]] /\ 2 * L \in Nat
  BY <1>1 DEF Pieces
<1> HIDE DEF P, S, L
<1>4. P \in Seq(S)
  BY <1>2, <1>3
<1>5. {k \in DOMAIN P : P[k].valid.start < P[k].valid.end} \in SUBSET DOMAIN P
  OBVIOUS
<1>6. At(P, {k \in DOMAIN P : P[k].valid.start < P[k].valid.end}) \in Seq(S)
  BY <1>4, <1>5, SomeRows
<1> QED BY <1>6 DEF Residuals, Where, OpenRows, S, P

\* Applying a backed row to backed rows leaves backed rows.
LEMMA AppliedBacked ==
  ASSUME NEW known, NEW cited, NEW about, NEW open \in OpenRows(known, cited, about),
         NEW r \in BackedRows(known, cited, about)
  PROVE  /\ Superseded(open, r) \in OpenRows(known, cited, about)
         /\ Applied(open, r) \in OpenRows(known, cited, about)
<1> DEFINE S == BackedRows(known, cited, about)
           over == Overlapping(open, r)
           kept == Where(open, LAMBDA o : ~Overlaps(o.valid, r.valid))
           left == Residuals(over, r)
<1>1. open \in Seq(S)
  BY DEF OpenRows
<1>2. over \in Seq(S)
  <2>1. {i \in DOMAIN open : Overlaps(open[i].valid, r.valid)} \in SUBSET DOMAIN open
    OBVIOUS
  <2>2. At(open, {i \in DOMAIN open : Overlaps(open[i].valid, r.valid)}) \in Seq(S)
    BY <1>1, <2>1, SomeRows
  <2> QED BY <2>2 DEF Overlapping, Where
<1>3. kept \in Seq(S)
  <2>1. {i \in DOMAIN open : ~Overlaps(open[i].valid, r.valid)} \in SUBSET DOMAIN open
    OBVIOUS
  <2>2. At(open, {i \in DOMAIN open : ~Overlaps(open[i].valid, r.valid)}) \in Seq(S)
    BY <1>1, <2>1, SomeRows
  <2> QED BY <2>2 DEF Where
<1>4. left \in Seq(S)
  BY <1>2, PiecesBacked DEF OpenRows
<1>5. Superseded(open, r) = kept \o <<r>> \o left
  BY DEF Superseded
<1> HIDE DEF kept, left
<1>6. <<r>> \in Seq(S)
  OBVIOUS
<1> HIDE DEF S
<1>7. kept \o <<r>> \o left \in Seq(S)
  BY <1>3, <1>4, <1>6
<1> QED BY <1>5, <1>7 DEF Applied, OpenRows, S

-----------------------------------------------------------------------------
(* The writes.                                                             *)

\* A commit of value rows, saved or not.
LEMMA CommittedBacked ==
  ASSUME EInv, NEW cells, NEW at, NEW saved \in BOOLEAN, Committed(cells, at, saved),
         NEW more, NEW again, atoms \subseteq more, artifacts \subseteq again,
         \A f \in DOMAIN cells : cells[f] \in BackedRows(more, again, f)
  PROVE  StoreHeld(rows', links', disk', more, again)
<1>1. StoreHeld(rows, links, disk, more, again)
  BY LedgerGrows DEF EInv
<1>2. /\ rows' = [f \in Facts |-> IF f \in DOMAIN cells THEN Applied(rows[f], cells[f]) ELSE rows[f]]
      /\ disk' = IF saved THEN [disk EXCEPT !.rows = rows', !.stamped = stamped'] ELSE disk
      /\ links' = links
  BY DEF Committed
<1>3. \A f \in DOMAIN cells : \A open \in OpenRows(more, again, f) :
        Applied(open, cells[f]) \in OpenRows(more, again, f)
  BY AppliedBacked
<1>4. Held(rows', Facts, more, again)
  BY <1>1, <1>2, <1>3 DEF StoreHeld, Held
<1>5. /\ disk'.rows = rows' \/ disk'.rows = disk.rows
      /\ disk'.links = disk.links
      /\ disk' = [rows |-> disk'.rows, links |-> disk'.links, stamped |-> disk'.stamped]
  BY <1>1, <1>2 DEF StoreHeld
<1> QED BY <1>1, <1>2, <1>4, <1>5 DEF StoreHeld

\* The same for the rows of a pair.
LEMMA RelinkedBacked ==
  ASSUME EInv, NEW pair \in Pairs, NEW open, NEW at, NEW saved \in BOOLEAN,
         Relinked(pair, open, at, saved),
         NEW more, NEW again, atoms \subseteq more, artifacts \subseteq again,
         open \in OpenRows(more, again, pair)
  PROVE  StoreHeld(rows', links', disk', more, again)
<1>1. StoreHeld(rows, links, disk, more, again)
  BY LedgerGrows DEF EInv
<1>2. /\ links' = [links EXCEPT ![pair] = open]
      /\ disk' = IF saved THEN [disk EXCEPT !.links = links'] ELSE disk
      /\ rows' = rows
  BY DEF Relinked
<1>3. Held(links', Pairs, more, again)
  BY <1>1, <1>2 DEF StoreHeld, Held
<1>4. /\ disk'.rows = disk.rows
      /\ disk'.links = links' \/ disk'.links = disk.links
      /\ disk' = [rows |-> disk'.rows, links |-> disk'.links, stamped |-> disk'.stamped]
  BY <1>1, <1>2 DEF StoreHeld
<1> QED BY <1>1, <1>2, <1>3, <1>4 DEF StoreHeld

\* A new row whose atom is backed and tells its value.
LEMMA NewRow ==
  ASSUME NEW known, NEW cited, NEW about, NEW v \in Written, NEW a \in Backed(known, cited),
         Tells(a, about, v),
         NEW k \in {HumanRank, PipelineRank}, NEW w \in [start : Nat, end : Nat], NEW at \in Nat
  PROVE  Row(v, a, k, w, at) \in BackedRows(known, cited, about)
BY DEF Row, BackedRows

\* The intervals of new rows.
LEMMA SinceTyped ==
  /\ \A at \in Nat : Since(at) \in [start : Nat, end : Nat]
  /\ \A w \in Windows : w \in [start : Nat, end : Nat]
BY ForeverAssumption, WindowsAssumption DEF Since, Intervals

\* The rows of a human operation whose artifact is in the ledger.
LEMMA CellsBacked ==
  ASSUME NEW op \in Ops, op.op \in {"SetProperty", "CreateObject"}, NEW at \in Nat,
         EditAtom(op, at) \in Backed(atoms, artifacts)
  PROVE  \A f \in DOMAIN Cells(op, at) : Cells(op, at)[f] \in BackedRows(atoms, artifacts, f)
<1> DEFINE a == EditAtom(op, at)
<1>1. ASSUME NEW about, NEW v, EditTells(op, about, v) PROVE Tells(a, about, v)
  BY <1>1 DEF Tells
<1>2. CASE op.op = "SetProperty"
  <2> DEFINE w == IF op.valid = {} THEN Since(at) ELSE CHOOSE i \in op.valid : TRUE
  <2>1. op.value \in Values /\ (op.valid = {} \/ \E i \in Windows : op.valid = {i})
    BY <1>2 DEF Ops
  <2>2. w \in [start : Nat, end : Nat]
    BY <2>1, SinceTyped
  <2>3. Cells(op, at) = [f \in {op.fact} |-> Row(op.value, a, HumanRank, w, at)]
    BY <1>2 DEF Cells
  <2>4. Tells(a, op.fact, op.value)
    BY <1>1, <1>2 DEF EditTells
  <2> HIDE DEF w, a
  <2>5. op.value \in Written /\ a \in Backed(atoms, artifacts)
    BY <2>1 DEF Written, a
  <2>6. Row(op.value, a, HumanRank, w, at) \in BackedRows(atoms, artifacts, op.fact)
    BY <2>2, <2>4, <2>5, NewRow
  <2> QED BY <2>3, <2>6
<1>3. CASE op.op = "CreateObject"
  <2>1. \A f \in DOMAIN op.props : op.props[f] \in Values
    BY <1>3 DEF Ops
  <2>2. Cells(op, at) = [f \in DOMAIN op.props |-> Row(op.props[f], a, HumanRank, Since(at), at)]
    BY <1>3 DEF Cells
  <2>3. \A f \in DOMAIN op.props : Tells(a, f, op.props[f])
    BY <1>1, <1>3 DEF EditTells
  <2> HIDE DEF a
  <2>4. \A f \in DOMAIN op.props : op.props[f] \in Written
    BY <2>1 DEF Written
  <2>5. a \in Backed(atoms, artifacts)
    BY DEF a
  <2>6. \A f \in DOMAIN op.props :
          Row(op.props[f], a, HumanRank, Since(at), at) \in BackedRows(atoms, artifacts, f)
    BY <2>3, <2>4, <2>5, NewRow, SinceTyped
  <2> QED BY <2>2, <2>6
<1> QED BY <1>2, <1>3

\* An unlink rewrites one row under its own atom.
LEMMA RetractedBacked ==
  ASSUME EInv, NEW pair \in Pairs, Current(pair) # {}, NEW at \in Nat,
         NEW a \in Backed(atoms, artifacts), \A v : Tells(a, pair, v)
  PROVE  Retracted(pair, a, at) \in OpenRows(atoms, artifacts, pair)
<1> DEFINE S == BackedRows(atoms, artifacts, pair)
           open == links[pair]
           i == CHOOSE k \in Current(pair) : \A other \in Current(pair) : other <= k
           old == open[i]
           e == Later(at, old.valid.start + 1)
           r == [old EXCEPT !.valid.end = e, !.since = at, !.atom = a]
           rest == At(open, DOMAIN open \ {i})
<1>1. open \in Seq(S)
  BY DEF EInv, StoreHeld, Held, OpenRows
<1>2. Retracted(pair, a, at) = rest \o <<r>>
  BY DEF Retracted
<1>3. rest \in Seq(S)
  BY <1>1, SomeRows
<1>4. i \in DOMAIN open
  <2>1. Current(pair) \subseteq DOMAIN open /\ DOMAIN open = 1 .. Len(open) /\ Len(open) \in Nat
    BY <1>1 DEF Current
  <2>2. \A n \in Nat : IsFiniteSet(1 .. n)
    BY FS_Interval
  <2>3. IsFiniteSet(Current(pair)) /\ Current(pair) \in SUBSET Nat
    <3>1. IsFiniteSet(DOMAIN open)
      BY <2>1, <2>2
    <3>2. IsFiniteSet(Current(pair))
      BY <2>1, <3>1, FS_Subset
    <3> QED BY <2>1, <3>2
  <2>4. \E k \in Current(pair) : \A other \in Current(pair) : other <= k
    BY <2>3, LastPosition
  <2>5. i \in Current(pair)
    BY <2>4
  <2> QED BY <2>1, <2>5
<1>5. old \in S
  BY <1>1, <1>4
<1> HIDE DEF old, rest
<1>6. e \in Nat
  BY <1>5 DEF Later, BackedRows
<1> HIDE DEF e
<1>7. r \in S
  BY <1>5, <1>6 DEF BackedRows
<1> HIDE DEF S, r
<1>8. <<r>> \in Seq(S) /\ rest \o <<r>> \in Seq(S)
  BY <1>3, <1>7
<1> QED BY <1>2, <1>8 DEF OpenRows, S

-----------------------------------------------------------------------------
(* The invariant is inductive.                                             *)

\* The kind of an atom is its first component.
LEMMA AtomKinds ==
  /\ \A op, at : EditAtom(op, at)[1] = "edit"
  /\ \A about, v : SourceAtom(about, v)[1] = "source"
BY DEF EditAtom, SourceAtom

\* What was materialised first is backed by its source atoms.
LEMMA InitEInv == InitData => EInv
<1> SUFFICES ASSUME InitData PROVE EInv
  OBVIOUS
<1>1. ASSUME NEW about PROVE FirstRows(about) \in OpenRows(atoms, artifacts, about)
  <2> DEFINE S == BackedRows(atoms, artifacts, about)
  <2>1. CASE about \in DOMAIN Loaded
    <3> DEFINE a == SourceAtom(about, Loaded[about])
               r == Row(Loaded[about], a, PipelineRank, Since(0), 0)
    <3>1. a \in atoms /\ a[1] = "source"
      BY <2>1, AtomKinds DEF InitData
    <3>2. Loaded[about] \in Written /\ a \in Backed(atoms, artifacts) /\ Since(0) \in [start : Nat, end : Nat]
      BY <2>1, <3>1, SinceTyped DEF Written, Backed
    <3>3. Tells(a, about, Loaded[about])
      BY DEF Tells
    <3>4. r \in S
      BY <3>2, <3>3, NewRow
    <3>5. FirstRows(about) = <<r>>
      BY <2>1 DEF FirstRows
    <3> HIDE DEF r, S
    <3>6. <<r>> \in Seq(S)
      BY <3>4
    <3> QED BY <3>5, <3>6 DEF OpenRows, S
  <2>2. CASE about \notin DOMAIN Loaded
    BY <2>2 DEF FirstRows, OpenRows
  <2> QED BY <2>1, <2>2
<1>2. Held(rows, Facts, atoms, artifacts) /\ Held(links, Pairs, atoms, artifacts)
  BY <1>1 DEF InitData, Held
<1>3. disk = [rows |-> rows, links |-> links, stamped |-> 0] /\ doing = None
  BY DEF InitData
<1>4. disk.rows = rows /\ disk.links = links /\ disk.stamped = 0
  BY <1>3
<1> QED BY <1>2, <1>3, <1>4 DEF EInv, StoreHeld

\* A commit of the pipeline registers the atom of its row first.
LEMMA CommitStep ==
  ASSUME EInv, NEW at \in 0 .. MaxTime, NEW saved \in BOOLEAN,
         \/ \E f \in Facts, v \in Values : CommitValue(f, v, at, saved)
         \/ \E pair \in Pairs : CommitLink(pair, at, saved)
  PROVE  EInv'
<1>1. ASSUME NEW f \in Facts, NEW v \in Values, CommitValue(f, v, at, saved) PROVE EInv'
  <2> DEFINE a == SourceAtom(f, v)
             r == Row(v, a, PipelineRank, Since(at), at)
             cells == [g \in {f} |-> r]
  <2>1. /\ atoms' = atoms \cup {a} /\ artifacts' = artifacts /\ doing' = doing /\ doing = None
        /\ Committed(cells, at, saved)
    BY <1>1 DEF CommitValue, Start
  <2>2. PICK more : more = atoms'
    OBVIOUS
  <2>3. PICK again : again = artifacts'
    OBVIOUS
  <2>4. a \in Backed(more, again) /\ v \in Written /\ Tells(a, f, v)
    BY <2>1, <2>2, <2>3, AtomKinds DEF Backed, Written, Tells
  <2>5. r \in BackedRows(more, again, f)
    BY <2>4, NewRow, SinceTyped
  <2> HIDE DEF a, r
  <2>6. atoms \subseteq more /\ artifacts \subseteq again
    BY <2>1, <2>2, <2>3
  <2>7. \A g \in DOMAIN cells : cells[g] \in BackedRows(more, again, g)
    BY <2>5
  <2> HIDE DEF cells
  <2>8. StoreHeld(rows', links', disk', more, again)
    BY <2>1, <2>6, <2>7, CommittedBacked
  <2> QED BY <2>1, <2>2, <2>3, <2>8 DEF EInv
<1>2. ASSUME NEW pair \in Pairs, CommitLink(pair, at, saved) PROVE EInv'
  <2> DEFINE a == SourceAtom(pair, "linked")
             r == Row("linked", a, PipelineRank, Since(at), at)
             open == Superseded(links[pair], r)
  <2>1. /\ atoms' = atoms \cup {a} /\ artifacts' = artifacts /\ doing' = doing /\ doing = None
        /\ Relinked(pair, open, at, saved)
    BY <1>2 DEF CommitLink, Start
  <2>2. PICK more : more = atoms'
    OBVIOUS
  <2>3. PICK again : again = artifacts'
    OBVIOUS
  <2>4. a \in Backed(more, again) /\ "linked" \in Written /\ Tells(a, pair, "linked")
    BY <2>1, <2>2, <2>3, AtomKinds DEF Backed, Written, Tells
  <2>5. r \in BackedRows(more, again, pair)
    BY <2>4, NewRow, SinceTyped
  <2> HIDE DEF a, r
  <2>6. atoms \subseteq more /\ artifacts \subseteq again
    BY <2>1, <2>2, <2>3
  <2>7. links[pair] \in OpenRows(more, again, pair)
    BY <2>6, LedgerGrows DEF EInv, StoreHeld, Held
  <2>8. open \in OpenRows(more, again, pair)
    BY <2>5, <2>7, AppliedBacked
  <2> HIDE DEF open
  <2>9. StoreHeld(rows', links', disk', more, again)
    BY <2>1, <2>6, <2>8, RelinkedBacked
  <2> QED BY <2>1, <2>2, <2>3, <2>9 DEF EInv
<1> QED BY <1>1, <1>2

\* The write of an Action waits for its artifact.
LEMMA WriteStep ==
  ASSUME EInv, NEW saved \in BOOLEAN, Write(saved)
  PROVE  EInv'
<1> DEFINE op == doing.op
           at == doing.at
           a == EditAtom(op, at)
<1>1. /\ doing # None /\ a \in artifacts /\ doing' = None
      /\ atoms' = atoms /\ artifacts' = artifacts
      /\ op \in Ops /\ at \in Nat /\ a \in atoms
  BY DEF Write, Evident, EInv
<1>2. a \in Backed(atoms, artifacts)
  BY <1>1 DEF Backed
<1>3. \/ op.op \in {"SetProperty", "CreateObject"} /\ Committed(Cells(op, at), at, saved)
      \/ /\ op.op = "Link"
         /\ Relinked(op.pair,
              Superseded(links[op.pair], Row("linked", a, HumanRank, Since(at), at)), at, saved)
      \/ /\ op.op = "Unlink" /\ Current(op.pair) # {}
         /\ Relinked(op.pair, Retracted(op.pair, a, at), at, saved)
  BY DEF Write
<1> DEFINE Holds == StoreHeld(rows', links', disk', atoms, artifacts)
<1>4. CASE op.op \in {"SetProperty", "CreateObject"} /\ Committed(Cells(op, at), at, saved)
  <2>1. \A f \in DOMAIN Cells(op, at) : Cells(op, at)[f] \in BackedRows(atoms, artifacts, f)
    BY <1>1, <1>2, <1>4, CellsBacked
  <2>2. Holds
    BY <1>4, <2>1, CommittedBacked
  <2> QED BY <1>1, <2>2 DEF EInv
<1>5. op.op \in {"Link", "Unlink"} => op.pair \in Pairs /\ \A v : Tells(a, op.pair, v)
  BY <1>1 DEF Ops, Tells, EditTells
<1>6. CASE /\ op.op = "Link"
           /\ Relinked(op.pair,
                Superseded(links[op.pair], Row("linked", a, HumanRank, Since(at), at)), at, saved)
  <2> DEFINE pair == op.pair
             r == Row("linked", a, HumanRank, Since(at), at)
             open == Superseded(links[pair], r)
  <2>1. pair \in Pairs /\ Tells(a, pair, "linked") /\ Relinked(pair, open, at, saved)
    BY <1>5, <1>6
  <2>2. "linked" \in Written
    BY DEF Written
  <2>3. r \in BackedRows(atoms, artifacts, pair)
    BY <1>1, <1>2, <2>1, <2>2, NewRow, SinceTyped
  <2> HIDE DEF r, pair
  <2>4. links[pair] \in OpenRows(atoms, artifacts, pair)
    BY <2>1 DEF EInv, StoreHeld, Held
  <2>5. open \in OpenRows(atoms, artifacts, pair)
    BY <2>3, <2>4, AppliedBacked
  <2> HIDE DEF open
  <2>6. Holds
    BY <2>1, <2>5, RelinkedBacked
  <2> QED BY <1>1, <2>6 DEF EInv
<1>7. CASE /\ op.op = "Unlink" /\ Current(op.pair) # {}
           /\ Relinked(op.pair, Retracted(op.pair, a, at), at, saved)
  <2> DEFINE pair == op.pair
             open == Retracted(pair, a, at)
  <2>1. /\ pair \in Pairs /\ Relinked(pair, open, at, saved) /\ Current(pair) # {}
        /\ \A v : Tells(a, pair, v)
    BY <1>5, <1>7
  <2> HIDE DEF pair
  <2>2. open \in OpenRows(atoms, artifacts, pair)
    BY <1>1, <1>2, <2>1, RetractedBacked
  <2> HIDE DEF open
  <2>3. Holds
    BY <2>1, <2>2, RelinkedBacked
  <2> QED BY <1>1, <2>3 DEF EInv
<1> QED BY <1>3, <1>4, <1>6, <1>7

\* Every step of the write path keeps rows and evidence together.
LEMMA NextEInv == EInv /\ [Change \/ Reopen]_data => EInv'
<1> SUFFICES ASSUME EInv, [Change \/ Reopen]_data PROVE EInv'
  OBVIOUS
<1> DEFINE Kept == UNCHANGED <<rows, links, disk>>
<1>1. ASSUME NEW at \in 0 .. MaxTime, NEW saved \in BOOLEAN,
             \/ \E f \in Facts, v \in Values : CommitValue(f, v, at, saved)
             \/ \E pair \in Pairs : CommitLink(pair, at, saved)
      PROVE  EInv'
  BY <1>1, CommitStep
<1>2. ASSUME atoms \subseteq atoms', artifacts \subseteq artifacts', Kept
      PROVE  StoreHeld(rows', links', disk', atoms', artifacts')
  <2>1. StoreHeld(rows, links, disk, atoms', artifacts')
    BY <1>2, LedgerGrows DEF EInv
  <2> QED BY <1>2, <2>1
<1>3. ASSUME NEW op \in Ops, NEW at \in 0 .. MaxTime, Begin(op, at) PROVE EInv'
  <2>1. /\ atoms' = atoms \cup {EditAtom(op, at)} /\ artifacts' = artifacts /\ Kept
        /\ doing' = [op |-> op, at |-> at]
    BY <1>3 DEF Begin, store
  <2>2. doing'.op = op /\ doing'.at = at /\ at \in Nat /\ EditAtom(op, at) \in atoms'
    BY <2>1
  <2> QED BY <1>2, <2>1, <2>2 DEF EInv
<1>4. CASE AppendEvidence
  <2>1. /\ artifacts \subseteq artifacts' /\ atoms' = atoms /\ doing' = doing /\ Kept
    BY <1>4 DEF AppendEvidence, store
  <2> QED BY <1>2, <2>1 DEF EInv
<1>5. ASSUME NEW saved \in BOOLEAN, Write(saved) PROVE EInv'
  BY <1>5, WriteStep
<1>6. CASE Refuse
  <2>1. /\ artifacts' = artifacts /\ atoms' = atoms /\ doing' = None /\ Kept
    BY <1>6 DEF Refuse, store
  <2> QED BY <1>2, <2>1 DEF EInv
<1>7. CASE Reopen
  <2>1. /\ rows' = disk.rows /\ links' = disk.links /\ doing' = None
        /\ UNCHANGED <<atoms, artifacts, disk>>
    BY <1>7 DEF Reopen
  <2> QED BY <2>1 DEF EInv, StoreHeld
<1>8. CASE UNCHANGED data
  BY <1>8 DEF EInv, data
<1> QED BY <1>1, <1>3, <1>4, <1>5, <1>6, <1>7, <1>8 DEF Change

-----------------------------------------------------------------------------
(* The theorems.                                                           *)

\* Rows and their evidence stay together, whatever is refused, cut off or not
\* saved (perform, ValueShard.save, Hearth.discover).
THEOREM EditInvariance == EditSpec => []EInv
BY InitEInv, NextEInv, PTL DEF EditSpec

\* Every row in memory and in the files has its atom in the ledger, and a human
\* one the artifact that tells who wrote what (Constraint H, hearth/actions.py).
THEOREM RowsStayEvidenced == EditSpec => []Evidenced
<1>1. EInv => Evidenced
  <2> SUFFICES ASSUME EInv,
                      NEW open \in {rows[f] : f \in Facts} \cup {disk.rows[f] : f \in Facts}
                           \cup {links[p] : p \in Pairs} \cup {disk.links[p] : p \in Pairs},
                      NEW i \in DOMAIN open
               PROVE  /\ open[i].atom \in atoms
                      /\ open[i].atom[1] = "edit" => open[i].atom \in artifacts
    BY DEF Evidenced
  <2>1. \E about : open \in Seq(BackedRows(atoms, artifacts, about))
    BY DEF EInv, StoreHeld, Held, OpenRows
  <2>2. \E about : open[i] \in BackedRows(atoms, artifacts, about)
    BY <2>1
  <2>3. open[i].atom \in Backed(atoms, artifacts)
    BY <2>2 DEF BackedRows
  <2> QED BY <2>3 DEF Backed
<1> QED BY <1>1, EditInvariance, PTL

\* The question engine only reads: whatever is asked, hit, offered or chosen,
\* the data moves as the write path moves it (Lodestone.ask, AskFlywheel).
THEOREM QuestionsOnlyRead == Spec => EditSpec
<1>1. Init => InitData
  BY DEF Init
<1>2. [Next]_vars => [Change \/ Reopen]_data
  <2> SUFFICES ASSUME [Next]_vars PROVE [Change \/ Reopen]_data
    OBVIOUS
  <2>1. ASSUME NEW q \in Questions, Ask(q) PROVE UNCHANGED data
    BY <2>1 DEF Ask
  <2>2. Choose => UNCHANGED data
    BY DEF Choose
  <2>3. Restart => Reopen
    BY DEF Restart
  <2>4. UNCHANGED vars => UNCHANGED data
    BY DEF vars
  <2> QED BY <2>1, <2>2, <2>3, <2>4 DEF Next
<1> QED BY <1>1, <1>2, PTL DEF Spec, EditSpec

\* So what a question reads and cites has its evidence.
THEOREM AnswersStayEvidenced == Spec => []Evidenced
BY QuestionsOnlyRead, RowsStayEvidenced, PTL
-----------------------------------------------------------------------------
(* What is offered.                                                        *)

\* A condition on elements holds of the elements that pass it.
LEMMA PassedHold ==
  ASSUME NEW S, NEW s \in Seq(S)
  PROVE  \A n \in DOMAIN Where(s, HoldsData) : HoldsData(Where(s, HoldsData)[n])
<1> DEFINE I == {i \in DOMAIN s : HoldsData(s[i])}
<1>1. I \in SUBSET DOMAIN s
  OBVIOUS
<1>2. Where(s, HoldsData) = At(s, I)
  BY DEF Where
<1>3. \A n \in DOMAIN At(s, I) : Nth(I, n) \in I /\ At(s, I)[n] = s[Nth(I, n)]
  BY <1>1, AtPositions
<1>4. \A i \in I : HoldsData(s[i])
  OBVIOUS
<1> HIDE DEF I
<1> QED BY <1>2, <1>3, <1>4

\* The first element of what passes, if anything does.
LEMMA FirstPassed ==
  ASSUME NEW S, NEW s \in Seq(S), Where(s, HoldsData) # <<>>
  PROVE  HoldsData(Where(s, HoldsData)[1])
<1> DEFINE I == {i \in DOMAIN s : HoldsData(s[i])}
           w == Where(s, HoldsData)
<1>1. w = At(s, I)
  BY DEF Where
<1>2. I \in SUBSET DOMAIN s
  OBVIOUS
<1>3. w \in Seq(S)
  <2>1. At(s, I) \in Seq(S)
    BY <1>2, SomeRows
  <2> QED BY <1>1, <2>1
<1>4. \A n \in DOMAIN w : HoldsData(w[n])
  BY PassedHold
<1> HIDE DEF w
<1>5. 1 \in DOMAIN w
  BY <1>3 DEF w
<1> QED BY <1>4, <1>5 DEF w

\* The readings of a question that are shown are among its candidates.
LEMMA Prefixes ==
  ASSUME NEW q \in Questions
  PROVE  \E S : Gamma(q) \in Seq(S) /\ First4(Asked[q].candidates) \in Seq(S)
<1> DEFINE cands == Asked[q].candidates
           S == Funcs!Range(cands)
<1>1. cands \in Seq(S) /\ Asked[q].gamma \in 0 .. Len(cands)
  BY AskedAssumption
<1> HIDE DEF S, cands
<1>2. \A n \in 0 .. Len(cands) : SubSeq(cands, 1, n) \in Seq(S)
  BY <1>1
<1>3. (IF Len(cands) < 4 THEN Len(cands) ELSE 4) \in 0 .. Len(cands)
  BY <1>1
<1>4. Gamma(q) \in Seq(S) /\ First4(cands) \in Seq(S)
  BY <1>1, <1>2, <1>3 DEF Gamma, First4, cands
<1> QED BY <1>4 DEF cands

\* What a clarification offers holds data.
LEMMA OfferedHolds ==
  ASSUME NEW q \in Questions, Considered(q).kind = "clarify"
  PROVE  \A p \in Considered(q).options : HoldsData(p)
<1> DEFINE soft == Where(First4(Asked[q].candidates), HoldsData)
<1>1. PICK S : Gamma(q) \in Seq(S) /\ First4(Asked[q].candidates) \in Seq(S)
  BY Prefixes
<1>2. \A p \in Options(Viable(q)) : HoldsData(p)
  <2>1. \A n \in DOMAIN Viable(q) : HoldsData(Viable(q)[n])
    BY <1>1, PassedHold DEF Viable
  <2> QED BY <2>1 DEF Options
<1>3. soft # <<>> => HoldsData(soft[1])
  BY <1>1, FirstPassed
<1> HIDE DEF soft
<1>4. /\ Abstention.kind # "clarify"
      /\ \A p : Answer(p).kind # "clarify"
      /\ \A options : Clarification(options).options = options
  BY DEF Abstention, Answer, Clarification
<1>5. Ranked(Asked[q].candidates).kind # "clarify"
  BY <1>4 DEF Ranked
<1>6. Soft(q) \in {Abstention} \/ (soft # <<>> /\ Soft(q) = Clarification({soft[1]}))
  BY DEF Soft, soft
<1>7. \/ Considered(q) = Soft(q)
      \/ Considered(q) = Abstention \/ Considered(q) = Clarification(Options(Viable(q)))
      \/ Considered(q) = Answer(Viable(q)[1]) \/ Considered(q) = Ranked(Asked[q].candidates)
  BY DEF Considered
<1>8. CASE Considered(q) = Soft(q)
  <2>1. soft # <<>> /\ Considered(q).options = {soft[1]}
    BY <1>4, <1>6, <1>8
  <2> QED BY <1>3, <2>1
<1>9. CASE Considered(q) = Clarification(Options(Viable(q)))
  <2>1. Considered(q).options = Options(Viable(q))
    BY <1>4, <1>9
  <2> QED BY <1>2, <2>1
<1> QED BY <1>4, <1>5, <1>7, <1>8, <1>9

\* The options of a clarification hold data when they are offered: only Ask
\* offers any, from the readings that held data as they were executed, and it
\* changes no data (Lodestone.ask, structural_diff).
THEOREM OptionsAlwaysHold == Spec => OptionsHoldData
<1>1. [Next]_vars => [pending' # pending => \A p \in pending' : HoldsData(p)]_vars
  <2> SUFFICES ASSUME Next, pending' # pending, NEW p \in pending' PROVE HoldsData(p)
    OBVIOUS
  <2>1. ASSUME NEW q \in Questions, Ask(q) PROVE HoldsData(p)
    <3>1. pending' = IF ~Hit(q) /\ Considered(q).kind = "clarify" THEN Considered(q).options ELSE {}
      BY <2>1 DEF Ask
    <3>2. Considered(q).kind = "clarify" /\ p \in Considered(q).options
      BY <3>1
    <3> QED BY <3>2, OfferedHolds
  <2>2. ~(Change /\ UNCHANGED engine)
    BY DEF engine
  <2>3. ~Choose
    BY DEF Choose
  <2>4. ~Restart
    BY DEF Restart
  <2> QED BY <2>1, <2>2, <2>3, <2>4 DEF Next
<1> QED BY <1>1, PTL DEF Spec, OptionsHoldData

-----------------------------------------------------------------------------
(* What a hit serves.                                                      *)

\* The facts that an atom is of: it tells one value of each, and of two only if
\* it is the atom of a CreateObject that wrote both.
LEMMA AtomsTell ==
  ASSUME NEW a, NEW x \in Facts \cup Pairs, NEW y \in Facts \cup Pairs, NEW v, NEW w,
         Tells(a, x, v), Tells(a, y, w)
  PROVE  /\ x = y /\ x \in Facts => v = w
         /\ x = y \/ \E object \in Objects : x \in object /\ y \in object
         /\ x \in Pairs => y = x
<1>1. ASSUME NEW z \in Facts \cup Pairs, NEW op \in Ops, NEW u, EditTells(op, z, u)
      PROVE  \/ op.op = "SetProperty" /\ z \in Facts /\ z = op.fact /\ u = op.value
             \/ op.op = "CreateObject" /\ z \in Facts /\ DOMAIN op.props \in Objects
                /\ z \in DOMAIN op.props /\ u = op.props[z]
             \/ op.op \in {"Link", "Unlink"} /\ z \in Pairs /\ z = op.pair
  <2>1. CASE op.op = "SetProperty"
    BY <1>1, <2>1 DEF EditTells, Ops
  <2>2. CASE op.op = "CreateObject"
    <3>1. PICK object \in Objects : op.props \in [object -> Values]
      BY <2>2 DEF Ops
    <3>2. z \in DOMAIN op.props /\ DOMAIN op.props = object /\ u = op.props[z]
      BY <1>1, <2>2, <3>1 DEF EditTells
    <3> QED BY <2>2, <3>2, ObjectsAssumption
  <2>3. CASE op.op \in {"Link", "Unlink"}
    BY <1>1, <2>3 DEF EditTells, Ops
  <2> QED BY <2>1, <2>2, <2>3 DEF Ops
<1>2. CASE a = SourceAtom(x, v)
  <2>1. a[1] = "source"
    BY <1>2, AtomKinds
  <2>2. a = SourceAtom(y, w)
    BY <2>1, AtomKinds DEF Tells
  <2> QED BY <1>2, <2>2 DEF SourceAtom
<1>3. CASE \E op \in Ops : \E at \in Nat : a = EditAtom(op, at) /\ EditTells(op, x, v)
  <2>1. PICK op \in Ops, at \in Nat : a = EditAtom(op, at) /\ EditTells(op, x, v)
    BY <1>3
  <2>2. a[1] = "edit"
    BY <2>1, AtomKinds
  <2>3. PICK other \in Ops, when \in Nat : a = EditAtom(other, when) /\ EditTells(other, y, w)
    BY <2>2, AtomKinds DEF Tells
  <2>4. op = other
    BY <2>1, <2>3 DEF EditAtom
  <2>5. EditTells(op, y, w)
    BY <2>3, <2>4
  <2> QED BY <1>1, <2>1, <2>5, FactsAssumption
<1> QED BY <1>2, <1>3 DEF Tells

\* The row that a question reads is one of the rows of the fact: of finitely
\* many, one survives all others.
LEMMA EverRow ==
  ASSUME EInv, NEW f \in Facts, rows[f] # <<>>
  PROVE  Ever(f) \in BackedRows(atoms, artifacts, f)
<1> DEFINE S == BackedRows(atoms, artifacts, f)
           open == rows[f]
           D == DOMAIN open
<1>1. open \in Seq(S) /\ open # <<>>
  BY DEF EInv, StoreHeld, Held, OpenRows
<1>2. /\ D = 1 .. Len(open) /\ Len(open) \in Nat /\ D # {}
      /\ \A i \in D : open[i].rank \in {0, 1} /\ open[i].since \in Nat
  <2>1. \A r \in S : r.rank \in {0, 1} /\ r.since \in Nat
    BY DEF BackedRows, HumanRank, PipelineRank
  <2> HIDE DEF S, open
  <2>2. D = 1 .. Len(open) /\ Len(open) \in Nat /\ \A i \in D : open[i] \in S
    BY <1>1
  <2>3. Len(open) # 0
    BY <1>1
  <2>4. 1 \in D
    BY <2>2, <2>3
  <2> HIDE DEF D
  <2> QED BY <2>1, <2>2, <2>4
<1>3. IsFiniteSet(D) /\ D \in SUBSET Nat
  BY <1>2, FS_Interval
<1> HIDE DEF D
<1>4. PICK k \in {0, 1} : \E i \in D : open[i].rank = k /\ \A j \in D : k <= open[j].rank
  BY <1>2
<1> DEFINE I == {i \in D : open[i].rank = k}
           T == {open[i].since : i \in I}
<1>5. I # {} /\ IsFiniteSet(I) /\ I \in SUBSET Nat
  BY <1>3, <1>4, FS_Subset
<1>6. T \in SUBSET Nat /\ T # {}
  BY <1>2, <1>5
<1>7. IsFiniteSet(T)
  <2> DEFINE g == [i \in I |-> open[i].since]
  <2>1. g \in Surjection(I, T)
    BY DEF Surjection
  <2> QED BY <1>5, <2>1, FS_Surjection
<1>8. PICK t \in T : \A u \in T : u <= t
  BY <1>6, <1>7, LastPosition
<1> DEFINE J == {i \in I : open[i].since = t}
<1>9. J # {} /\ IsFiniteSet(J) /\ J \in SUBSET Nat
  BY <1>5, <1>8, FS_Subset
<1>10. PICK m \in J : \A i \in J : i <= m
  BY <1>9, LastPosition
<1>11. m \in D /\ \A j \in D \ {m} : Survives(open, m, j)
  <2> SUFFICES ASSUME NEW j \in D \ {m} PROVE m \in D /\ Survives(open, m, j)
    BY <1>10
  <2>1. m \in D /\ open[m].rank = k /\ open[m].since = t /\ m \in Nat /\ j \in Nat
    BY <1>3, <1>10
  <2>2. open[j].rank \in {0, 1} /\ k <= open[j].rank /\ open[j].since \in Nat /\ t \in Nat
    BY <1>2, <1>4, <2>1
  <2>3. CASE open[j].rank # k
    BY <2>1, <2>2, <2>3 DEF Survives
  <2>4. CASE open[j].rank = k
    <3>1. open[j].since <= t
      BY <1>8, <2>4
    <3>2. CASE open[j].since = t
      <4>1. j <= m /\ j # m
        BY <1>10, <2>4, <3>2
      <4> QED BY <2>1, <2>4, <3>2, <4>1 DEF Survives
    <3>3. CASE open[j].since # t
      BY <2>1, <2>2, <2>4, <3>1, <3>3 DEF Survives
    <3> QED BY <3>2, <3>3
  <2> QED BY <2>3, <2>4
<1> DEFINE i == CHOOSE n \in D : \A j \in D \ {n} : Survives(open, n, j)
<1>12. i \in D
  BY <1>11
<1>13. Ever(f) = open[i]
  BY DEF Ever, D
<1> HIDE DEF i, S
<1>14. open[i] \in S
  BY <1>1, <1>12 DEF D
<1> QED BY <1>13, <1>14 DEF S

\* The atom of the row that a question reads tells what it reads.
LEMMA EverTells ==
  ASSUME EInv, NEW e, NEW prop, Has(e, prop)
  PROVE  /\ <<e, prop>> \in Facts
         /\ Ever(<<e, prop>>).value \in Written
         /\ Tells(Ever(<<e, prop>>).atom, <<e, prop>>, Ever(<<e, prop>>).value)
BY EverRow DEF Has, BackedRows

\* What atoms tell of the entities that a plan arrives at, and the rows that
\* it shows, from the atoms of an answer alone.
Entities(cited) == {f[1] : f \in {g \in Facts : \E a \in cited : \E v \in Written : Tells(a, g, v)}}
ArrivedAt(cited) == {l[2] : l \in {k \in Pairs : \E a \in cited : \E v \in Written : Tells(a, k, v)}}
Told(p, cited) ==
  IF p.count
  THEN {Cardinality(IF p.to = {} THEN Entities(cited) ELSE ArrivedAt(cited))} \ {0}
  ELSE {v \in Written : \E n \in ArrivedAt(cited) :
           <<n, p.show>> \in Facts /\ \E a \in cited : Tells(a, <<n, p.show>>, v)}

\* No Action writes both what a plan selects an entity by and what it shows of
\* the same entity, which it can only do where a hop leads back into the class.
Apart(p) ==
  \/ p.count \/ p.where = p.show
  \/ \A object \in Objects : \A n \in p.class \cap p.to :
       ~({<<n, p.where>>, <<n, p.show>>} \subseteq object)
ReadsApart == \A q \in Questions : \A p \in Funcs!Range(Asked[q].candidates) : Apart(p)

\* The atoms of a condition, and those of a link.
ConditionOf(p, a, e) ==
  /\ e \in p.class /\ Has(e, p.where)
  /\ a = Ever(<<e, p.where>>).atom
LinkOf(a, e, n) == <<e, n>> \in Pairs /\ \E v \in Written : Tells(a, <<e, n>>, v)

LEMMA RefsOf ==
  ASSUME EInv, NEW p, NEW level, NEW e \in Selected(p, level)
  PROVE  /\ \A a \in ConditionRefs(p, e) : ConditionOf(p, a, e)
         /\ ConditionRefs(p, e) = {} => p.where = NoProp
         /\ \A n : \A a \in LinkRefs(e, n) : LinkOf(a, e, n)
         /\ e \in p.class /\ \E f \in Facts : f[1] = e /\ rows[f] # <<>>
<1>1. e \in p.class /\ \E f \in Facts : f[1] = e /\ rows[f] # <<>>
  BY DEF Selected, Scanned
<1>2. p.where = NoProp \/ Has(e, p.where)
  BY DEF Selected
<1>3. ASSUME NEW n, NEW a \in LinkRefs(e, n) PROVE LinkOf(a, e, n)
  <2>1. <<e, n>> \in Pairs /\ \E l \in Funcs!Range(links[<<e, n>>]) : a = l.atom
    BY <1>3 DEF LinkRefs
  <2>2. PICK i \in DOMAIN links[<<e, n>>] : a = links[<<e, n>>][i].atom
    BY <2>1 DEF Funcs!Range
  <2>3. links[<<e, n>>] \in Seq(BackedRows(atoms, artifacts, <<e, n>>))
    BY <2>1 DEF EInv, StoreHeld, Held, OpenRows
  <2>4. links[<<e, n>>][i] \in BackedRows(atoms, artifacts, <<e, n>>)
    BY <2>3
  <2> QED BY <2>1, <2>2, <2>4 DEF BackedRows, LinkOf
<1> QED BY <1>1, <1>2, <1>3 DEF ConditionRefs, ConditionOf

\* A frame of entities that were reached by a link.
LEMMA FrameOfHop ==
  ASSUME EInv, NEW p, p.to # {}, NEW level, NEW n \in DOMAIN Frame(p, level)
  PROVE  /\ n \in p.to
         /\ \E a \in Frame(p, level)[n] : \E e : LinkOf(a, e, n)
         /\ \A a \in Frame(p, level)[n] : \E e : ConditionOf(p, a, e) \/ LinkOf(a, e, n)
<1> DEFINE from(m) == {e \in Selected(p, level) : LinkRefs(e, m) # {}}
           reached == {m \in Scanned(p.to) : from(m) # {}}
           refs(m, e) == ConditionRefs(p, e) \cup LinkRefs(e, m)
<1>1. Frame(p, level) = [m \in reached |-> UNION {refs(m, e) : e \in from(m)}]
  BY DEF Frame
<1>2. n \in reached /\ Frame(p, level)[n] = UNION {refs(n, e) : e \in from(n)}
  BY <1>1
<1>3. n \in p.to
  BY <1>2 DEF Scanned
<1>4. \A e \in from(n) : \A a \in refs(n, e) : ConditionOf(p, a, e) \/ LinkOf(a, e, n)
  BY RefsOf
<1>5. PICK e \in from(n) : LinkRefs(e, n) # {}
  BY <1>2
<1>6. PICK a \in LinkRefs(e, n) : TRUE
  BY <1>5
<1>7. LinkOf(a, e, n)
  BY <1>5, <1>6, RefsOf
<1>8. a \in Frame(p, level)[n]
  BY <1>2, <1>5, <1>6
<1>9. \A b \in Frame(p, level)[n] : \E d \in from(n) : b \in refs(n, d)
  BY <1>2
<1> HIDE DEF from, refs
<1> QED BY <1>3, <1>4, <1>7, <1>8, <1>9

\* A frame of the entities that were selected.
LEMMA FrameOfScan ==
  ASSUME EInv, NEW p, p.to = {}, NEW level, NEW e \in DOMAIN Frame(p, level)
  PROVE  /\ Frame(p, level)[e] = {} => \E f \in Facts : f[1] = e /\ rows[f] # <<>>
         /\ \A a \in Frame(p, level)[e] : ConditionOf(p, a, e)
<1>1. e \in Selected(p, level) /\ Frame(p, level)[e] = ConditionRefs(p, e)
  BY DEF Frame
<1> QED BY <1>1, RefsOf

\* What a condition looks at is a fact of the entity, and told by its atom.
LEMMA ConditionTells ==
  ASSUME EInv, NEW p, NEW a, NEW e, ConditionOf(p, a, e)
  PROVE  <<e, p.where>> \in Facts /\ \E v \in Written : Tells(a, <<e, p.where>>, v)
BY EverTells DEF ConditionOf

\* A link atom tells one pair and no fact.
LEMMA LinkTells ==
  ASSUME NEW a, NEW e, NEW n, LinkOf(a, e, n)
  PROVE  /\ \A k \in Pairs : \A v : Tells(a, k, v) => k[2] = n
         /\ \A f \in Facts : \A v : ~Tells(a, f, v)
<1>1. PICK u \in Written : <<e, n>> \in Pairs /\ Tells(a, <<e, n>>, u)
  BY DEF LinkOf
<1>2. \A k \in Facts \cup Pairs : \A v : Tells(a, k, v) => k = <<e, n>>
  BY <1>1, AtomsTell
<1> QED BY <1>1, <1>2, FactsAssumption

\* An atom that tells a fact of an entity tells facts of that entity only.
LEMMA FactTells ==
  ASSUME NEW a, NEW f \in Facts, NEW v, Tells(a, f, v)
  PROVE  /\ \A g \in Facts : \A w : Tells(a, g, w) => g[1] = f[1]
         /\ \A k \in Pairs : \A w : ~Tells(a, k, w)
<1>1. ASSUME NEW g \in Facts, NEW w, Tells(a, g, w) PROVE g[1] = f[1]
  <2>1. f = g \/ \E object \in Objects : f \in object /\ g \in object
    BY <1>1, AtomsTell
  <2> QED BY <2>1, ObjectsAssumption
<1>2. ASSUME NEW k \in Pairs, NEW w, Tells(a, k, w) PROVE FALSE
  <2>1. f = k
    BY <1>2, AtomsTell
  <2> QED BY <2>1, FactsAssumption
<1> QED BY <1>1, <1>2

\* The first cell of an entity that a scan found.
LEMMA FirstCellTells ==
  ASSUME EInv, NEW e, \E f \in Facts : f[1] = e /\ rows[f] # <<>>
  PROVE  \E f \in Facts : f[1] = e /\ \E v \in Written : Tells(FirstCell(e), f, v)
<1> DEFINE f == CHOOSE g \in Facts : g[1] = e /\ rows[g] # <<>>
<1>1. f \in Facts /\ f[1] = e /\ rows[f] # <<>>
  OBVIOUS
<1>2. FirstCell(e) = Ever(f).atom
  BY DEF FirstCell
<1> HIDE DEF f
<1>3. Ever(f) \in BackedRows(atoms, artifacts, f)
  BY <1>1, EverRow
<1> QED BY <1>1, <1>2, <1>3 DEF BackedRows

\* A count: the atoms of the answer tell whom it counts.
LEMMA CountTold ==
  ASSUME EInv, NEW p, p.count, NEW level
  PROVE  DOMAIN Table(p, Frame(p, level)) = Told(p, Fingerprint(Table(p, Frame(p, level))))
<1> DEFINE frame == Frame(p, level)
           refs(e) == IF frame[e] = {} THEN {FirstCell(e)} ELSE frame[e]
           table == Table(p, frame)
           cited == Fingerprint(table)
           N == Cardinality(DOMAIN frame)
           counted == IF p.to = {} THEN Entities(cited) ELSE ArrivedAt(cited)
<1> SUFFICES DOMAIN table = Told(p, cited)
  OBVIOUS
<1>1. table = [n \in {N} \ {0} |-> UNION {refs(e) : e \in DOMAIN frame}]
  BY DEF Table
<1>2. Told(p, cited) = {Cardinality(counted)} \ {0}
  BY DEF Told
<1>3. CASE N = 0
  <2>1. Funcs!Range(table) = {}
    BY <1>1, <1>3 DEF Funcs!Range
  <2>2. cited = {}
    BY <2>1 DEF Fingerprint
  <2> HIDE DEF cited
  <2>3. counted = {}
    BY <2>2 DEF Entities, ArrivedAt
  <2> HIDE DEF counted
  <2>4. Cardinality(counted) = 0
    BY <2>3, FS_EmptySet
  <2> QED BY <1>1, <1>2, <1>3, <2>4
<1>4. CASE N # 0
  <2>1. Funcs!Range(table) = {UNION {refs(e) : e \in DOMAIN frame}}
    BY <1>1, <1>4 DEF Funcs!Range
  <2>2. cited = UNION {refs(e) : e \in DOMAIN frame}
    BY <2>1 DEF Fingerprint
  <2> HIDE DEF cited, table
  <2>3. CASE p.to = {}
    <3>1. ASSUME NEW e \in DOMAIN frame, NEW a \in refs(e)
          PROVE  \E f \in Facts : f[1] = e /\ \E v \in Written : Tells(a, f, v)
      <4>1. CASE frame[e] = {}
        BY <2>3, <3>1, <4>1, FrameOfScan, FirstCellTells
      <4>2. CASE frame[e] # {}
        <5>1. ConditionOf(p, a, e)
          BY <2>3, <3>1, <4>2, FrameOfScan
        <5>2. <<e, p.where>> \in Facts /\ \E v \in Written : Tells(a, <<e, p.where>>, v)
          BY <5>1, ConditionTells
        <5>3. <<e, p.where>>[1] = e
          OBVIOUS
        <5> QED BY <5>2, <5>3
      <4> QED BY <4>1, <4>2
    <3>2. \A e \in DOMAIN frame : refs(e) # {}
      OBVIOUS
    <3> HIDE DEF refs, frame
    <3>3. DOMAIN frame \subseteq Entities(cited)
      <4> SUFFICES ASSUME NEW e \in DOMAIN frame PROVE e \in Entities(cited)
        OBVIOUS
      <4>1. PICK a \in refs(e) : TRUE
        BY <3>2
      <4>2. a \in cited
        BY <2>2, <4>1
      <4>3. PICK f \in Facts : f[1] = e /\ \E v \in Written : Tells(a, f, v)
        BY <3>1, <4>1
      <4> QED BY <4>2, <4>3 DEF Entities
    <3>4. Entities(cited) \subseteq DOMAIN frame
      <4> SUFFICES ASSUME NEW g \in Facts, NEW a \in cited, NEW v \in Written, Tells(a, g, v)
                   PROVE  g[1] \in DOMAIN frame
        BY DEF Entities
      <4>1. PICK e \in DOMAIN frame : a \in refs(e)
        BY <2>2
      <4>2. PICK f \in Facts : f[1] = e /\ \E w \in Written : Tells(a, f, w)
        BY <3>1, <4>1
      <4>3. g[1] = f[1]
        BY <4>2, FactTells
      <4> QED BY <4>2, <4>3
    <3>5. counted = DOMAIN frame
      BY <2>3, <3>3, <3>4
    <3> HIDE DEF counted
    <3> QED BY <1>1, <1>2, <3>5
  <2>4. CASE p.to # {}
    <3>1. ASSUME NEW n \in DOMAIN frame
          PROVE  /\ \E a \in refs(n) : \E e : LinkOf(a, e, n)
                 /\ \A a \in refs(n) : \E e : ConditionOf(p, a, e) \/ LinkOf(a, e, n)
      <4>1. /\ \E a \in frame[n] : \E e : LinkOf(a, e, n)
            /\ \A a \in frame[n] : \E e : ConditionOf(p, a, e) \/ LinkOf(a, e, n)
        BY <2>4, <3>1, FrameOfHop
      <4>2. refs(n) = frame[n]
        BY <4>1
      <4> QED BY <4>1, <4>2
    <3> HIDE DEF refs, frame
    <3>2. DOMAIN frame \subseteq ArrivedAt(cited)
      <4> SUFFICES ASSUME NEW n \in DOMAIN frame PROVE n \in ArrivedAt(cited)
        OBVIOUS
      <4>1. PICK a \in refs(n) : \E e : LinkOf(a, e, n)
        BY <3>1
      <4>2. PICK e : LinkOf(a, e, n)
        BY <4>1
      <4>3. <<e, n>> \in Pairs /\ (\E v \in Written : Tells(a, <<e, n>>, v)) /\ <<e, n>>[2] = n
        BY <4>2 DEF LinkOf
      <4>4. a \in cited
        BY <2>2, <4>1
      <4> QED BY <4>3, <4>4 DEF ArrivedAt
    <3>3. ArrivedAt(cited) \subseteq DOMAIN frame
      <4> SUFFICES ASSUME NEW k \in Pairs, NEW a \in cited, NEW v \in Written, Tells(a, k, v)
                   PROVE  k[2] \in DOMAIN frame
        BY DEF ArrivedAt
      <4>1. PICK n \in DOMAIN frame : a \in refs(n)
        BY <2>2
      <4>2. PICK e : ConditionOf(p, a, e) \/ LinkOf(a, e, n)
        BY <3>1, <4>1
      <4>3. LinkOf(a, e, n)
        <5>1. ASSUME ConditionOf(p, a, e) PROVE FALSE
          <6>1. <<e, p.where>> \in Facts /\ \E w \in Written : Tells(a, <<e, p.where>>, w)
            BY <5>1, ConditionTells
          <6> QED BY <6>1, FactTells
        <5> QED BY <4>2, <5>1
      <4>4. k[2] = n
        BY <4>3, LinkTells
      <4> QED BY <4>4
    <3>4. counted = DOMAIN frame
      BY <2>4, <3>2, <3>3
    <3> HIDE DEF counted
    <3> QED BY <1>1, <1>2, <3>4
  <2> QED BY <2>3, <2>4
<1> QED BY <1>3, <1>4

\* A list: the atoms of the answer tell which entities it shows, and the value
\* of each, as what a condition has looked at is not mistaken for it.
LEMMA ListTold ==
  ASSUME EInv, NEW p, ~p.count, p.to # {}, Apart(p), NEW level
  PROVE  DOMAIN Table(p, Frame(p, level)) = Told(p, Fingerprint(Table(p, Frame(p, level))))
<1> DEFINE frame == Frame(p, level)
           shown == {n \in DOMAIN frame : Has(n, p.show)}
           value(n) == Ever(<<n, p.show>>).value
           refs(n) == {Ever(<<n, p.show>>).atom} \cup frame[n]
           table == Table(p, frame)
           cited == Fingerprint(table)
<1>1. /\ DOMAIN table = {value(n) : n \in shown}
      /\ \A v \in DOMAIN table :
           table[v] = UNION {refs(n) : n \in {d \in DOMAIN frame : Has(d, p.show) /\ value(d) = v}}
  BY DEF Table
<1>2. cited = UNION {refs(n) : n \in shown}
  <2>1. cited = UNION {table[v] : v \in DOMAIN table}
    BY DEF Fingerprint, Funcs!Range
  <2> HIDE DEF cited, table, refs, value, frame
  <2> QED BY <1>1, <2>1
<1>3. Told(p, cited) = {v \in Written : \E n \in ArrivedAt(cited) :
                          <<n, p.show>> \in Facts /\ \E a \in cited : Tells(a, <<n, p.show>>, v)}
  BY DEF Told
<1>4. ASSUME NEW n \in shown
      PROVE  /\ <<n, p.show>> \in Facts /\ value(n) \in Written
             /\ Tells(Ever(<<n, p.show>>).atom, <<n, p.show>>, value(n))
             /\ n \in p.to
             /\ \E a \in refs(n) : \E e : LinkOf(a, e, n)
             /\ \A a \in refs(n) : \/ a = Ever(<<n, p.show>>).atom
                                   \/ \E e : ConditionOf(p, a, e) \/ LinkOf(a, e, n)
  <2>1. Has(n, p.show) /\ n \in DOMAIN frame
    OBVIOUS
  <2>2. /\ <<n, p.show>> \in Facts /\ value(n) \in Written
        /\ Tells(Ever(<<n, p.show>>).atom, <<n, p.show>>, value(n))
    BY <2>1, EverTells
  <2>3. /\ n \in p.to
        /\ \E a \in frame[n] : \E e : LinkOf(a, e, n)
        /\ \A a \in frame[n] : \E e : ConditionOf(p, a, e) \/ LinkOf(a, e, n)
    BY <2>1, FrameOfHop
  <2> HIDE DEF frame
  <2> QED BY <2>2, <2>3
<1> HIDE DEF cited, table, frame
<1>5. ASSUME NEW n \in shown PROVE value(n) \in Told(p, cited)
  <2>1. PICK a \in refs(n) : \E d : LinkOf(a, d, n)
    BY <1>4, <1>5
  <2>6. PICK e : LinkOf(a, e, n)
    BY <2>1
  <2>2. <<e, n>> \in Pairs /\ (\E v \in Written : Tells(a, <<e, n>>, v)) /\ <<e, n>>[2] = n
    BY <2>6 DEF LinkOf
  <2>3. refs(n) \subseteq cited
    BY <1>2, <1>5
  <2>4. n \in ArrivedAt(cited)
    BY <2>1, <2>2, <2>3 DEF ArrivedAt
  <2>5. Ever(<<n, p.show>>).atom \in cited
    BY <2>3
  <2> QED BY <1>3, <1>4, <1>5, <2>4, <2>5
<1>6. ASSUME NEW v \in Told(p, cited) PROVE v \in {value(n) : n \in shown}
  <2>1. v \in Written /\ \E n \in ArrivedAt(cited) :
           <<n, p.show>> \in Facts /\ \E a \in cited : Tells(a, <<n, p.show>>, v)
    BY <1>3, <1>6
  <2>2. PICK n \in ArrivedAt(cited), b \in cited :
           <<n, p.show>> \in Facts /\ Tells(b, <<n, p.show>>, v)
    BY <2>1
  <2>3. PICK k \in Pairs, a \in cited : k[2] = n /\ \E u \in Written : Tells(a, k, u)
    BY <2>2 DEF ArrivedAt
  <2>4. PICK m \in shown : a \in refs(m)
    BY <1>2, <2>3
  <2>5. \E e : LinkOf(a, e, m)
    <3>1. a # Ever(<<m, p.show>>).atom
      BY <1>4, <2>3, <2>4, FactTells
    <3>2. ASSUME NEW e, ConditionOf(p, a, e) PROVE FALSE
      <4>1. <<e, p.where>> \in Facts /\ \E w \in Written : Tells(a, <<e, p.where>>, w)
        BY <3>2, ConditionTells
      <4> QED BY <2>3, <4>1, FactTells
    <3> QED BY <1>4, <2>4, <3>1, <3>2
  <2>6. m = n
    BY <2>3, <2>5, LinkTells
  <2>7. n \in shown
    BY <2>4, <2>6
  <2>8. PICK d \in shown : b \in refs(d)
    BY <1>2, <2>2
  <2>9. b = Ever(<<n, p.show>>).atom
    <3>1. CASE b = Ever(<<d, p.show>>).atom
      <4>1. <<d, p.show>> \in Facts /\ Tells(b, <<d, p.show>>, value(d))
        BY <1>4, <2>8, <3>1
      <4>2. <<d, p.show>>[1] = <<n, p.show>>[1]
        BY <2>2, <4>1, FactTells
      <4> QED BY <3>1, <4>2
    <3>2. ASSUME NEW e, ConditionOf(p, b, e) PROVE b = Ever(<<n, p.show>>).atom
      <4>1. /\ e \in p.class /\ b = Ever(<<e, p.where>>).atom /\ <<e, p.where>> \in Facts
            /\ \E w \in Written : Tells(b, <<e, p.where>>, w)
        BY <3>2, ConditionTells DEF ConditionOf
      <4>2. <<e, p.where>>[1] = <<n, p.show>>[1]
        BY <2>2, <4>1, FactTells
      <4>3. e = n
        BY <4>2
      <4>4. \/ <<e, p.where>> = <<n, p.show>>
            \/ \E object \in Objects : <<e, p.where>> \in object /\ <<n, p.show>> \in object
        BY <2>2, <4>1, AtomsTell
      <4>5. n \in p.class \cap p.to
        BY <1>4, <2>7, <4>1, <4>3
      <4>6. p.where = p.show \/ <<e, p.where>> = <<n, p.show>>
        BY <4>3, <4>4, <4>5 DEF Apart
      <4> QED BY <4>1, <4>3, <4>6
    <3>3. ASSUME NEW e, LinkOf(b, e, d) PROVE FALSE
      BY <2>2, <3>3, LinkTells
    <3> QED BY <1>4, <2>8, <3>1, <3>2, <3>3
  <2>10. v = value(n)
    BY <1>4, <2>2, <2>7, <2>9, AtomsTell
  <2> QED BY <2>7, <2>10
<1> HIDE DEF value, shown
<1> QED BY <1>1, <1>5, <1>6 DEF cited, table, frame

\* Whatever level of repair a plan is executed at, the rows of its answer are
\* what the atoms of the answer tell.
LEMMA ExecutedTold ==
  ASSUME EInv, NEW p, Composed(p), Apart(p)
  PROVE  RowsOf(p) = Told(p, Fingerprint(Executed(p)))
<1>1. \A level : DOMAIN Table(p, Frame(p, level)) = Told(p, Fingerprint(Table(p, Frame(p, level))))
  BY CountTold, ListTold DEF Composed
<1>2. \E level : Executed(p) = Table(p, Frame(p, level))
  BY DEF Executed
<1> QED BY <1>1, <1>2 DEF RowsOf

\* A cached version holds the rows that its atoms tell.
Sound(version) ==
  /\ Composed(version.plan) /\ Apart(version.plan)
  /\ version.rows = Told(version.plan, version.fingerprint)
CInv ==
  /\ work = [k \in {Asked[q].key : q \in Questions} |-> work[k]]
  /\ \A k \in DOMAIN work : work[k] # None => Sound(work[k])

\* What is answered is the answer of a candidate.
LEMMA AnsweredFrom ==
  ASSUME NEW q \in Questions, Considered(q).kind = "answer"
  PROVE  \E p \in Funcs!Range(Asked[q].candidates) : Considered(q) = Answer(p)
<1> DEFINE cands == Asked[q].candidates
           S == Funcs!Range(cands)
<1>1. cands \in Seq(S) /\ Asked[q].gamma \in 0 .. Len(cands)
  BY AskedAssumption
<1>2. Gamma(q) \in Seq(S)
  <2> HIDE DEF S, cands
  <2>1. SubSeq(cands, 1, Asked[q].gamma) \in Seq(S)
    BY <1>1
  <2> QED BY <2>1 DEF Gamma, cands
<1>3. ASSUME NEW s \in Seq(S), Where(s, HoldsData) # <<>> PROVE Where(s, HoldsData)[1] \in S
  <2> DEFINE I == {i \in DOMAIN s : HoldsData(s[i])}
             w == Where(s, HoldsData)
  <2>1. w = At(s, I) /\ I \in SUBSET DOMAIN s
    BY DEF Where
  <2> HIDE DEF I, S
  <2>2. At(s, I) \in Seq(S)
    BY <2>1, SomeRows
  <2>3. w \in Seq(S) /\ w # <<>>
    BY <1>3, <2>1, <2>2
  <2> HIDE DEF w
  <2>4. w[1] \in S
    BY <2>3
  <2> QED BY <2>4 DEF w
<1>4. Viable(q) # <<>> => Viable(q)[1] \in S
  BY <1>2, <1>3 DEF Viable
<1>5. \/ Ranked(cands) = Abstention
      \/ \E p \in S : Ranked(cands) = Answer(p)
  BY <1>1, <1>3 DEF Ranked
<1> HIDE DEF S, cands
<1>6. /\ Abstention.kind # "answer"
      /\ \A options : Clarification(options).kind # "answer"
  BY DEF Abstention, Clarification
<1>7. Soft(q).kind # "answer"
  BY <1>6 DEF Soft
<1>8. \/ Considered(q) = Soft(q) \/ Considered(q) = Abstention
      \/ Considered(q) = Clarification(Options(Viable(q)))
      \/ Viable(q) # <<>> /\ Considered(q) = Answer(Viable(q)[1])
      \/ Considered(q) = Ranked(cands)
  BY DEF Considered, cands
<1>9. \/ Considered(q) = Answer(Viable(q)[1]) /\ Viable(q) # <<>>
      \/ Considered(q) = Ranked(cands)
  BY <1>6, <1>7, <1>8
<1> QED BY <1>4, <1>5, <1>6, <1>9 DEF S, cands

\* A version that is written back is what its atoms tell, at that moment and so
\* for as long as it is kept.
LEMMA AskStep ==
  ASSUME ReadsApart, EInv, CInv, NEW q \in Questions, Ask(q)
  PROVE  CInv'
<1>1. work' = IF Hit(q) THEN work ELSE WrittenBack(q, Considered(q))
  BY DEF Ask
<1>2. CASE work' = work
  BY <1>2 DEF CInv
<1>3. CASE /\ Considered(q).kind = "answer" /\ Composed(Considered(q).plan)
           /\ work' = [work EXCEPT ![Asked[q].key] =
                         [plan |-> Considered(q).plan, rows |-> Considered(q).rows,
                          fingerprint |-> Fingerprint(Executed(Considered(q).plan))]]
  <2>1. PICK p \in Funcs!Range(Asked[q].candidates) : Considered(q) = Answer(p)
    BY <1>3, AnsweredFrom
  <2>2. Considered(q).plan = p /\ Considered(q).rows = RowsOf(p)
    BY <2>1 DEF Answer
  <2>3. Apart(p) /\ Composed(p)
    BY <1>3, <2>1, <2>2 DEF ReadsApart
  <2> DEFINE version == [plan |-> p, rows |-> RowsOf(p), fingerprint |-> Fingerprint(Executed(p))]
  <2>4. RowsOf(p) = Told(p, Fingerprint(Executed(p)))
    BY <2>3, ExecutedTold
  <2>5. Sound(version)
    BY <2>3, <2>4 DEF Sound
  <2>6. work' = [work EXCEPT ![Asked[q].key] = version]
    BY <1>3, <2>2
  <2> HIDE DEF version
  <2> QED BY <2>5, <2>6 DEF CInv
<1> QED BY <1>1, <1>2, <1>3 DEF WrittenBack

LEMMA NextCInv == ReadsApart /\ EInv /\ CInv /\ [Next]_vars => CInv'
<1> SUFFICES ASSUME ReadsApart, EInv, CInv, [Next]_vars PROVE CInv'
  OBVIOUS
<1>1. ASSUME UNCHANGED work PROVE CInv'
  BY <1>1 DEF CInv
<1>2. CASE Restart
  <2>1. work' = [k \in DOMAIN work |-> None]
    BY <1>2 DEF Restart
  <2> QED BY <2>1 DEF CInv
<1>3. ASSUME NEW q \in Questions, Ask(q) PROVE CInv'
  BY <1>3, AskStep
<1>4. Choose => UNCHANGED work
  BY DEF Choose
<1>5. (Change /\ UNCHANGED engine) \/ UNCHANGED vars => UNCHANGED work
  BY DEF engine, vars
<1> QED BY <1>1, <1>2, <1>3, <1>4, <1>5 DEF Next

\* "a cached answer is NEVER served once its provenance has moved underneath it"
\* (discovery/cached_work.py:29), where no Action writes at once what a plan
\* selects an entity by and what it shows of it (AskFlywheel.consult).
THEOREM HitsStayCurrent == ReadsApart => (Spec => []HitIsCurrent)
<1> SUFFICES ASSUME ReadsApart PROVE Spec => []HitIsCurrent
  OBVIOUS
<1>1. Init => CInv
  BY DEF Init, CInv
<1>2. EInv /\ CInv /\ [Next]_vars => CInv'
  BY NextCInv
<1>3. EInv /\ CInv => HitIsCurrent
  <2> SUFFICES ASSUME EInv, CInv, NEW q \in Questions, Hit(q)
               PROVE  work[Asked[q].key].rows = RowsOf(work[Asked[q].key].plan)
    BY DEF HitIsCurrent
  <2> DEFINE version == work[Asked[q].key]
  <2>1. version # None /\ Fingerprint(Executed(version.plan)) = version.fingerprint
    BY DEF Hit
  <2>2. Sound(version)
    BY <2>1 DEF CInv
  <2>3. RowsOf(version.plan) = Told(version.plan, Fingerprint(Executed(version.plan)))
    BY <2>2, ExecutedTold DEF Sound
  <2> QED BY <2>1, <2>2, <2>3 DEF Sound
<1>4. Spec => []EInv
  BY QuestionsOnlyRead, EditInvariance, PTL
<1> QED BY <1>1, <1>2, <1>3, <1>4, PTL DEF Spec
=============================================================================

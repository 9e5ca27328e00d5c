------------------------- MODULE HearthShard_proofs -------------------------
(***************************************************************************)
(* Theorems about HearthShard, for every set of keys, values and windows   *)
(* and every bound.                                                        *)
(*                                                                         *)
(* What holds of the rows in one state, types, dense numbering, the open-  *)
(* cell invariant and the derived indexes, holds together through one      *)
(* inductive invariant, IInv; the first part of the module is about the    *)
(* helpers it is stated with.                                              *)
(*                                                                         *)
(* The second part is about the shard over time: it implements BeliefMap,  *)
(* a human edit that was saved stays one, and system time is append-only,  *)
(* in memory and in the file.  HInv adds to IInv how the rows came about:  *)
(* no row is stamped after the clock, and the rows in memory are the rows  *)
(* of the file, some of them closed since, and rows that are no older than *)
(* any of the file.                                                        *)
(***************************************************************************)
EXTENDS HearthShard, Subsequences_proofs, FiniteSetTheorems, WellFoundedInduction, TLAPS

SeqUnique(cs) == \A a, b \in cs : a.seq = b.seq => a = b

DenseTo(cs, n) == SeqsOf(cs) = 0 .. (n - 1) /\ SeqUnique(cs)

Stamped(cs) ==
  \A c \in cs : c.system.start <= MaxTime /\ (IsOpen(c.system) \/ c.system.end <= MaxTime + 1)

IInv ==
  /\ TypeOK
  /\ DenseTo(cells, rows)
  /\ \E n \in Nat : DenseTo(disk, n)
  /\ Stamped(cells) /\ Stamped(disk)
  /\ DisjointOpen(cells) /\ DisjointOpen(disk)
  /\ openSeqs = RebuiltOpen(cells)
  /\ current = RebuiltCurrent(cells)
  /\ pending # <<>> => clock <= MaxTime


-----------------------------------------------------------------------------
(* Helpers.                                                                *)

\* A bounded, nonempty set of naturals has a greatest element.
LEMMA BoundedLatest ==
  ASSUME NEW m \in Nat, NEW S \in SUBSET (0 .. m), S # {}
  PROVE  LatestOf(S) \in S /\ \A s \in S : s <= LatestOf(S)
<1> DEFINE U == {u \in Nat : \A s \in S : s <= u}
<1>1. m \in U
  OBVIOUS
<1>2. PICK u \in U : \A v \in U : ~ (<<v, u>> \in OpToRel(<, Nat))
  <2>1. IsWellFoundedOn(OpToRel(<, Nat), Nat)
    BY NatLessThanWellFounded
  <2>2. U \subseteq Nat /\ U # {}
    BY <1>1
  <2> HIDE DEF U
  <2> QED BY <2>1, <2>2, WFMin
<1>3. \A v \in U : ~ (v < u)
  BY <1>2 DEF OpToRel
<1>4. u \in S
  <2>1. SUFFICES ASSUME u \notin S PROVE FALSE
    OBVIOUS
  <2>2. PICK s \in S : TRUE
    OBVIOUS
  <2>3. \A t \in S : t <= u - 1
    BY <2>1
  <2>4. u - 1 \in U
    BY <2>2, <2>3
  <2> QED BY <1>3, <2>4
<1> QED BY <1>4 DEF LatestOf

\* Rows numbered 0 .. n-1, each number once, are n rows.
LEMMA DenseCardinality ==
  ASSUME NEW cs, NEW n \in Nat, DenseTo(cs, n)
  PROVE  IsFiniteSet(cs) /\ Cardinality(cs) = n
<1> DEFINE f == [s \in 0 .. (n - 1) |-> CHOOSE c \in cs : c.seq = s]
<1>1. \A s \in 0 .. (n - 1) : \E c \in cs : c.seq = s
  BY DEF DenseTo, SeqsOf
<1>2. \A s \in 0 .. (n - 1) : f[s] \in cs /\ f[s].seq = s
  BY <1>1
<1>3. \A c \in cs : c.seq \in 0 .. (n - 1) /\ f[c.seq] = c
  BY <1>2 DEF DenseTo, SeqsOf, SeqUnique
<1>4. f \in Bijection(0 .. (n - 1), cs)
  <2> DEFINE I == 0 .. (n - 1)
  <2> HIDE DEF f
  <2>1. DOMAIN f = I /\ f \in [I -> cs]
    BY <1>2 DEF f
  <2>2. IsInjective(f)
    BY <1>2, <2>1 DEF IsInjective
  <2>3. \A c \in cs : \E s \in I : f[s] = c
    BY <1>3
  <2> QED BY <2>1, <2>2, <2>3 DEF Bijection, Injection, Surjection
<1>5. IsFiniteSet(0 .. (n - 1)) /\ Cardinality(0 .. (n - 1)) = n
  BY FS_Interval
<1> QED BY <1>4, <1>5, FS_Bijection DEF ExistsBijection

-----------------------------------------------------------------------------
(* The rows one winning write adds.                                        *)

\* What the proofs use of the types.
LEMMA CellFields ==
  ASSUME NEW o \in Cells
  PROVE  /\ o.key \in Keys /\ o.val \in Values /\ o.rank \in 0 .. MaxRank
         /\ o.conf \in 0 .. MaxConf /\ o.seq \in Nat
         /\ o.valid \in Intervals /\ o.valid.start \in Nat /\ o.valid.end \in Nat
         /\ o.valid.start < o.valid.end /\ o.valid.end <= FOREVER
         /\ o.system \in Intervals /\ o.system.start \in Nat /\ o.system.end \in Nat
         /\ o.system.start < o.system.end /\ o.system.end <= FOREVER
BY DEF Cells, Intervals

LEMMA FactFields ==
  ASSUME NEW c \in Facts
  PROVE  /\ c.key \in Keys /\ c.val \in Values /\ c.rank \in 0 .. MaxRank
         /\ c.conf \in 0 .. MaxConf
         /\ c.valid \in Intervals /\ c.valid.start \in Nat /\ c.valid.end \in Nat
         /\ c.valid.start < c.valid.end /\ c.valid.end <= FOREVER
BY WindowsAssumption DEF Facts, Intervals

\* The pieces are numbered from rows + 1 upwards, each number once.
LEMMA SlotNumbers ==
  ASSUME cells \subseteq Cells, rows \in Nat, DenseTo(cells, rows), NEW c \in Facts
  PROVE  /\ IsFiniteSet(Slots(c)) /\ Cardinality(Slots(c)) \in Nat
         /\ \A s, t \in Slots(c) : SeqOfSlot(c, s) = SeqOfSlot(c, t) => s = t
         /\ {SeqOfSlot(c, s) : s \in Slots(c)}
              = (rows + 1) .. (rows + Cardinality(Slots(c)))
<1> DEFINE S == Slots(c)
           Rank(x) == Cardinality({s \in S : s <= x})
           n == Cardinality(S)
<1>1. \A o \in cells : o.seq \in Nat /\ o.seq < rows
  BY CellFields DEF DenseTo, SeqsOf
<1>2. \A s \in S : s \in Nat /\ s <= 2 * rows + 1
  <2> SUFFICES ASSUME NEW s \in S PROVE s \in Nat /\ s <= 2 * rows + 1
    OBVIOUS
  <2>1. PICK o \in cells : s = 2 * o.seq \/ s = 2 * o.seq + 1
    BY DEF Slots, LeftSlot, RightSlot, LeftOf, RightOf, Overlapping
  <2> QED BY <1>1, <2>1
<1>3. S \in SUBSET Nat
  BY <1>2
<1>4. IsFiniteSet(S)
  <2>1. 2 * rows + 1 \in Nat
    OBVIOUS
  <2> HIDE DEF S
  <2> QED BY <1>2, <1>3, <2>1, FS_BoundedSetOfNaturals
<1>5. n \in Nat
  BY <1>4, FS_CardinalityType
<1> HIDE DEF S
<1>6. /\ \A x, y \in S : Rank(x) = Rank(y) => x = y
      /\ {Rank(x) : x \in S} = 1 .. n
  BY <1>3, <1>4, RankBijection
<1>7. \A x \in S : SeqOfSlot(c, x) = rows + Rank(x) /\ Rank(x) \in 1 .. n
  BY <1>6 DEF SeqOfSlot, S
<1> HIDE DEF Rank, n
<1>8. \A s, t \in S : SeqOfSlot(c, s) = SeqOfSlot(c, t) => s = t
  BY <1>5, <1>6, <1>7
<1>9. {SeqOfSlot(c, s) : s \in S} = (rows + 1) .. (rows + n)
  <2>1. \A s \in S : SeqOfSlot(c, s) \in (rows + 1) .. (rows + n)
    BY <1>5, <1>7
  <2>2. ASSUME NEW t \in (rows + 1) .. (rows + n)
        PROVE  \E s \in S : SeqOfSlot(c, s) = t
    <3>1. t - rows \in 1 .. n /\ t = rows + (t - rows)
      BY <1>5
    <3>2. PICK s \in S : Rank(s) = t - rows
      BY <1>6, <3>1
    <3> QED BY <1>7, <3>1, <3>2
  <2> QED BY <2>1, <2>2
<1> QED BY <1>4, <1>5, <1>8, <1>9 DEF S, n

\* A residual piece says what the row it comes from said, on a part of that
\* row's window that the new window does not reach.
PieceOf(d, o, c) ==
  /\ d \in Cells
  /\ d.key = o.key
  /\ d.valid.start >= o.valid.start /\ d.valid.end <= o.valid.end
  /\ ~Overlaps(d.valid, c.valid)
  /\ d.system = Since(clock)

LEMMA LeftPieces ==
  ASSUME cells \subseteq Cells, rows \in Nat, DenseTo(cells, rows),
         clock \in 0 .. MaxTime, NEW c \in Facts, NEW o \in LeftOf(c)
  PROVE  /\ PieceOf(LeftPiece(o, c), o, c)
         /\ LeftPiece(o, c).seq = SeqOfSlot(c, LeftSlot(o)) /\ LeftSlot(o) \in Slots(c)
         /\ LeftPiece(o, c).valid.end = c.valid.start
<1>1. o \in cells /\ o \in Cells /\ o.valid.start < c.valid.start /\ Overlaps(o.valid, c.valid)
  BY DEF LeftOf, Overlapping
<1>2. LeftSlot(o) \in Slots(c)
  BY DEF Slots
<1>3. SeqOfSlot(c, LeftSlot(o)) \in Nat
  BY <1>2, SlotNumbers
<1>4. LeftPiece(o, c) =
        [key |-> o.key, val |-> o.val, rank |-> o.rank, conf |-> o.conf,
         valid |-> [start |-> o.valid.start, end |-> c.valid.start],
         system |-> Since(clock), seq |-> SeqOfSlot(c, LeftSlot(o))]
  BY <1>1 DEF LeftPiece, Row, Cells
<1>5. Since(clock) \in Intervals
  BY TimeAssumption, ForeverAssumption DEF Since, Intervals
<1>6. [start |-> o.valid.start, end |-> c.valid.start] \in Intervals
  BY <1>1, CellFields, FactFields, ForeverAssumption DEF Intervals
<1>7. LeftPiece(o, c) \in Cells
  BY <1>1, <1>3, <1>4, <1>5, <1>6, CellFields DEF Cells
<1>8. /\ LeftPiece(o, c).key = o.key /\ LeftPiece(o, c).system = Since(clock)
      /\ LeftPiece(o, c).seq = SeqOfSlot(c, LeftSlot(o))
      /\ LeftPiece(o, c).valid.start = o.valid.start /\ LeftPiece(o, c).valid.end = c.valid.start
  BY <1>4
<1>9. ~Overlaps(LeftPiece(o, c).valid, c.valid)
  BY <1>1, <1>8, CellFields, FactFields DEF Overlaps
<1>10. /\ LeftPiece(o, c).valid.start >= o.valid.start
       /\ LeftPiece(o, c).valid.end <= o.valid.end
  BY <1>1, <1>8, CellFields, FactFields DEF Overlaps
<1> QED BY <1>2, <1>7, <1>8, <1>9, <1>10 DEF PieceOf

LEMMA RightPieces ==
  ASSUME cells \subseteq Cells, rows \in Nat, DenseTo(cells, rows),
         clock \in 0 .. MaxTime, NEW c \in Facts, NEW o \in RightOf(c)
  PROVE  /\ PieceOf(RightPiece(o, c), o, c)
         /\ RightPiece(o, c).seq = SeqOfSlot(c, RightSlot(o)) /\ RightSlot(o) \in Slots(c)
         /\ RightPiece(o, c).valid.start = c.valid.end
<1>1. o \in cells /\ o \in Cells /\ c.valid.end < o.valid.end /\ Overlaps(o.valid, c.valid)
  BY DEF RightOf, Overlapping
<1>2. RightSlot(o) \in Slots(c)
  BY DEF Slots
<1>3. SeqOfSlot(c, RightSlot(o)) \in Nat
  BY <1>2, SlotNumbers
<1>4. RightPiece(o, c) =
        [key |-> o.key, val |-> o.val, rank |-> o.rank, conf |-> o.conf,
         valid |-> [start |-> c.valid.end, end |-> o.valid.end],
         system |-> Since(clock), seq |-> SeqOfSlot(c, RightSlot(o))]
  BY <1>1 DEF RightPiece, Row, Cells
<1>5. Since(clock) \in Intervals
  BY TimeAssumption, ForeverAssumption DEF Since, Intervals
<1>6. [start |-> c.valid.end, end |-> o.valid.end] \in Intervals
  BY <1>1, CellFields, FactFields, ForeverAssumption DEF Intervals
<1>7. RightPiece(o, c) \in Cells
  BY <1>1, <1>3, <1>4, <1>5, <1>6, CellFields DEF Cells
<1>8. /\ RightPiece(o, c).key = o.key /\ RightPiece(o, c).system = Since(clock)
      /\ RightPiece(o, c).seq = SeqOfSlot(c, RightSlot(o))
      /\ RightPiece(o, c).valid.start = c.valid.end /\ RightPiece(o, c).valid.end = o.valid.end
  BY <1>4
<1>9. ~Overlaps(RightPiece(o, c).valid, c.valid)
  BY <1>1, <1>8, CellFields, FactFields DEF Overlaps
<1>10. /\ RightPiece(o, c).valid.start >= o.valid.start
       /\ RightPiece(o, c).valid.end <= o.valid.end
  BY <1>1, <1>8, CellFields, FactFields DEF Overlaps
<1> QED BY <1>2, <1>7, <1>8, <1>9, <1>10 DEF PieceOf

\* Every residual is a piece of a displaced row; two of them never overlap and
\* never share a number; their numbers are the ones after the new row's.
LEMMA ResidualPieces ==
  ASSUME cells \subseteq Cells, rows \in Nat, DenseTo(cells, rows), DisjointOpen(cells),
         openSeqs = RebuiltOpen(cells), clock \in 0 .. MaxTime, NEW c \in Facts
  PROVE  /\ \A d \in Residuals(c) : \E o \in Overlapping(c) : PieceOf(d, o, c)
         /\ \A d, e \in Residuals(c) : d # e => d.seq # e.seq /\ ~Overlaps(d.valid, e.valid)
         /\ SeqsOf(Residuals(c)) = (rows + 1) .. (rows + Cardinality(Slots(c)))
<1> DEFINE Left(d, o)  == o \in LeftOf(c) /\ d = LeftPiece(o, c)
           Right(d, o) == o \in RightOf(c) /\ d = RightPiece(o, c)
<1>0. LeftOf(c) \subseteq Overlapping(c) /\ RightOf(c) \subseteq Overlapping(c)
  BY DEF LeftOf, RightOf
<1>1. \A d \in Residuals(c) : \E o \in Overlapping(c) : Left(d, o) \/ Right(d, o)
  BY <1>0 DEF Residuals
<1>2. \A d, o : Left(d, o) => PieceOf(d, o, c) /\ d.seq = SeqOfSlot(c, LeftSlot(o))
                              /\ LeftSlot(o) \in Slots(c) /\ d.valid.end = c.valid.start
  BY LeftPieces
<1>3. \A d, o : Right(d, o) => PieceOf(d, o, c) /\ d.seq = SeqOfSlot(c, RightSlot(o))
                               /\ RightSlot(o) \in Slots(c) /\ d.valid.start = c.valid.end
  BY RightPieces
<1>4. \A o, p \in Overlapping(c) : o # p => ~Overlaps(o.valid, p.valid) /\ o.seq # p.seq
  <2> SUFFICES ASSUME NEW o \in Overlapping(c), NEW p \in Overlapping(c), o # p
               PROVE  ~Overlaps(o.valid, p.valid) /\ o.seq # p.seq
    OBVIOUS
  <2>1. o \in cells /\ p \in cells /\ o.key = c.key /\ p.key = c.key
        /\ o.seq \in openSeqs[c.key] /\ p.seq \in openSeqs[c.key]
    BY DEF Overlapping
  <2>2. c.key \in Keys
    BY FactFields
  <2>3. IsOpen(o.system) /\ IsOpen(p.system)
    BY <2>1, <2>2 DEF RebuiltOpen, SeqsOf, DenseTo, SeqUnique
  <2> QED BY <2>1, <2>3 DEF DisjointOpen, DenseTo, SeqUnique
<1>5. ASSUME NEW d \in Residuals(c), NEW e \in Residuals(c), d # e
      PROVE  d.seq # e.seq /\ ~Overlaps(d.valid, e.valid)
  <2>1. PICK o \in Overlapping(c) : Left(d, o) \/ Right(d, o)
    BY <1>1
  <2>2. PICK p \in Overlapping(c) : Left(e, p) \/ Right(e, p)
    BY <1>1
  <2>3. o \in Cells /\ p \in Cells /\ o.seq \in Nat /\ p.seq \in Nat
    BY CellFields DEF Overlapping
  <2>4. /\ PieceOf(d, o, c) /\ PieceOf(e, p, c)
    BY <1>2, <1>3, <2>1, <2>2
  <2>5. d \in Cells /\ e \in Cells
    BY <2>4 DEF PieceOf
  <2>6. d.seq # e.seq
    <3>1. CASE Left(d, o) /\ Left(e, p)
      <4>1. LeftSlot(o) # LeftSlot(p)
        BY <1>4, <1>5, <2>3, <3>1 DEF LeftSlot
      <4> QED BY <1>2, <3>1, <4>1, SlotNumbers
    <3>2. CASE Right(d, o) /\ Right(e, p)
      <4>1. RightSlot(o) # RightSlot(p)
        BY <1>4, <1>5, <2>3, <3>2, SMTT(20) DEF RightSlot
      <4> QED BY <1>3, <3>2, <4>1, SlotNumbers
    <3>3. CASE Left(d, o) /\ Right(e, p)
      <4>1. LeftSlot(o) # RightSlot(p)
        BY <2>3 DEF LeftSlot, RightSlot
      <4> QED BY <1>2, <1>3, <3>3, <4>1, SlotNumbers
    <3>4. CASE Right(d, o) /\ Left(e, p)
      <4>1. RightSlot(o) # LeftSlot(p)
        BY <2>3 DEF LeftSlot, RightSlot
      <4> QED BY <1>2, <1>3, <3>4, <4>1, SlotNumbers
    <3> QED BY <2>1, <2>2, <3>1, <3>2, <3>3, <3>4
  <2>7. ~Overlaps(d.valid, e.valid)
    <3>1. CASE o # p
      <4>1. ~Overlaps(o.valid, p.valid)
        BY <1>4, <3>1
      <4>2. /\ d.valid.start >= o.valid.start /\ d.valid.end <= o.valid.end
            /\ e.valid.start >= p.valid.start /\ e.valid.end <= p.valid.end
        BY <2>4 DEF PieceOf
      <4> QED BY <2>3, <2>5, <4>1, <4>2, CellFields DEF Overlaps
    <3>2. CASE o = p
      <4>1. \/ d.valid.end = c.valid.start /\ e.valid.start = c.valid.end
            \/ e.valid.end = c.valid.start /\ d.valid.start = c.valid.end
        <5>1. ~ (Left(d, o) /\ Left(e, p)) /\ ~ (Right(d, o) /\ Right(e, p))
          BY <1>5, <3>2
        <5> HIDE DEF Left, Right
        <5> QED BY <1>2, <1>3, <2>1, <2>2, <5>1
      <4> QED BY <2>5, <4>1, CellFields, FactFields DEF Overlaps
    <3> QED BY <3>1, <3>2
  <2> QED BY <2>6, <2>7
<1>6. SeqsOf(Residuals(c)) = {SeqOfSlot(c, s) : s \in Slots(c)}
  <2>1. \A d \in Residuals(c) : \E s \in Slots(c) : d.seq = SeqOfSlot(c, s)
    BY <1>1, <1>2, <1>3
  <2>2. ASSUME NEW s \in Slots(c)
        PROVE  \E d \in Residuals(c) : d.seq = SeqOfSlot(c, s)
    <3>1. CASE \E o \in LeftOf(c) : s = LeftSlot(o)
      BY <1>2, <3>1 DEF Residuals
    <3>2. CASE \E o \in RightOf(c) : s = RightSlot(o)
      BY <1>3, <3>2 DEF Residuals
    <3> QED BY <3>1, <3>2 DEF Slots
  <2> QED BY <2>1, <2>2 DEF SeqsOf
<1> HIDE DEF Left, Right
<1> QED BY <1>1, <1>2, <1>3, <1>5, <1>6, SlotNumbers

\* An expired row says what it said, and is closed no earlier than the clock.
LEMMA ExpiredFields ==
  ASSUME NEW o \in Cells, o.system.start <= MaxTime, clock \in 0 .. MaxTime
  PROVE  /\ Expired(o) \in Cells
         /\ Expired(o).key = o.key /\ Expired(o).val = o.val /\ Expired(o).valid = o.valid
         /\ Expired(o).rank = o.rank /\ Expired(o).conf = o.conf /\ Expired(o).seq = o.seq
         /\ Expired(o).system.start = o.system.start
         /\ ~IsOpen(Expired(o).system)
         /\ Expired(o).system.end >= clock /\ Expired(o).system.end <= MaxTime + 1
<1> DEFINE e == IF clock > o.system.start + 1 THEN clock ELSE o.system.start + 1
           sys == [o.system EXCEPT !.end = e]
<1>1. o.system \in [start : Nat, end : Nat]
  BY CellFields DEF Intervals
<1>2. e \in Nat /\ o.system.start < e /\ e <= MaxTime + 1 /\ e >= clock
  BY <1>1, TimeAssumption
<1> HIDE DEF e
<1>3. sys \in [start : Nat, end : Nat] /\ sys.start = o.system.start /\ sys.end = e
  BY <1>1, <1>2
<1>4. sys \in Intervals /\ ~IsOpen(sys)
  BY <1>2, <1>3, TimeAssumption, ForeverAssumption DEF Intervals, IsOpen
<1> HIDE DEF sys
<1>5. Expired(o) = [o EXCEPT !.system = sys]
  BY DEF Expired, sys, e
<1>6. [o EXCEPT !.system = sys] \in Cells
  BY <1>4 DEF Cells
<1>7. Expired(o).system = sys
  BY <1>5 DEF Cells
<1>8. /\ Expired(o).key = o.key /\ Expired(o).val = o.val /\ Expired(o).valid = o.valid
      /\ Expired(o).rank = o.rank /\ Expired(o).conf = o.conf /\ Expired(o).seq = o.seq
  BY <1>5 DEF Cells
<1> QED BY <1>2, <1>3, <1>4, <1>5, <1>6, <1>7, <1>8

\* The row of an incoming cell.
LEMMA RowFields ==
  ASSUME NEW c \in Facts, NEW n \in Nat, NEW i \in Intervals
  PROVE  /\ Row(c, n, i) \in Cells
         /\ Row(c, n, i).key = c.key /\ Row(c, n, i).val = c.val
         /\ Row(c, n, i).valid = c.valid /\ Row(c, n, i).rank = c.rank
         /\ Row(c, n, i).conf = c.conf /\ Row(c, n, i).system = i /\ Row(c, n, i).seq = n
<1>1. c.valid \in Intervals
  BY FactFields
<1>2. Row(c, n, i) \in Cells
  BY <1>1, FactFields DEF Row, Cells
<1> QED BY <1>2 DEF Row

\* _refresh_current always names a row or no row.
LEMMA CurrentType ==
  ASSUME NEW cs, NEW n \in Nat, SeqsOf(cs) = 0 .. (n - 1), NEW S
  PROVE  CurrentIn(cs, S) \in Nat \cup {NoSeq}
<1> DEFINE both == SeqsOf({c \in cs : c.seq \in S /\ IsOpen(c.valid)})
<1>1. both \in SUBSET (0 .. n)
  <2> SUFFICES ASSUME NEW s \in both PROVE s \in 0 .. n
    OBVIOUS
  <2>1. s \in SeqsOf(cs)
    BY DEF SeqsOf
  <2> QED BY <2>1
<1> HIDE DEF both
<1>2. ASSUME both # {} PROVE LatestOf(both) \in Nat
  <2>1. LatestOf(both) \in both
    BY <1>1, <1>2, BoundedLatest
  <2>2. \A s \in both : s \in Nat
    BY <1>1
  <2> QED BY <2>1, <2>2
<1>3. CurrentIn(cs, S) = IF both = {} THEN NoSeq ELSE LatestOf(both)
  BY DEF CurrentIn, both
<1> QED BY <1>2, <1>3

-----------------------------------------------------------------------------
(* The inductive invariant.                                                *)

\* The cell being applied, and the instant it is applied at.
LEMMA HeadIsFact ==
  ASSUME IInv, pending # <<>>
  PROVE  /\ Head(pending) \in Facts
         /\ Tail(pending) \in Seq(Facts)
         /\ clock \in 0 .. MaxTime /\ clock \in Nat
<1>1. pending \in Seq(Facts) /\ clock \in 0 .. MaxTime + 1 /\ clock <= MaxTime
  BY DEF IInv, TypeOK
<1>2. Head(pending) \in Facts /\ Tail(pending) \in Seq(Facts)
  BY <1>1
<1> QED BY <1>1, <1>2, TimeAssumption

LEMMA NextPendingType ==
  ASSUME IInv, pending # <<>>, NextPending
  PROVE  pending' \in Seq(Facts) /\ saving' \in BOOLEAN
BY HeadIsFact DEF NextPending

\* A write that loses adds one closed row.
LEMMA DeadOnArrivalStep ==
  ASSUME IInv, ApplyDeadOnArrival
  PROVE  IInv'
<1> DEFINE c == Head(pending)
           i == [start |-> clock, end |-> clock + 1]
           new == Row(c, rows, i)
<1>1. /\ pending # <<>> /\ cells' = cells \cup {new} /\ rows' = rows + 1
      /\ NextPending /\ UNCHANGED <<openSeqs, current, clock, disk>>
  BY DEF ApplyDeadOnArrival
<1>2. c \in Facts /\ clock \in 0 .. MaxTime /\ clock \in Nat
  BY <1>1, HeadIsFact
<1>3. i \in Intervals /\ ~IsOpen(i) /\ i.start <= MaxTime /\ i.end <= MaxTime + 1
  BY <1>2, TimeAssumption, ForeverAssumption DEF Intervals, IsOpen
<1>4. rows \in Nat /\ cells \subseteq Cells /\ DenseTo(cells, rows)
  BY DEF IInv, TypeOK
<1> HIDE DEF c, i
<1>5. /\ new \in Cells /\ new.seq = rows /\ new.system = i /\ new.key = c.key
      /\ new.valid = c.valid
  BY <1>2, <1>3, <1>4, RowFields
<1> HIDE DEF new
<1>6. \A d \in cells : d.seq \in 0 .. (rows - 1)
  BY <1>4 DEF DenseTo, SeqsOf
<1>7. DenseTo(cells', rows')
  <2>1. SeqsOf(cells') = SeqsOf(cells) \cup {rows}
    BY <1>1, <1>5 DEF SeqsOf
  <2>2. SeqsOf(cells') = 0 .. (rows' - 1)
    <3>1. (0 .. (rows - 1)) \cup {rows} = 0 .. rows
      BY <1>4
    <3>2. SeqsOf(cells) = 0 .. (rows - 1) /\ rows' - 1 = rows
      BY <1>1, <1>4 DEF DenseTo
    <3> QED BY <2>1, <3>1, <3>2
  <2>3. SeqUnique(cells')
    BY <1>1, <1>4, <1>5, <1>6 DEF DenseTo, SeqUnique
  <2> QED BY <2>2, <2>3 DEF DenseTo
<1>8. Stamped(cells')
  BY <1>1, <1>3, <1>5 DEF IInv, Stamped
<1>9. DisjointOpen(cells')
  BY <1>1, <1>3, <1>5 DEF IInv, DisjointOpen
<1>10. RebuiltOpen(cells') = RebuiltOpen(cells)
  <2>1. \A k \in Keys : {d \in cells' : d.key = k /\ IsOpen(d.system)}
                          = {d \in cells : d.key = k /\ IsOpen(d.system)}
    BY <1>1, <1>3, <1>5
  <2> QED BY <2>1 DEF RebuiltOpen
<1>11. RebuiltCurrent(cells') = RebuiltCurrent(cells)
  <2>1. ASSUME NEW k \in Keys
        PROVE  CurrentIn(cells', RebuiltOpen(cells)[k]) = CurrentIn(cells, RebuiltOpen(cells)[k])
    <3> DEFINE S == RebuiltOpen(cells)[k]
    <3>1. rows \notin S
      BY <1>4, <1>6 DEF RebuiltOpen, SeqsOf
    <3> HIDE DEF S
    <3>2. {d \in cells' : d.seq \in S /\ IsOpen(d.valid)}
            = {d \in cells : d.seq \in S /\ IsOpen(d.valid)}
      BY <1>1, <1>5, <3>1
    <3> QED BY <3>2 DEF CurrentIn, S
  <2> QED BY <1>10, <2>1 DEF RebuiltCurrent
<1>12. TypeOK'
  BY <1>1, <1>5, NextPendingType DEF IInv, TypeOK
<1> QED
  BY <1>1, <1>2, <1>7, <1>8, <1>9, <1>10, <1>11, <1>12 DEF IInv

\* A write that wins closes what it overlaps and adds itself and the pieces.
LEMMA WinningStep ==
  ASSUME IInv, ApplyWinning
  PROVE  IInv'
<1> DEFINE c == Head(pending)
           new == Row(c, rows, Since(clock))
           Over == Overlapping(c)
           Res == Residuals(c)
           n == Cardinality(Slots(c))
<1>1. /\ pending # <<>> /\ NextPending /\ UNCHANGED <<clock, disk>>
      /\ cells' = (cells \ Over) \cup Closed(c) \cup {new} \cup Res
      /\ rows' = rows + 1 + n
      /\ openSeqs' = [openSeqs EXCEPT ![c.key] = OpenAfter(c)]
      /\ current' = [current EXCEPT ![c.key] = CurrentIn(cells', OpenAfter(c))]
  BY DEF ApplyWinning
<1>2. c \in Facts /\ clock \in 0 .. MaxTime /\ clock \in Nat
  BY <1>1, HeadIsFact
<1>3. /\ rows \in Nat /\ cells \subseteq Cells /\ DenseTo(cells, rows)
      /\ DisjointOpen(cells) /\ openSeqs = RebuiltOpen(cells)
  BY DEF IInv, TypeOK
<1>4. /\ Since(clock) \in Intervals /\ IsOpen(Since(clock)) /\ Since(clock).start = clock
  BY <1>2, TimeAssumption, ForeverAssumption DEF Since, Intervals, IsOpen
<1> HIDE DEF c
<1>5. /\ new \in Cells /\ new.seq = rows /\ new.system = Since(clock) /\ new.key = c.key
      /\ new.valid = c.valid
  BY <1>2, <1>3, <1>4, RowFields
<1>6. /\ \A d \in Res : \E o \in Over : PieceOf(d, o, c)
      /\ \A d, e \in Res : d # e => d.seq # e.seq /\ ~Overlaps(d.valid, e.valid)
      /\ SeqsOf(Res) = (rows + 1) .. (rows + n)
  BY <1>2, <1>3, ResidualPieces
<1>7. n \in Nat
  BY <1>2, <1>3, SlotNumbers
<1>8. \A o \in Over : /\ o \in cells /\ o \in Cells /\ o.key = c.key
                      /\ IsOpen(o.system) /\ o.system.start <= MaxTime
                      /\ Overlaps(o.valid, c.valid)
  <2> SUFFICES ASSUME NEW o \in Over
               PROVE  /\ o \in cells /\ o \in Cells /\ o.key = c.key
                      /\ IsOpen(o.system) /\ o.system.start <= MaxTime
                      /\ Overlaps(o.valid, c.valid)
    OBVIOUS
  <2>1. o \in cells /\ o \in Cells /\ o.key = c.key /\ o.seq \in openSeqs[c.key]
        /\ Overlaps(o.valid, c.valid)
    BY <1>3 DEF Overlapping
  <2>2. c.key \in Keys
    BY <1>2, FactFields
  <2>3. IsOpen(o.system)
    BY <1>3, <2>1, <2>2 DEF RebuiltOpen, SeqsOf, DenseTo, SeqUnique
  <2> QED BY <2>1, <2>3 DEF IInv, Stamped
<1>9. \A d \in cells : d.key = c.key /\ IsOpen(d.system) /\ Overlaps(d.valid, c.valid)
                          => d \in Over
  <2> SUFFICES ASSUME NEW d \in cells, d.key = c.key, IsOpen(d.system),
                      Overlaps(d.valid, c.valid)
               PROVE  d \in Over
    OBVIOUS
  <2>1. c.key \in Keys
    BY <1>2, FactFields
  <2>2. d.seq \in openSeqs[c.key]
    BY <1>3, <2>1 DEF RebuiltOpen, SeqsOf
  <2> QED BY <2>2 DEF Overlapping
<1>10. \A o \in Over : /\ Expired(o) \in Cells /\ Expired(o).key = o.key
                       /\ Expired(o).seq = o.seq /\ ~IsOpen(Expired(o).system)
                       /\ Expired(o).system.start <= MaxTime
                       /\ Expired(o).system.end <= MaxTime + 1
  BY <1>2, <1>8, ExpiredFields
<1>11. \A d \in cells : d.seq \in Nat /\ d.seq < rows
  BY <1>3, CellFields DEF DenseTo, SeqsOf
<1>12. \A d \in Res : /\ d \in Cells /\ d.key = c.key /\ d.system = Since(clock)
                      /\ d.seq \in Nat /\ d.seq > rows /\ d.seq <= rows + n
                      /\ ~Overlaps(d.valid, c.valid)
  <2> SUFFICES ASSUME NEW d \in Res
               PROVE  /\ d \in Cells /\ d.key = c.key /\ d.system = Since(clock)
                      /\ d.seq \in Nat /\ d.seq > rows /\ d.seq <= rows + n
                      /\ ~Overlaps(d.valid, c.valid)
    OBVIOUS
  <2>1. /\ d \in Cells /\ d.key = c.key /\ d.system = Since(clock) /\ ~Overlaps(d.valid, c.valid)
    BY <1>6, <1>8 DEF PieceOf
  <2>2. d.seq \in (rows + 1) .. (rows + n)
    BY <1>6 DEF SeqsOf
  <2> QED BY <1>3, <1>7, <2>1, <2>2
\* The five kinds of row there are after the step, reduced to four.
<1>13. \A d \in cells' : \/ d \in cells /\ d \notin Over
                         \/ \E o \in Over : d = Expired(o)
                         \/ d = new
                         \/ d \in Res
  BY <1>1 DEF Closed
<1> HIDE DEF new, Over, Res, n
<1>14. cells' \subseteq Cells
  BY <1>3, <1>5, <1>10, <1>12, <1>13
<1>15. Stamped(cells')
  <2> SUFFICES ASSUME NEW d \in cells'
               PROVE  d.system.start <= MaxTime
                      /\ (IsOpen(d.system) \/ d.system.end <= MaxTime + 1)
    BY DEF Stamped
  <2>1. CASE d \in cells
    BY <2>1 DEF IInv, Stamped
  <2>2. CASE \E o \in Over : d = Expired(o)
    BY <2>2, <1>10
  <2>3. CASE d = new \/ d \in Res
    BY <2>3, <1>2, <1>4, <1>5, <1>12
  <2> QED BY <1>13, <2>1, <2>2, <2>3
<1>16. DisjointOpen(cells')
  <2>1. \A d \in cells' : IsOpen(d.system) => \/ d \in cells /\ d \notin Over
                                              \/ d = new
                                              \/ d \in Res
    BY <1>10, <1>13
  <2>2. ASSUME NEW a \in cells, NEW b \in cells, a.key = b.key, a # b,
               IsOpen(a.system), IsOpen(b.system)
        PROVE  ~Overlaps(a.valid, b.valid)
    BY <1>3, <2>2 DEF DisjointOpen
  <2>3. ASSUME NEW a \in cells, a \notin Over, a.key = c.key, IsOpen(a.system), NEW d \in Res
        PROVE  ~Overlaps(a.valid, d.valid)
    <3>1. PICK o \in Over : PieceOf(d, o, c)
      BY <1>6
    <3>2. ~Overlaps(a.valid, o.valid)
      BY <1>8, <2>2, <2>3
    <3>3. a \in Cells /\ o \in Cells /\ d \in Cells
          /\ d.valid.start >= o.valid.start /\ d.valid.end <= o.valid.end
      BY <1>3, <1>8, <3>1 DEF PieceOf
    <3> QED BY <3>2, <3>3, CellFields DEF Overlaps
  <2>4. ASSUME NEW a \in cells, a \notin Over, a.key = c.key, IsOpen(a.system)
        PROVE  ~Overlaps(a.valid, new.valid)
    BY <1>5, <1>9, <2>4
  <2>5. \A d \in Res : ~Overlaps(d.valid, new.valid)
    BY <1>5, <1>12
  <2>6. \A i, j : Overlaps(i, j) <=> Overlaps(j, i)
    BY DEF Overlaps
  <2> SUFFICES ASSUME NEW a \in cells', NEW b \in cells', a.key = b.key, a # b,
                      IsOpen(a.system), IsOpen(b.system)
               PROVE  ~Overlaps(a.valid, b.valid)
    BY DEF DisjointOpen
  <2>7. CASE a \in cells /\ a \notin Over
    <3>1. CASE b \in cells /\ b \notin Over
      BY <2>2, <2>7, <3>1
    <3>2. CASE b = new
      BY <1>5, <2>4, <2>7, <3>2
    <3>3. CASE b \in Res
      BY <1>12, <2>3, <2>7, <3>3
    <3> QED BY <2>1, <3>1, <3>2, <3>3
  <2>8. CASE a = new
    <3>1. CASE b \in cells /\ b \notin Over
      BY <1>5, <2>4, <2>6, <2>8, <3>1
    <3>2. CASE b \in Res
      BY <2>5, <2>6, <2>8, <3>2
    <3> QED BY <2>1, <2>8, <3>1, <3>2
  <2>9. CASE a \in Res
    <3>1. CASE b \in cells /\ b \notin Over
      BY <1>12, <2>3, <2>6, <2>9, <3>1
    <3>2. CASE b = new
      BY <2>5, <2>9, <3>2
    <3>3. CASE b \in Res
      BY <1>6, <2>9, <3>3
    <3> QED BY <2>1, <3>1, <3>2, <3>3
  <2> QED BY <2>1, <2>7, <2>8, <2>9
<1>17. SeqUnique(cells')
  <2> SUFFICES ASSUME NEW a \in cells', NEW b \in cells', a.seq = b.seq
               PROVE  a = b
    BY DEF SeqUnique
  <2>1. \A p, q \in cells : p.seq = q.seq => p = q
    BY <1>3 DEF DenseTo, SeqUnique
  <2>2. \A d \in cells' : \/ d \in cells /\ d \notin Over /\ d.seq < rows
                          \/ \E o \in Over : d = Expired(o) /\ d.seq = o.seq /\ o.seq < rows
                          \/ d = new /\ d.seq = rows
                          \/ d \in Res /\ d.seq > rows
    BY <1>5, <1>8, <1>10, <1>11, <1>12, <1>13
  <2>3. a.seq \in Nat /\ b.seq \in Nat
    BY <1>14, CellFields
  <2>4. CASE a.seq < rows
    <3>1. \A d \in cells' : d.seq < rows =>
             \/ d \in cells /\ d \notin Over
             \/ \E o \in Over : d = Expired(o) /\ d.seq = o.seq
      BY <1>3, <1>14, <2>2, CellFields
    <3> QED BY <1>8, <2>1, <2>4, <3>1
  <2>5. CASE a.seq = rows
    <3>1. ASSUME NEW d \in cells', d.seq = rows PROVE d = new
      <4>1. ~ (d.seq < rows) /\ ~ (d.seq > rows)
        BY <1>3, <3>1
      <4> QED BY <2>2, <4>1
    <3> QED BY <2>5, <3>1
  <2>6. CASE a.seq > rows
    <3>1. a \in Res /\ b \in Res
      BY <1>3, <2>2, <2>3, <2>6
    <3> QED BY <1>6, <3>1
  <2> QED BY <1>3, <2>3, <2>4, <2>5, <2>6
<1>18. SeqsOf(cells') = 0 .. (rows' - 1)
  <2>1. rows' = rows + 1 + n
    BY <1>1
  <2>2. ASSUME NEW d \in cells' PROVE d.seq \in 0 .. (rows' - 1)
    <3>1. d.seq \in Nat /\ d.seq <= rows + n
      <4>1. CASE d \in cells
        BY <1>3, <1>7, <1>11, <4>1
      <4>2. CASE \E o \in Over : d = Expired(o)
        BY <1>3, <1>7, <1>8, <1>10, <1>11, <4>2
      <4>3. CASE d = new
        BY <1>3, <1>5, <1>7, <4>3
      <4>4. CASE d \in Res
        BY <1>12, <4>4
      <4> QED BY <1>13, <4>1, <4>2, <4>3, <4>4
    <3> QED BY <1>3, <1>7, <2>1, <3>1
  <2>3. ASSUME NEW s \in 0 .. (rows' - 1) PROVE \E d \in cells' : d.seq = s
    <3>1. CASE s < rows
      <4>1. PICK d \in cells : d.seq = s
        BY <1>3, <3>1 DEF DenseTo, SeqsOf
      <4>2. CASE d \in Over
        BY <1>1, <1>10, <4>1, <4>2 DEF Closed, Over
      <4>3. CASE d \notin Over
        BY <1>1, <4>1, <4>3
      <4> QED BY <4>2, <4>3
    <3>2. CASE s = rows
      BY <1>1, <1>5, <3>2
    <3>3. CASE s > rows
      <4>1. s \in (rows + 1) .. (rows + n)
        BY <1>3, <1>7, <2>1, <3>3
      <4>2. PICK d \in Res : d.seq = s
        BY <1>6, <4>1 DEF SeqsOf
      <4> QED BY <1>1, <4>2
    <3> QED BY <1>3, <3>1, <3>2, <3>3
  <2> QED BY <2>2, <2>3 DEF SeqsOf
<1>19. OpenAfter(c) = RebuiltOpen(cells')[c.key]
  <2>1. c.key \in Keys
    BY <1>2, FactFields
  <2>2. openSeqs[c.key] = SeqsOf({d \in cells : d.key = c.key /\ IsOpen(d.system)})
    BY <1>3, <2>1 DEF RebuiltOpen
  <2>3. RebuiltOpen(cells')[c.key] = SeqsOf({d \in cells' : d.key = c.key /\ IsOpen(d.system)})
    BY <2>1 DEF RebuiltOpen
  <2>4. OpenAfter(c) = (openSeqs[c.key] \ SeqsOf(Over)) \cup {rows} \cup SeqsOf(Res)
    BY DEF OpenAfter, Over, Res
  <2>5. ASSUME NEW s \in OpenAfter(c) PROVE s \in RebuiltOpen(cells')[c.key]
    <3>1. CASE s \in openSeqs[c.key] /\ s \notin SeqsOf(Over)
      <4>1. PICK d \in cells : d.key = c.key /\ IsOpen(d.system) /\ d.seq = s
        BY <2>2, <3>1 DEF SeqsOf
      <4>2. d \notin Over
        BY <3>1, <4>1 DEF SeqsOf
      <4> QED BY <1>1, <2>3, <4>1, <4>2 DEF SeqsOf
    <3>2. CASE s = rows
      BY <1>1, <1>4, <1>5, <2>3, <3>2 DEF SeqsOf
    <3>3. CASE s \in SeqsOf(Res)
      <4>1. PICK d \in Res : d.seq = s
        BY <3>3 DEF SeqsOf
      <4> QED BY <1>1, <1>4, <1>12, <2>3, <4>1 DEF SeqsOf
    <3> QED BY <2>4, <2>5, <3>1, <3>2, <3>3
  <2>6. ASSUME NEW s \in RebuiltOpen(cells')[c.key] PROVE s \in OpenAfter(c)
    <3>1. PICK d \in cells' : d.key = c.key /\ IsOpen(d.system) /\ d.seq = s
      BY <2>3, <2>6 DEF SeqsOf
    <3>2. CASE d \in cells /\ d \notin Over
      <4>1. d.seq \in openSeqs[c.key]
        BY <2>2, <3>1, <3>2 DEF SeqsOf
      <4>2. d.seq \notin SeqsOf(Over)
        BY <1>3, <1>8, <3>2 DEF SeqsOf, DenseTo, SeqUnique
      <4> QED BY <2>4, <3>1, <4>1, <4>2
    <3>3. CASE d = new
      BY <1>5, <2>4, <3>1, <3>3
    <3>4. CASE d \in Res
      BY <2>4, <3>1, <3>4 DEF SeqsOf
    <3> QED BY <1>10, <1>13, <3>1, <3>2, <3>3, <3>4
  <2> QED BY <2>5, <2>6
<1>20. ASSUME NEW k \in Keys, k # c.key
       PROVE  /\ RebuiltOpen(cells')[k] = RebuiltOpen(cells)[k]
              /\ RebuiltCurrent(cells')[k] = RebuiltCurrent(cells)[k]
  <2> DEFINE S == RebuiltOpen(cells)[k]
  <2>1. {d \in cells' : d.key = k /\ IsOpen(d.system)}
          = {d \in cells : d.key = k /\ IsOpen(d.system)}
    <3>1. \A d \in cells' : d.key = k => d \in cells
      BY <1>5, <1>8, <1>10, <1>12, <1>13, <1>20
    <3>2. \A d \in cells : d.key = k => d \in cells'
      BY <1>1, <1>8, <1>20
    <3> QED BY <3>1, <3>2
  <2>2. RebuiltOpen(cells')[k] = S
    BY <2>1 DEF RebuiltOpen
  <2>3. \A s \in S : \E d \in cells : d.key = k /\ d.seq = s
    BY DEF RebuiltOpen, SeqsOf
  <2> HIDE DEF S
  <2>4. \A d \in cells' : d.seq \in S => d \in cells /\ d.key = k
    <3> SUFFICES ASSUME NEW d \in cells', d.seq \in S PROVE d \in cells /\ d.key = k
      OBVIOUS
    <3>1. PICK b \in cells : b.key = k /\ b.seq = d.seq
      BY <2>3
    <3>2. b \in cells'
      BY <1>1, <1>8, <1>20, <3>1
    <3> QED BY <1>17, <3>1, <3>2 DEF SeqUnique
  <2>5. \A d \in cells : d.seq \in S => d \in cells'
    <3> SUFFICES ASSUME NEW d \in cells, d.seq \in S PROVE d \in cells'
      OBVIOUS
    <3>1. d.key = k
      BY <1>3, <2>3 DEF DenseTo, SeqUnique
    <3> QED BY <1>1, <1>8, <1>20, <3>1
  <2>6. {d \in cells' : d.seq \in S /\ IsOpen(d.valid)}
          = {d \in cells : d.seq \in S /\ IsOpen(d.valid)}
    BY <2>4, <2>5
  <2>7. CurrentIn(cells', S) = CurrentIn(cells, S)
    BY <2>6 DEF CurrentIn
  <2> QED BY <2>2, <2>7 DEF RebuiltCurrent, S
<1>21. openSeqs' = RebuiltOpen(cells')
  <2>1. DOMAIN openSeqs = Keys /\ openSeqs = [k \in Keys |-> openSeqs[k]]
    BY <1>3 DEF RebuiltOpen
  <2>2. openSeqs' = [k \in Keys |-> IF k = c.key THEN OpenAfter(c) ELSE openSeqs[k]]
    BY <1>1, <2>1
  <2>3. \A k \in Keys : openSeqs'[k] = RebuiltOpen(cells')[k]
    BY <1>3, <1>19, <1>20, <2>2
  <2> QED BY <2>2, <2>3 DEF RebuiltOpen
<1>22. current' = RebuiltCurrent(cells')
  <2>1. current = RebuiltCurrent(cells) /\ c.key \in Keys
    BY <1>2, FactFields DEF IInv
  <2>2. current' = [k \in Keys |-> IF k = c.key THEN CurrentIn(cells', OpenAfter(c))
                                                ELSE current[k]]
    BY <1>1, <2>1 DEF RebuiltCurrent
  <2>3. \A k \in Keys : current'[k] = RebuiltCurrent(cells')[k]
    BY <1>19, <1>20, <2>1, <2>2 DEF RebuiltCurrent
  <2> QED BY <2>2, <2>3 DEF RebuiltCurrent
<1>23. rows' \in Nat
  BY <1>1, <1>3, <1>7 DEF n
<1>24. TypeOK'
  <2>1. RebuiltOpen(cells') \in [Keys -> SUBSET Nat]
    BY <1>14, CellFields DEF RebuiltOpen, SeqsOf
  <2>2. RebuiltCurrent(cells') \in [Keys -> Nat \cup {NoSeq}]
    BY <1>18, <1>23, CurrentType DEF RebuiltCurrent
  <2> QED BY <1>1, <1>14, <1>21, <1>22, <1>23, <2>1, <2>2, NextPendingType DEF IInv, TypeOK
<1> QED
  BY <1>1, <1>2, <1>15, <1>16, <1>17, <1>18, <1>21, <1>22, <1>24 DEF IInv, DenseTo

\* The floor read back from a file is an instant a later stamp can reach.
LEMMA ClockFloorType ==
  ASSUME NEW cs \in SUBSET Cells, Stamped(cs)
  PROVE  ClockFloor(cs) \in 0 .. (MaxTime + 1)
<1> DEFINE S == {0} \cup {c.system.start : c \in cs}
                    \cup {c.system.end : c \in {d \in cs : ~IsOpen(d.system)}}
<1>1. MaxTime + 1 \in Nat
  BY TimeAssumption
<1>2. S \in SUBSET (0 .. (MaxTime + 1))
  <2>1. \A c \in cs : c.system.start \in Nat /\ c.system.end \in Nat
    BY CellFields
  <2>2. \A c \in cs : c.system.start <= MaxTime + 1
    BY <2>1, TimeAssumption DEF Stamped
  <2>3. \A c \in cs : ~IsOpen(c.system) => c.system.end <= MaxTime + 1
    BY DEF Stamped
  <2> QED BY <1>1, <2>1, <2>2, <2>3
<1>3. S # {}
  OBVIOUS
<1>4. ClockFloor(cs) = LatestOf(S)
  BY DEF ClockFloor
<1> HIDE DEF S
<1>5. LatestOf(S) \in S
  BY <1>1, <1>2, <1>3, BoundedLatest
<1> QED BY <1>2, <1>4, <1>5

LEMMA InitIInv == Init => IInv
<1> SUFFICES ASSUME Init PROVE IInv
  OBVIOUS
<1>1. DenseTo({}, 0)
  BY DEF DenseTo, SeqsOf, SeqUnique
<1>2. RebuiltOpen({}) = [k \in Keys |-> {}]
  BY DEF RebuiltOpen, SeqsOf
<1>3. RebuiltCurrent({}) = [k \in Keys |-> NoSeq]
  BY DEF RebuiltCurrent, CurrentIn, SeqsOf
<1>4. TypeOK
  <2>1. clock \in 0 .. MaxTime + 1 /\ rows \in Nat
    BY TimeAssumption DEF Init
  <2>2. pending \in Seq(Facts)
    BY DEF Init
  <2>3. cells \subseteq Cells /\ disk \subseteq Cells /\ saving \in BOOLEAN
    BY DEF Init
  <2>4. openSeqs \in [Keys -> SUBSET Nat] /\ current \in [Keys -> Nat \cup {NoSeq}]
    BY DEF Init
  <2> QED BY <2>1, <2>2, <2>3, <2>4 DEF TypeOK
<1> QED BY <1>1, <1>2, <1>3, <1>4 DEF Init, IInv, Stamped, DisjointOpen

\* Opening a directory, or rebuilding, gives well-typed indexes.
LEMMA RebuiltTypes ==
  ASSUME NEW cs \in SUBSET Cells, NEW n \in Nat, DenseTo(cs, n)
  PROVE  /\ RebuiltOpen(cs) \in [Keys -> SUBSET Nat]
         /\ RebuiltCurrent(cs) \in [Keys -> Nat \cup {NoSeq}]
<1>1. RebuiltOpen(cs) \in [Keys -> SUBSET Nat]
  BY CellFields DEF RebuiltOpen, SeqsOf
<1>2. \A S : CurrentIn(cs, S) \in Nat \cup {NoSeq}
  BY CurrentType DEF DenseTo
<1> QED BY <1>1, <1>2 DEF RebuiltCurrent

LEMMA AdmitStep ==
  ASSUME IInv, NEW t \in 0 .. MaxTime, NEW batch \in Seq(Facts), Admit(batch, t)
  PROVE  IInv'
<1>1. /\ clock' = t /\ pending' = batch
      /\ UNCHANGED <<cells, rows, openSeqs, current, saving, disk>>
  BY DEF Admit
<1>2. t \in 0 .. MaxTime + 1 /\ t <= MaxTime
  BY TimeAssumption
<1>3. TypeOK'
  BY <1>1, <1>2 DEF IInv, TypeOK
<1> QED BY <1>1, <1>2, <1>3 DEF IInv

LEMMA ReopenStep ==
  ASSUME IInv, Reopen
  PROVE  IInv'
<1>1. PICK n \in Nat : DenseTo(disk, n)
  BY DEF IInv
<1>2. /\ cells' = disk /\ rows' = Cardinality(disk) /\ disk' = disk
      /\ openSeqs' = RebuiltOpen(disk) /\ current' = RebuiltCurrent(disk)
      /\ clock' = ClockFloor(disk) /\ pending' = <<>> /\ saving' = FALSE
  BY DEF Reopen
<1>3. rows' = n
  BY <1>1, <1>2, DenseCardinality
<1>4. disk \in SUBSET Cells /\ Stamped(disk) /\ DisjointOpen(disk)
  BY DEF IInv, TypeOK
<1>5. clock' \in 0 .. MaxTime + 1
  BY <1>2, <1>4, ClockFloorType
<1>6. TypeOK'
  <2>1. /\ openSeqs' \in [Keys -> SUBSET Nat]
        /\ current' \in [Keys -> Nat \cup {NoSeq}]
    BY <1>1, <1>2, <1>4, RebuiltTypes
  <2>2. pending' \in Seq(Facts)
    BY <1>2
  <2> QED BY <1>2, <1>3, <1>4, <1>5, <2>1, <2>2 DEF TypeOK
<1> QED BY <1>1, <1>2, <1>3, <1>4, <1>6 DEF IInv

\* IInv is inductive: one step per action.
LEMMA NextIInv == IInv /\ [Next]_vars => IInv'
<1> SUFFICES ASSUME IInv, [Next]_vars PROVE IInv'
  OBVIOUS
<1>1. ASSUME NEW batch \in Batches, NEW t \in 0 .. MaxTime, Commit(batch, t) PROVE IInv'
  <2>1. PICK n \in 1 .. MaxBatch : batch \in [1 .. n -> Facts]
    BY DEF Batches
  <2>2. batch \in Seq(Facts)
    BY <2>1, BoundAssumption
  <2> QED BY <1>1, <2>2, AdmitStep DEF Commit
<1>2. ASSUME NEW c \in Facts, NEW t \in 0 .. MaxTime, Act(c, t) PROVE IInv'
  <2>1. <<c>> \in Seq(Facts)
    OBVIOUS
  <2> QED BY <1>2, <2>1, AdmitStep DEF Act
<1>3. CASE ApplyDeadOnArrival
  BY <1>3, DeadOnArrivalStep
<1>4. CASE ApplyWinning
  BY <1>4, WinningStep
<1>5. CASE Save
  BY <1>5 DEF Save, IInv, TypeOK
<1>6. CASE SaveFails
  BY <1>6 DEF SaveFails, IInv, TypeOK
<1>7. CASE RebuildIndexes
  BY <1>7 DEF RebuildIndexes, IInv, TypeOK
<1>8. CASE Reopen
  BY <1>8, ReopenStep
<1>9. CASE UNCHANGED vars
  BY <1>9 DEF vars, IInv, TypeOK
<1> QED BY <1>1, <1>2, <1>3, <1>4, <1>5, <1>6, <1>7, <1>8, <1>9 DEF Next

\* Every step of a shard, also a refused, failed or interrupted one, keeps its
\* rows, numbering and indexes in order (ValueShard.apply, save, load).
THEOREM Invariance == Spec => []IInv
BY InitIInv, NextIInv, PTL DEF Spec

-----------------------------------------------------------------------------
(* The theorems.                                                           *)

\* Every row ever held, in memory or in the file, is a well-formed cell.
THEOREM TypeCorrect == Spec => []TypeOK
<1>1. IInv => TypeOK
  BY DEF IInv
<1> QED BY <1>1, Invariance, PTL

\* The open-cell invariant of the commit path (ValueShard.apply): two
\* system-open rows of a key never overlap, in memory or in the file.
THEOREM OpenCellsStayDisjoint == Spec => []OpenCellsDisjoint
<1>1. IInv => OpenCellsDisjoint
  BY DEF IInv, OpenCellsDisjoint
<1> QED BY <1>1, Invariance, PTL

\* The incrementally maintained indexes equal the rebuilt ones.
THEOREM IndexesStayDerived == Spec => []IndexesAreDerived
<1>1. IInv => IndexesAreDerived
  BY DEF IInv, IndexesAreDerived
<1> QED BY <1>1, Invariance, PTL

\* ValueShard.load never refuses a file that save wrote.
THEOREM SeqStaysDense == Spec => []SeqDense
<1>1. ASSUME IInv PROVE SeqDense
  <2>1. PICK n \in Nat : DenseTo(disk, n)
    BY <1>1 DEF IInv
  <2>2. Cardinality(disk) = n
    BY <2>1, DenseCardinality
  <2>3. rows \in Nat /\ DenseTo(cells, rows)
    BY <1>1 DEF IInv, TypeOK
  <2>4. Cardinality(cells) = rows
    BY <2>3, DenseCardinality
  <2> QED BY <2>1, <2>2, <2>3, <2>4 DEF SeqDense, DenseTo
<1> QED BY <1>1, Invariance, PTL

-----------------------------------------------------------------------------
(* How the rows came about.                                                *)

Clocked(cs, t) ==
  \A c \in cs : c.system.start <= t /\ (IsOpen(c.system) \/ c.system.end <= t + 1)

\* Two rows that say the same of the same fact, since the same instant.
Twin(c, d) ==
  /\ c.key = d.key /\ c.val = d.val /\ c.valid = d.valid
  /\ c.rank = d.rank /\ c.conf = d.conf /\ c.seq = d.seq
  /\ c.system.start = d.system.start

\* The rows `new' are the rows `old', closed and added to at an instant that no
\* row of `old' was written after.
Grown(old, new) ==
  /\ \A d \in old : \E c \in new :
       /\ Twin(c, d)
       /\ \/ c.system = d.system
          \/ IsOpen(d.system) /\ \A e \in old : e.system.start <= c.system.end
  /\ \A c \in new :
       \/ \E d \in old : d.seq = c.seq
       \/ \A e \in old : e.system.start <= c.system.start

\* A human belief of the rows `old' is still a human belief of the rows `new'.
HumanHeld(old, new) ==
  \A k \in Keys, v \in Instants :
    (\E c \in AsOf(old, k, v) : c.rank = 0)
      => AsOf(new, k, v) # {} /\ \A d \in AsOf(new, k, v) : d.rank = 0

HInv == IInv /\ Clocked(cells, clock) /\ Grown(disk, cells) /\ HumanHeld(disk, cells)

-----------------------------------------------------------------------------
(* The survivorship winner.                                                *)

\* A set of naturals has a least element.
LEMMA NatLeast ==
  ASSUME NEW S \in SUBSET Nat, S # {}
  PROVE  \E m \in S : \A s \in S : m <= s
<1>1. IsWellFoundedOn(OpToRel(<, Nat), Nat)
  BY NatLessThanWellFounded
<1>2. PICK m \in S : \A s \in S : ~ (<<s, m>> \in OpToRel(<, Nat))
  BY <1>1, WFMin
<1>3. \A s \in S : ~ (s < m)
  BY <1>2 DEF OpToRel
<1> QED BY <1>3

Wins(w, visible) == \A d \in visible \ {w} : Precedes(w, d)

\* Rows with numbers of their own have a winner: the least rank, the highest
\* confidence, the newest instant and the last row, one after the other.
LEMMA WinnerExists ==
  ASSUME NEW visible \in SUBSET Cells, visible # {}, SeqUnique(visible),
         NEW n \in Nat, \A c \in visible : c.seq <= n
  PROVE  \E w \in visible : Wins(w, visible)
<1>0. \A c \in visible : /\ c.rank \in Nat /\ c.conf \in 0 .. MaxConf
                         /\ c.system.start \in 0 .. FOREVER /\ c.seq \in 0 .. n
  BY CellFields, RankAssumption, ForeverAssumption
<1>1. PICK a \in visible : \A c \in visible : a.rank <= c.rank
  <2> DEFINE S == {c.rank : c \in visible}
  <2>1. S \in SUBSET Nat /\ S # {}
    BY <1>0
  <2>2. PICK m \in S : \A s \in S : m <= s
    BY <2>1, NatLeast
  <2> QED BY <2>2
<1> DEFINE Ranked == {c \in visible : c.rank = a.rank}
<1>2. PICK b \in Ranked : \A c \in Ranked : c.conf <= b.conf
  <2> DEFINE S == {c.conf : c \in Ranked}
  <2>1. S \in SUBSET (0 .. MaxConf) /\ S # {}
    BY <1>0
  <2> HIDE DEF S
  <2>2. LatestOf(S) \in S /\ \A s \in S : s <= LatestOf(S)
    BY <2>1, BoundedLatest, RankAssumption
  <2> QED BY <2>2 DEF S
<1> DEFINE Sure == {c \in Ranked : c.conf = b.conf}
<1>3. PICK e \in Sure : \A c \in Sure : c.system.start <= e.system.start
  <2> DEFINE S == {c.system.start : c \in Sure}
  <2>1. S \in SUBSET (0 .. FOREVER) /\ S # {}
    BY <1>0
  <2> HIDE DEF S
  <2>2. LatestOf(S) \in S /\ \A s \in S : s <= LatestOf(S)
    BY <2>1, BoundedLatest, ForeverAssumption
  <2> QED BY <2>2 DEF S
<1> DEFINE Newest == {c \in Sure : c.system.start = e.system.start}
<1>4. PICK w \in Newest : \A c \in Newest : c.seq <= w.seq
  <2> DEFINE S == {c.seq : c \in Newest}
  <2>1. S \in SUBSET (0 .. n) /\ S # {}
    BY <1>0
  <2> HIDE DEF S
  <2>2. LatestOf(S) \in S /\ \A s \in S : s <= LatestOf(S)
    BY <2>1, BoundedLatest
  <2> QED BY <2>2 DEF S
<1>5. w \in visible /\ w.rank = a.rank /\ w.conf = b.conf /\ w.system.start = e.system.start
  OBVIOUS
<1>6. ASSUME NEW d \in visible \ {w} PROVE Precedes(w, d)
  <2>1. d.seq # w.seq
    BY <1>5, <1>6 DEF SeqUnique
  <2>2. CASE d \notin Ranked
    BY <1>0, <1>1, <1>5, <2>2 DEF Precedes
  <2>3. CASE d \in Ranked /\ d \notin Sure
    BY <1>0, <1>2, <1>5, <2>3 DEF Precedes
  <2>4. CASE d \in Sure /\ d \notin Newest
    BY <1>0, <1>3, <1>5, <2>4 DEF Precedes
  <2>5. CASE d \in Newest
    BY <1>0, <1>4, <1>5, <2>1, <2>5 DEF Precedes
  <2> QED BY <2>2, <2>3, <2>4, <2>5
<1> QED BY <1>5, <1>6 DEF Wins

LEMMA WinnerUnique ==
  ASSUME NEW visible \in SUBSET Cells, NEW a \in visible, NEW b \in visible,
         Wins(a, visible), Wins(b, visible)
  PROVE  a = b
<1> SUFFICES ASSUME a # b PROVE FALSE
  OBVIOUS
<1>1. Precedes(a, b) /\ Precedes(b, a)
  BY DEF Wins
<1>2. /\ a.rank \in Int /\ b.rank \in Int /\ a.conf \in Int /\ b.conf \in Int
      /\ a.system.start \in Int /\ b.system.start \in Int /\ a.seq \in Int /\ b.seq \in Int
  BY CellFields
<1> QED BY <1>1, <1>2 DEF Precedes

LEMMA WinnerIs ==
  ASSUME NEW visible \in SUBSET Cells, NEW w \in visible, Wins(w, visible)
  PROVE  Winner(visible) = w
<1> DEFINE v == Winner(visible)
<1>1. v \in visible /\ Wins(v, visible)
  BY DEF Winner, Wins
<1> HIDE DEF v
<1>2. v = w
  BY <1>1, WinnerUnique
<1> QED BY <1>2 DEF v

\* A read of twins says the same.
LEMMA TwinsSaySame ==
  ASSUME NEW A \in SUBSET Cells, NEW B \in SUBSET Cells, SeqUnique(A), SeqUnique(B),
         NEW n \in Nat, \A c \in A : c.seq <= n,
         \A a \in A : \E b \in B : Twin(b, a),
         \A b \in B : \E a \in A : Twin(b, a)
  PROVE  Said(B) = Said(A)
<1>1. CASE A = {}
  BY <1>1 DEF Said
<1>2. CASE A # {}
  <2>1. PICK w \in A : Wins(w, A)
    BY <1>2, WinnerExists
  <2>2. PICK x \in B : Twin(x, w)
    OBVIOUS
  <2>3. ASSUME NEW d \in B \ {x} PROVE Precedes(x, d)
    <3>1. PICK a \in A : Twin(d, a)
      OBVIOUS
    <3>2. a # w
      BY <2>2, <2>3, <3>1 DEF Twin, SeqUnique
    <3>3. Precedes(w, a)
      BY <2>1, <3>2 DEF Wins
    <3> QED BY <2>2, <3>1, <3>3 DEF Twin, Precedes
  <2>4. Winner(A) = w /\ Winner(B) = x
    BY <2>1, <2>3, WinnerIs DEF Wins
  <2> QED BY <1>2, <2>2, <2>4 DEF Said, Twin
<1> QED BY <1>1, <1>2

-----------------------------------------------------------------------------
(* The rows after a write that wins.                                       *)

\* The overlapped rows are the system-open rows of the key that hold a part of
\* the window; none of them beats the new row.
LEMMA OverlappedRows ==
  ASSUME IInv, NEW c \in Facts
  PROVE  \A o \in cells :
           o \in Overlapping(c) <=> o.key = c.key /\ IsOpen(o.system) /\ Overlaps(o.valid, c.valid)
<1>1. /\ cells \subseteq Cells /\ DenseTo(cells, rows) /\ openSeqs = RebuiltOpen(cells)
  BY DEF IInv, TypeOK
<1>2. c.key \in Keys
  BY FactFields
<1>3. \A o \in cells : o.key = c.key => (o.seq \in openSeqs[c.key] <=> IsOpen(o.system))
  BY <1>1, <1>2 DEF RebuiltOpen, SeqsOf, DenseTo, SeqUnique
<1> QED BY <1>3 DEF Overlapping

\* A residual piece says what the row it comes from said.
LEMMA PieceSays ==
  ASSUME IInv, clock \in 0 .. MaxTime, NEW c \in Facts, NEW d \in Residuals(c)
  PROVE  \E o \in Overlapping(c) :
           /\ PieceOf(d, o, c)
           /\ d.val = o.val /\ d.rank = o.rank /\ d.conf = o.conf
<1>1. /\ rows \in Nat /\ cells \subseteq Cells /\ DenseTo(cells, rows)
  BY DEF IInv, TypeOK
<1>2. CASE \E o \in LeftOf(c) : d = LeftPiece(o, c)
  <2>1. PICK o \in LeftOf(c) : d = LeftPiece(o, c)
    BY <1>2
  <2>2. o \in Overlapping(c) /\ o \in Cells
    BY <1>1 DEF LeftOf, Overlapping
  <2>3. d.val = o.val /\ d.rank = o.rank /\ d.conf = o.conf
    BY <2>1, <2>2 DEF LeftPiece, Row, Cells
  <2> QED BY <1>1, <2>1, <2>2, <2>3, LeftPieces
<1>3. CASE \E o \in RightOf(c) : d = RightPiece(o, c)
  <2>1. PICK o \in RightOf(c) : d = RightPiece(o, c)
    BY <1>3
  <2>2. o \in Overlapping(c) /\ o \in Cells
    BY <1>1 DEF RightOf, Overlapping
  <2>3. d.val = o.val /\ d.rank = o.rank /\ d.conf = o.conf
    BY <2>1, <2>2 DEF RightPiece, Row, Cells
  <2> QED BY <1>1, <2>1, <2>2, <2>3, RightPieces
<1> QED BY <1>2, <1>3 DEF Residuals

\* Whatever a displaced row said outside the window, a piece of it still says.
LEMMA PiecesCover ==
  ASSUME IInv, clock \in 0 .. MaxTime, NEW c \in Facts, NEW o \in Overlapping(c),
         NEW v \in Nat, Contains(o.valid, v), ~Contains(c.valid, v)
  PROVE  \E d \in Residuals(c) :
           /\ d.key = o.key /\ d.val = o.val /\ d.rank = o.rank /\ d.conf = o.conf
           /\ d.system = Since(clock) /\ Contains(d.valid, v)
<1>1. /\ rows \in Nat /\ cells \subseteq Cells /\ DenseTo(cells, rows)
  BY DEF IInv, TypeOK
<1>2. o \in Cells /\ Overlaps(o.valid, c.valid)
  BY <1>1 DEF Overlapping
<1>3. CASE v < c.valid.start
  <2>1. o \in LeftOf(c)
    BY <1>2, <1>3, CellFields, FactFields DEF LeftOf, Contains
  <2>2. /\ LeftPiece(o, c).val = o.val /\ LeftPiece(o, c).rank = o.rank
        /\ LeftPiece(o, c).conf = o.conf /\ LeftPiece(o, c).key = o.key
        /\ LeftPiece(o, c).system = Since(clock)
        /\ LeftPiece(o, c).valid = [start |-> o.valid.start, end |-> c.valid.start]
    BY <1>2 DEF LeftPiece, Row, Cells
  <2>3. Contains(LeftPiece(o, c).valid, v)
    BY <1>3, <2>2 DEF Contains
  <2> QED BY <2>1, <2>2, <2>3 DEF Residuals
<1>4. CASE c.valid.end <= v
  <2>1. o \in RightOf(c)
    BY <1>2, <1>4, CellFields, FactFields DEF RightOf, Contains
  <2>2. /\ RightPiece(o, c).val = o.val /\ RightPiece(o, c).rank = o.rank
        /\ RightPiece(o, c).conf = o.conf /\ RightPiece(o, c).key = o.key
        /\ RightPiece(o, c).system = Since(clock)
        /\ RightPiece(o, c).valid = [start |-> c.valid.end, end |-> o.valid.end]
    BY <1>2 DEF RightPiece, Row, Cells
  <2>3. Contains(RightPiece(o, c).valid, v)
    BY <1>4, <2>2 DEF Contains
  <2> QED BY <2>1, <2>2, <2>3 DEF Residuals
<1> QED BY <1>3, <1>4, FactFields DEF Contains

\* All there is to know of the rows after a winning write.
LEMMA WinningRows ==
  ASSUME IInv, ApplyWinning,
         NEW c, c = Head(pending), NEW new, new = Row(c, rows, Since(clock))
  PROVE  /\ c \in Facts /\ clock \in 0 .. MaxTime /\ clock \in Nat
         /\ cells' = (cells \ Overlapping(c)) \cup Closed(c) \cup {new} \cup Residuals(c)
         /\ new \in Cells /\ new.key = c.key /\ new.val = c.val /\ new.valid = c.valid
         /\ new.rank = c.rank /\ new.conf = c.conf /\ new.seq = rows /\ new.system = Since(clock)
         /\ IsOpen(Since(clock)) /\ Since(clock).start = clock
         /\ Overlapping(c) \subseteq cells
         /\ \A o \in Overlapping(c) :
              /\ IsOpen(o.system) /\ Expired(o) \in Cells /\ Twin(Expired(o), o)
              /\ ~IsOpen(Expired(o).system) /\ Expired(o).system.end >= clock
              /\ Expired(o).system.end <= o.system.start + 1 \/ Expired(o).system.end = clock
<1>1. /\ pending # <<>>
      /\ cells' = (cells \ Overlapping(c)) \cup Closed(c) \cup {new} \cup Residuals(c)
  BY DEF ApplyWinning
<1>2. c \in Facts /\ clock \in 0 .. MaxTime /\ clock \in Nat
  BY <1>1, HeadIsFact
<1>3. Since(clock) \in Intervals /\ IsOpen(Since(clock)) /\ Since(clock).start = clock
  BY <1>2, TimeAssumption, ForeverAssumption DEF Since, Intervals, IsOpen
<1>4. rows \in Nat /\ cells \subseteq Cells
  BY DEF IInv, TypeOK
<1>5. /\ new \in Cells /\ new.key = c.key /\ new.val = c.val /\ new.valid = c.valid
      /\ new.rank = c.rank /\ new.conf = c.conf /\ new.seq = rows /\ new.system = Since(clock)
  BY <1>2, <1>3, <1>4, RowFields
<1>6. Overlapping(c) \subseteq cells
  BY DEF Overlapping
<1>7. ASSUME NEW o \in Overlapping(c)
      PROVE  /\ IsOpen(o.system) /\ Expired(o) \in Cells /\ Twin(Expired(o), o)
             /\ ~IsOpen(Expired(o).system) /\ Expired(o).system.end >= clock
             /\ Expired(o).system.end <= o.system.start + 1 \/ Expired(o).system.end = clock
  <2>1. o \in cells /\ o \in Cells /\ IsOpen(o.system) /\ o.system.start <= MaxTime
    BY <1>2, <1>4, <1>6, OverlappedRows DEF IInv, Stamped
  <2>2. Expired(o).system.end <= o.system.start + 1 \/ Expired(o).system.end = clock
    <3>1. o.system \in [start : Nat, end : Nat]
      BY <2>1, CellFields DEF Intervals
    <3>2. Expired(o).system.end = IF clock > o.system.start + 1 THEN clock ELSE o.system.start + 1
      BY <2>1, <3>1 DEF Expired, Cells
    <3> QED BY <3>1, <3>2
  <2> QED BY <1>2, <2>1, <2>2, ExpiredFields DEF Twin
<1> QED BY <1>1, <1>2, <1>3, <1>5, <1>6, <1>7

-----------------------------------------------------------------------------
(* The abstract view.                                                      *)

FactOf(c) == [val |-> c.val, rank |-> c.rank, conf |-> c.conf]

LEMMA BeliefAt ==
  ASSUME NEW cs, NEW k \in Keys, NEW v \in Instants
  PROVE  BeliefIn(cs)[k][v] = {FactOf(c) : c \in AsOf(cs, k, v)}
BY DEF BeliefIn, FactOf

\* A winning write replaces the belief on its window by what it says, and
\* leaves every other belief as it was.
LEMMA WinningBelief ==
  ASSUME IInv, ApplyWinning, NEW c, c = Head(pending), NEW k \in Keys, NEW v \in Instants
  PROVE  BeliefIn(cells')[k][v] = IF k = c.key /\ Contains(c.valid, v) THEN {FactOf(c)}
                                  ELSE BeliefIn(cells)[k][v]
<1> DEFINE new == Row(c, rows, Since(clock))
           Over == Overlapping(c)
<1> HIDE DEF new
<1>1. /\ c \in Facts /\ clock \in 0 .. MaxTime /\ clock \in Nat
      /\ cells' = (cells \ Over) \cup Closed(c) \cup {new} \cup Residuals(c)
      /\ new \in Cells /\ new.key = c.key /\ new.val = c.val /\ new.valid = c.valid
      /\ new.rank = c.rank /\ new.conf = c.conf /\ new.system = Since(clock)
      /\ IsOpen(Since(clock)) /\ Over \subseteq cells
      /\ \A o \in Over : ~IsOpen(Expired(o).system)
  BY WinningRows DEF new
<1>2. cells \subseteq Cells /\ v \in Nat
  BY DEF IInv, TypeOK, Instants
<1>3. \A o \in cells : o \in Over <=> o.key = c.key /\ IsOpen(o.system) /\ Overlaps(o.valid, c.valid)
  BY <1>1, OverlappedRows
<1>4. \A d \in Residuals(c) : \E o \in Over :
         /\ PieceOf(d, o, c) /\ d.val = o.val /\ d.rank = o.rank /\ d.conf = o.conf
  BY <1>1, PieceSays
<1>5. \A d \in Residuals(c) : d.key = c.key /\ IsOpen(d.system) /\ d \in Cells
                              /\ ~Overlaps(d.valid, c.valid)
  BY <1>1, <1>3, <1>4 DEF PieceOf
<1>6. \A d \in cells' : IsOpen(d.system) => \/ d \in cells /\ d \notin Over
                                            \/ d = new
                                            \/ d \in Residuals(c)
  BY <1>1 DEF Closed
<1> HIDE DEF Over
<1>7. \A d \in Cells : Contains(d.valid, v) /\ Contains(c.valid, v) => Overlaps(d.valid, c.valid)
  BY <1>1, <1>2, CellFields, FactFields DEF Contains, Overlaps
<1>8. CASE k = c.key /\ Contains(c.valid, v)
  <2>1. AsOf(cells', k, v) = {new}
    <3>1. new \in AsOf(cells', k, v)
      BY <1>1, <1>8 DEF AsOf
    <3>2. ASSUME NEW d \in AsOf(cells', k, v) PROVE d = new
      <4>1. d \in cells' /\ d.key = k /\ IsOpen(d.system) /\ Contains(d.valid, v)
        BY DEF AsOf
      <4>2. ~ (d \in cells /\ d \notin Over)
        BY <1>2, <1>3, <1>7, <1>8, <4>1
      <4>3. d \notin Residuals(c)
        BY <1>5, <1>7, <1>8, <4>1
      <4> QED BY <1>6, <4>1, <4>2, <4>3
    <3> QED BY <3>1, <3>2
  <2>2. FactOf(new) = FactOf(c)
    BY <1>1 DEF FactOf
  <2> QED BY <1>8, <2>1, <2>2, BeliefAt
<1>9. CASE ~ (k = c.key /\ Contains(c.valid, v))
  <2>1. ASSUME NEW d \in AsOf(cells', k, v)
        PROVE  \E e \in AsOf(cells, k, v) : FactOf(e) = FactOf(d)
    <3>1. d \in cells' /\ d.key = k /\ IsOpen(d.system) /\ Contains(d.valid, v)
      BY DEF AsOf
    <3>2. CASE d \in cells
      BY <3>1, <3>2 DEF AsOf
    <3>3. CASE d \in Residuals(c)
      <4>1. PICK o \in Over : /\ PieceOf(d, o, c)
                              /\ d.val = o.val /\ d.rank = o.rank /\ d.conf = o.conf
        BY <1>4, <3>3
      <4>2. o \in cells /\ o \in Cells /\ o.key = k /\ IsOpen(o.system)
        BY <1>1, <1>2, <1>3, <3>1, <4>1 DEF PieceOf
      <4>3. Contains(o.valid, v)
        BY <1>2, <3>1, <4>1, <4>2, <1>5, <3>3, CellFields DEF PieceOf, Contains
      <4> QED BY <4>1, <4>2, <4>3 DEF AsOf, FactOf
    <3>4. d # new
      BY <1>1, <1>9, <3>1
    <3> QED BY <1>6, <3>1, <3>2, <3>3, <3>4
  <2>2. ASSUME NEW e \in AsOf(cells, k, v)
        PROVE  \E d \in AsOf(cells', k, v) : FactOf(e) = FactOf(d)
    <3>1. e \in cells /\ e.key = k /\ IsOpen(e.system) /\ Contains(e.valid, v)
      BY DEF AsOf
    <3>2. CASE e \notin Over
      BY <1>1, <3>1, <3>2 DEF AsOf
    <3>3. CASE e \in Over
      <4>1. k = c.key /\ ~Contains(c.valid, v)
        BY <1>3, <1>9, <3>1, <3>3
      <4>2. PICK d \in Residuals(c) :
              /\ d.key = e.key /\ d.val = e.val /\ d.rank = e.rank /\ d.conf = e.conf
              /\ d.system = Since(clock) /\ Contains(d.valid, v)
        BY <1>1, <1>2, <3>1, <3>3, <4>1, PiecesCover DEF Over
      <4> QED BY <1>1, <3>1, <4>2 DEF AsOf, FactOf
    <3> QED BY <3>2, <3>3
  <2> HIDE DEF new
  <2>3. {FactOf(d) : d \in AsOf(cells', k, v)} = {FactOf(e) : e \in AsOf(cells, k, v)}
    BY <2>1, <2>2
  <2> QED BY <1>9, <2>3, BeliefAt, ZenonT(40)
<1> QED BY <1>8, <1>9

-----------------------------------------------------------------------------
(* The shard implements BeliefMap.                                         *)

LEMMA BeliefInit == Init => Belief!Init
<1>1. BeliefIn({}) = Belief!NoBelief
  BY DEF BeliefIn, AsOf, Belief!NoBelief
<1> QED BY <1>1 DEF Init, Belief!Init

\* A winning write is an Assert of the window and the fact of its cell.
LEMMA WinningAsserts ==
  ASSUME IInv, ApplyWinning
  PROVE  Belief!Next
<1> DEFINE c == Head(pending)
           f == FactOf(c)
<1>1. pending # <<>> /\ Losers(c) = {} /\ disk' = disk
  BY DEF ApplyWinning
<1>2. c \in Facts /\ clock \in Nat
  BY <1>1, HeadIsFact
<1>3. c.key \in Keys /\ c.valid \in Windows /\ f \in Belief!Fact
  BY <1>2 DEF Facts, FactOf, Belief!Fact
<1>4. ASSUME NEW p \in Belief!Covered(c.valid), NEW g \in BeliefIn(cells)[c.key][p]
      PROVE  ~Belief!Beats(g, f)
  <2>1. p \in Instants /\ Contains(c.valid, p)
    BY DEF Belief!Covered, Contains
  <2>2. PICK o \in AsOf(cells, c.key, p) : g = FactOf(o)
    BY <1>3, <1>4, <2>1, BeliefAt
  <2>3. o \in cells /\ o.key = c.key /\ IsOpen(o.system) /\ Contains(o.valid, p) /\ o \in Cells
    BY <2>2 DEF AsOf, IInv, TypeOK
  <2>4. Overlaps(o.valid, c.valid)
    BY <1>2, <2>1, <2>3, CellFields, FactFields DEF Contains, Overlaps, Instants
  <2>5. Supersedes(c, clock, o)
    BY <1>1, <1>2, <2>3, <2>4, OverlappedRows DEF Losers
  <2>6. /\ c.rank \in Int /\ o.rank \in Int /\ c.conf \in Int /\ o.conf \in Int
    BY <1>2, <2>3, CellFields, FactFields
  <2>7. g.rank = o.rank /\ g.conf = o.conf /\ f.rank = c.rank /\ f.conf = c.conf
    BY <2>2 DEF FactOf
  <2> HIDE DEF c, f
  <2> QED BY <2>5, <2>6, <2>7 DEF Supersedes, Belief!Beats
<1>5. BeliefIn(cells') =
        [BeliefIn(cells) EXCEPT ![c.key] =
           [p \in Instants |-> IF p \in Belief!Covered(c.valid) THEN {f}
                               ELSE BeliefIn(cells)[c.key][p]]]
  <2> DEFINE now == BeliefIn(cells')
             was == BeliefIn(cells)
             at == [p \in Instants |-> IF p \in Belief!Covered(c.valid) THEN {f} ELSE was[c.key][p]]
  <2>1. /\ now = [k \in Keys |-> now[k]] /\ was = [k \in Keys |-> was[k]]
        /\ \A k \in Keys : /\ now[k] = [v \in Instants |-> now[k][v]]
                           /\ was[k] = [v \in Instants |-> was[k][v]]
    BY DEF BeliefIn
  <2>2. \A k \in Keys, v \in Instants :
          now[k][v] = IF k = c.key /\ Contains(c.valid, v) THEN {f} ELSE was[k][v]
    BY WinningBelief
  <2>3. \A v \in Instants : v \in Belief!Covered(c.valid) <=> Contains(c.valid, v)
    BY DEF Belief!Covered, Contains
  <2> HIDE DEF now, was, f, c
  <2>4. now[c.key] = at
    BY <1>3, <2>1, <2>2, <2>3
  <2>5. \A k \in Keys : k # c.key => now[k] = was[k]
    <3> SUFFICES ASSUME NEW k \in Keys, k # c.key PROVE now[k] = was[k]
      OBVIOUS
    <3>1. \A v \in Instants : now[k][v] = was[k][v]
      BY <2>2
    <3> QED BY <2>1, <3>1
  <2>6. now = [was EXCEPT ![c.key] = at]
    BY <2>1, <2>4, <2>5
  <2> QED BY <2>6 DEF now, was
<1>6. BeliefIn(disk)' = BeliefIn(disk)
  BY <1>1
<1> HIDE DEF c, f
<1>7. Belief!Assert(c.key, c.valid, f)
  BY <1>4, <1>5, <1>6 DEF Belief!Assert
<1> QED BY <1>3, <1>7 DEF Belief!Next

\* A write that loses adds no row that is open in system time.
LEMMA LosingKeepsBelief ==
  ASSUME IInv, ApplyDeadOnArrival
  PROVE  \A k \in Keys, v \in Instants : AsOf(cells', k, v) = AsOf(cells, k, v)
<1>1. PICK new : /\ cells' = cells \cup {new} /\ new.system = [start |-> clock, end |-> clock + 1]
                 /\ pending # <<>>
  BY DEF ApplyDeadOnArrival, Row
<1>2. clock \in 0 .. MaxTime
  BY <1>1, HeadIsFact
<1>3. ~IsOpen(new.system)
  BY <1>1, <1>2, TimeAssumption, ForeverAssumption DEF IsOpen
<1> QED BY <1>1, <1>3 DEF AsOf

\* Every step of the shard is a step of BeliefMap, or changes no belief.
LEMMA BeliefNext ==
  ASSUME IInv, [Next]_vars
  PROVE  [Belief!Next]_<<BeliefIn(cells), BeliefIn(disk)>>
<1> DEFINE Stutters == UNCHANGED <<BeliefIn(cells), BeliefIn(disk)>>
<1>1. ASSUME UNCHANGED <<cells, disk>> PROVE Stutters
  BY <1>1
<1>2. ASSUME NEW batch \in Batches, NEW t \in 0 .. MaxTime, Commit(batch, t) PROVE Stutters
  BY <1>1, <1>2 DEF Commit, Admit
<1>3. ASSUME NEW c \in Facts, NEW t \in 0 .. MaxTime, Act(c, t) PROVE Stutters
  BY <1>1, <1>3 DEF Act, Admit
<1>4. CASE ApplyDeadOnArrival
  <2>1. disk' = disk
    BY <1>4 DEF ApplyDeadOnArrival
  <2>2. BeliefIn(cells') = BeliefIn(cells)
    BY <1>4, LosingKeepsBelief DEF BeliefIn
  <2> QED BY <2>1, <2>2
<1>5. CASE ApplyWinning
  BY <1>5, WinningAsserts
<1>6. CASE Save
  BY <1>6 DEF Save, Belief!Next, Belief!Persist
<1>7. CASE Reopen
  BY <1>7 DEF Reopen, Belief!Next, Belief!Restart
<1>8. CASE SaveFails \/ RebuildIndexes \/ UNCHANGED vars
  BY <1>1, <1>8 DEF SaveFails, RebuildIndexes, vars
<1> QED BY <1>2, <1>3, <1>4, <1>5, <1>6, <1>7, <1>8 DEF Next

\* A shard of bi-temporal rows, residual pieces, indexes and a file is, to
\* whoever asks what is believed, a map that a write overrides on its window
\* where nothing beats it (ValueShard.apply, save, load).
THEOREM ShardImplementsBeliefMap == Spec => ImplementsBeliefMap
<1>1. IInv /\ [Next]_vars => [Belief!Next]_<<BeliefIn(cells), BeliefIn(disk)>>
  BY BeliefNext
<1> QED BY <1>1, BeliefInit, Invariance, PTL DEF Spec, ImplementsBeliefMap, Belief!Spec

-----------------------------------------------------------------------------
(* The invariant about how the rows came about.                            *)

\* The rows just saved are those in memory.
LEMMA SavedIsGrown ==
  ASSUME IInv
  PROVE  /\ Grown(cells, cells) /\ HumanHeld(cells, cells)
         /\ Grown(disk, disk) /\ HumanHeld(disk, disk)
<1>1. ASSUME NEW cs, DisjointOpen(cs), cs \subseteq Cells PROVE HumanHeld(cs, cs)
  <2> SUFFICES ASSUME NEW k \in Keys, NEW v \in Instants,
                      NEW c \in AsOf(cs, k, v), c.rank = 0, NEW d \in AsOf(cs, k, v)
               PROVE  d.rank = 0
    BY DEF HumanHeld
  <2>1. c \in Cells /\ d \in Cells /\ c \in cs /\ d \in cs
    BY <1>1 DEF AsOf
  <2>2. Overlaps(c.valid, d.valid)
    BY <2>1, CellFields DEF AsOf, Contains, Overlaps, Instants
  <2>3. c = d
    BY <1>1, <2>1, <2>2 DEF AsOf, DisjointOpen
  <2> QED BY <2>3
<1>2. ASSUME NEW cs PROVE Grown(cs, cs)
  BY DEF Grown, Twin
<1> QED BY <1>1, <1>2 DEF IInv, TypeOK

\* The clock of a reopened store is no earlier than anything in the file.
LEMMA ClockFloorCovers ==
  ASSUME NEW cs \in SUBSET Cells, Stamped(cs)
  PROVE  Clocked(cs, ClockFloor(cs))
<1> DEFINE S == {0} \cup {c.system.start : c \in cs}
                    \cup {c.system.end : c \in {d \in cs : ~IsOpen(d.system)}}
<1>1. MaxTime + 1 \in Nat
  BY TimeAssumption
<1>2. \A c \in cs : c.system.start \in Nat /\ c.system.end \in Nat
  BY CellFields
<1>3. S \in SUBSET (0 .. (MaxTime + 1))
  <2>1. \A c \in cs : c.system.start <= MaxTime + 1
    BY <1>2, TimeAssumption DEF Stamped
  <2>2. \A c \in cs : ~IsOpen(c.system) => c.system.end <= MaxTime + 1
    BY DEF Stamped
  <2> QED BY <1>1, <1>2, <2>1, <2>2
<1>4. ClockFloor(cs) = LatestOf(S) /\ S # {}
  BY DEF ClockFloor
<1>5. /\ \A c \in cs : c.system.start \in S
      /\ \A c \in cs : ~IsOpen(c.system) => c.system.end \in S
  OBVIOUS
<1> HIDE DEF S
<1>6. ClockFloor(cs) \in Int /\ \A s \in S : s <= ClockFloor(cs)
  <2>1. LatestOf(S) \in S /\ \A s \in S : s <= LatestOf(S)
    BY <1>1, <1>3, <1>4, BoundedLatest
  <2>2. \A s \in S : s \in Int
    BY <1>1, <1>3
  <2> QED BY <1>4, <2>1, <2>2
<1> QED BY <1>2, <1>5, <1>6 DEF Clocked

\* No row of the file is stamped after the clock.
LEMMA FileBeforeClock ==
  ASSUME HInv
  PROVE  \A e \in disk : e.system.start <= clock
BY DEF HInv, Grown, Clocked, Twin

LEMMA DeadOnArrivalHistory ==
  ASSUME HInv, ApplyDeadOnArrival
  PROVE  Clocked(cells', clock') /\ Grown(disk', cells') /\ HumanHeld(disk', cells')
<1>0. IInv
  BY DEF HInv
<1>1. PICK new : /\ cells' = cells \cup {new} /\ new.system = [start |-> clock, end |-> clock + 1]
                 /\ pending # <<>> /\ clock' = clock /\ disk' = disk
  BY DEF ApplyDeadOnArrival, Row
<1>2. clock \in Nat
  BY <1>0, <1>1, HeadIsFact
<1>3. Clocked(cells', clock')
  BY <1>1, <1>2 DEF HInv, Clocked
<1>4. Grown(disk', cells')
  <2>1. \A e \in disk : e.system.start <= new.system.start
    BY <1>1, FileBeforeClock
  <2>2. Grown(disk, cells)
    BY DEF HInv
  <2> QED BY <1>1, <2>1, <2>2 DEF Grown
<1>5. HumanHeld(disk', cells')
  BY <1>0, <1>1, LosingKeepsBelief DEF HInv, HumanHeld
<1> QED BY <1>3, <1>4, <1>5

\* Where people are believed, only a human write wins.
LEMMA WinningHuman ==
  ASSUME HInv, ApplyWinning
  PROVE  HumanHeld(disk', cells')
<1> DEFINE c == Head(pending)
<1>1. IInv /\ disk' = disk /\ pending # <<>> /\ Losers(c) = {}
  BY DEF HInv, ApplyWinning
<1>2. c \in Facts /\ clock \in Nat
  BY <1>1, HeadIsFact
<1> SUFFICES ASSUME NEW k \in Keys, NEW v \in Instants, \E b \in AsOf(disk, k, v) : b.rank = 0
             PROVE  AsOf(cells', k, v) # {} /\ \A d \in AsOf(cells', k, v) : d.rank = 0
  BY <1>1 DEF HumanHeld
<1>3. AsOf(cells, k, v) # {} /\ \A d \in AsOf(cells, k, v) : d.rank = 0
  BY DEF HInv, HumanHeld
<1>4. \A cs : BeliefIn(cs)[k][v] = {FactOf(d) : d \in AsOf(cs, k, v)}
  BY BeliefAt
<1>5. \A d : FactOf(d).rank = d.rank
  BY DEF FactOf
<1>6. BeliefIn(cells')[k][v] = IF k = c.key /\ Contains(c.valid, v) THEN {FactOf(c)}
                               ELSE BeliefIn(cells)[k][v]
  BY <1>1, WinningBelief
<1> HIDE DEF c
<1>7. CASE k = c.key /\ Contains(c.valid, v)
  <2>1. PICK o \in AsOf(cells, k, v) : o.rank = 0
    BY <1>3
  <2>2. o \in cells /\ o \in Cells /\ o.key = k /\ IsOpen(o.system) /\ Contains(o.valid, v)
    BY <1>1, <2>1 DEF AsOf, IInv, TypeOK
  <2>3. Overlaps(o.valid, c.valid)
    BY <1>2, <1>7, <2>2, CellFields, FactFields DEF Contains, Overlaps, Instants
  <2>4. Supersedes(c, clock, o)
    BY <1>1, <1>2, <1>7, <2>2, <2>3, OverlappedRows DEF Losers
  <2>5. c.rank = 0
    BY <1>2, <2>1, <2>4, FactFields DEF Supersedes
  <2> QED BY <1>4, <1>5, <1>6, <1>7, <2>5
<1>8. CASE ~ (k = c.key /\ Contains(c.valid, v))
  <2>1. {FactOf(d) : d \in AsOf(cells', k, v)} = {FactOf(d) : d \in AsOf(cells, k, v)}
    BY <1>4, <1>6, <1>8
  <2> QED BY <1>3, <1>5, <2>1
<1> QED BY <1>7, <1>8

LEMMA WinningHistory ==
  ASSUME HInv, ApplyWinning
  PROVE  Clocked(cells', clock') /\ Grown(disk', cells')
<1> DEFINE c == Head(pending)
           new == Row(c, rows, Since(clock))
           Over == Overlapping(c)
<1>0. IInv /\ clock' = clock /\ disk' = disk
  BY DEF HInv, ApplyWinning
<1> HIDE DEF new
<1>1. /\ c \in Facts /\ clock \in 0 .. MaxTime /\ clock \in Nat
      /\ cells' = (cells \ Over) \cup Closed(c) \cup {new} \cup Residuals(c)
      /\ new.system = Since(clock) /\ IsOpen(Since(clock)) /\ Since(clock).start = clock
      /\ Over \subseteq cells
      /\ \A o \in Over :
           /\ IsOpen(o.system) /\ Expired(o) \in Cells /\ Twin(Expired(o), o)
           /\ ~IsOpen(Expired(o).system) /\ Expired(o).system.end >= clock
           /\ Expired(o).system.end <= o.system.start + 1 \/ Expired(o).system.end = clock
  BY <1>0, WinningRows DEF new
<1>2. \A d \in Residuals(c) : d.system = Since(clock)
  BY <1>0, <1>1, PieceSays DEF PieceOf
<1> HIDE DEF Over, c
<1>3. cells \subseteq Cells /\ disk \subseteq Cells
  BY <1>0 DEF IInv, TypeOK
<1>4. \A d \in cells' : \/ d \in cells /\ d \notin Over
                        \/ \E o \in Over : d = Expired(o)
                        \/ d.system = Since(clock)
  BY <1>1, <1>2 DEF Closed, Over
<1>5. Clocked(cells, clock) /\ Grown(disk, cells)
  BY DEF HInv
<1>6. Clocked(cells', clock')
  <2> SUFFICES ASSUME NEW d \in cells'
               PROVE  d.system.start <= clock /\ (IsOpen(d.system) \/ d.system.end <= clock + 1)
    BY <1>0 DEF Clocked
  <2>1. CASE d \in cells
    BY <1>5, <2>1 DEF Clocked
  <2>2. CASE \E o \in Over : d = Expired(o)
    <3>1. PICK o \in Over : d = Expired(o)
      BY <2>2
    <3>2. o.system.start <= clock /\ o.system.start \in Nat /\ d.system.start = o.system.start
          /\ d.system.end \in Nat
      BY <1>1, <1>3, <1>5, <3>1, CellFields DEF Clocked, Twin
    <3>3. d.system.end <= clock + 1
      BY <1>1, <3>1, <3>2
    <3> QED BY <3>2, <3>3
  <2>3. CASE d.system = Since(clock)
    BY <1>1, <2>3
  <2> QED BY <1>4, <2>1, <2>2, <2>3
<1>7. Grown(disk', cells')
  <2>1. \A e \in disk : e.system.start <= clock /\ e.system.start \in Nat
    BY <1>3, FileBeforeClock, CellFields
  <2>2. ASSUME NEW d \in disk
        PROVE  \E e \in cells' :
                 /\ Twin(e, d)
                 /\ \/ e.system = d.system
                    \/ IsOpen(d.system) /\ \A b \in disk : b.system.start <= e.system.end
    <3>1. PICK e \in cells :
                 /\ Twin(e, d)
                 /\ \/ e.system = d.system
                    \/ IsOpen(d.system) /\ \A b \in disk : b.system.start <= e.system.end
      BY <1>5 DEF Grown
    <3>2. CASE e \notin Over
      BY <1>1, <3>1, <3>2
    <3>3. CASE e \in Over
      <4>1. Expired(e) \in cells'
        BY <1>1, <3>3 DEF Closed, Over
      <4>2. Twin(Expired(e), d)
        BY <1>1, <3>1, <3>3 DEF Twin
      <4>3. IsOpen(d.system)
        BY <1>1, <3>1, <3>3
      <4>4. \A b \in disk : b.system.start <= Expired(e).system.end
        <5>1. Expired(e).system.end \in Nat
          BY <1>1, <3>3, CellFields
        <5> QED BY <1>1, <2>1, <3>3, <5>1
      <4> QED BY <4>1, <4>2, <4>3, <4>4
    <3> QED BY <3>2, <3>3
  <2>3. ASSUME NEW e \in cells'
        PROVE  \/ \E d \in disk : d.seq = e.seq
               \/ \A b \in disk : b.system.start <= e.system.start
    <3>1. CASE e \in cells
      BY <1>5, <3>1 DEF Grown
    <3>2. CASE \E o \in Over : e = Expired(o)
      BY <1>1, <1>5, <3>2 DEF Grown, Twin
    <3>3. CASE e.system = Since(clock)
      BY <1>1, <2>1, <3>3
    <3> QED BY <1>4, <3>1, <3>2, <3>3
  <2> QED BY <1>0, <2>2, <2>3 DEF Grown
<1> QED BY <1>6, <1>7

LEMMA InitHInv == Init => HInv
BY InitIInv DEF Init, HInv, Clocked, Grown, HumanHeld, AsOf

\* HInv is inductive: one step per action.
LEMMA NextHInv == HInv /\ [Next]_vars => HInv'
<1> SUFFICES ASSUME HInv, [Next]_vars PROVE HInv'
  OBVIOUS
<1>1. IInv /\ IInv'
  BY NextIInv DEF HInv
<1>2. clock \in Int /\ cells \subseteq Cells /\ \A c \in cells : c.system.start \in Int /\ c.system.end \in Int
  BY <1>1, CellFields DEF IInv, TypeOK
<1>3. ASSUME NEW batch, NEW t \in 0 .. MaxTime, Admit(batch, t)
      PROVE  HInv'
  <2>1. t >= clock /\ clock' = t /\ UNCHANGED <<cells, disk>> /\ t \in Int
    BY <1>3 DEF Admit
  <2>2. Clocked(cells, t)
    BY <1>2, <2>1 DEF HInv, Clocked
  <2> QED BY <1>1, <2>1, <2>2 DEF HInv
<1>4. ASSUME UNCHANGED <<cells, disk, clock>> PROVE HInv'
  BY <1>1, <1>4 DEF HInv
<1>5. ASSUME NEW batch \in Batches, NEW t \in 0 .. MaxTime, Commit(batch, t) PROVE HInv'
  BY <1>3, <1>5 DEF Commit
<1>6. ASSUME NEW c \in Facts, NEW t \in 0 .. MaxTime, Act(c, t) PROVE HInv'
  BY <1>3, <1>6 DEF Act
<1>7. CASE ApplyDeadOnArrival
  BY <1>1, <1>7, DeadOnArrivalHistory DEF HInv
<1>8. CASE ApplyWinning
  BY <1>1, <1>8, WinningHistory, WinningHuman DEF HInv
<1>9. CASE Save
  BY <1>1, <1>9, SavedIsGrown DEF HInv, Save
<1>10. CASE Reopen
  <2>1. Clocked(disk, ClockFloor(disk))
    BY <1>1, ClockFloorCovers DEF IInv, TypeOK
  <2> QED BY <1>1, <1>10, <2>1, SavedIsGrown DEF HInv, Reopen
<1>11. CASE SaveFails \/ RebuildIndexes \/ UNCHANGED vars
  BY <1>4, <1>11 DEF SaveFails, RebuildIndexes, vars
<1> QED BY <1>5, <1>6, <1>7, <1>8, <1>9, <1>10, <1>11 DEF Next

\* No step rewrites what was written: the file and the memory of a shard differ
\* by what was added and closed since the last save (ValueShard.apply, save).
THEOREM HistoryInvariance == Spec => []HInv
BY InitHInv, NextHInv, PTL DEF Spec

-----------------------------------------------------------------------------
(* The theorems.                                                           *)

\* One instant after the clock the audit of the system's knowledge is its
\* belief: superseded and dead-on-arrival rows are closed by then, and the
\* others are open (ValueShard.apply closes no row later than clock + 1).
THEOREM BeliefIsSettled ==
  ASSUME MaxTime + 2 < FOREVER
  PROVE  Spec => []BeliefSettled
<1>1. ASSUME HInv PROVE BeliefSettled
  <2>1. cells \subseteq Cells /\ clock \in 0 .. MaxTime + 1 /\ clock \in Nat
    BY <1>1, TimeAssumption DEF HInv, IInv, TypeOK
  <2>2. clock + 1 < FOREVER
    BY <2>1, TimeAssumption, ForeverAssumption
  <2>3. \A c \in cells : Contains(c.system, clock + 1) <=> IsOpen(c.system)
    <3> SUFFICES ASSUME NEW c \in cells
                 PROVE  Contains(c.system, clock + 1) <=> IsOpen(c.system)
      OBVIOUS
    <3>1. c.system.start \in Nat /\ c.system.end \in Nat /\ c.system.end <= FOREVER
      BY <2>1, CellFields
    <3>2. c.system.start <= clock /\ (IsOpen(c.system) \/ c.system.end <= clock + 1)
      BY <1>1 DEF HInv, Clocked
    <3> QED BY <2>1, <2>2, <3>1, <3>2, ForeverAssumption DEF Contains, IsOpen
  <2> QED BY <2>3 DEF BeliefSettled, Audit, AsOf
<1> QED BY <1>1, HistoryInvariance, PTL

\* The rows an audit sees of a well-formed shard have numbers of their own.
LEMMA AuditRows ==
  ASSUME NEW cs \in SUBSET Cells, NEW n \in Nat, DenseTo(cs, n),
         NEW k \in Keys, NEW v \in Instants, NEW s \in 0 .. MaxTime
  PROVE  /\ Audit(cs, k, v, s) \in SUBSET Cells /\ SeqUnique(Audit(cs, k, v, s))
         /\ \A c \in Audit(cs, k, v, s) : c.seq <= n
BY DEF Audit, DenseTo, SeqUnique, SeqsOf

\* A winning write closes rows and adds rows at the clock: what an audit of an
\* earlier instant sees has a twin after the write, and nothing is added to it.
LEMMA WinningKeepsPast ==
  ASSUME HInv, ApplyWinning, IInv',
         NEW k \in Keys, NEW v \in Instants, NEW s \in 0 .. MaxTime, s < clock
  PROVE  Said(Audit(cells', k, v, s)) = Said(Audit(cells, k, v, s))
<1> DEFINE c == Head(pending)
           new == Row(c, rows, Since(clock))
           Over == Overlapping(c)
           A == Audit(cells, k, v, s)
           B == Audit(cells', k, v, s)
<1>0. IInv
  BY DEF HInv
<1> HIDE DEF new
<1>1. /\ c \in Facts /\ clock \in 0 .. MaxTime /\ clock \in Nat
      /\ cells' = (cells \ Over) \cup Closed(c) \cup {new} \cup Residuals(c)
      /\ new.system = Since(clock) /\ Since(clock).start = clock
      /\ Over \subseteq cells
      /\ \A o \in Over : /\ IsOpen(o.system) /\ Expired(o) \in Cells /\ Twin(Expired(o), o)
                         /\ Expired(o).system.end >= clock
  BY <1>0, WinningRows DEF new
<1>2. \A d \in Residuals(c) : d.system = Since(clock)
  BY <1>0, <1>1, PieceSays DEF PieceOf
<1>3. \A d \in cells' : \/ d \in cells /\ d \notin Over
                        \/ \E o \in Over : d = Expired(o)
                        \/ d.system = Since(clock)
  BY <1>1, <1>2 DEF Closed
<1>4. \A o \in Over : Expired(o) \in cells'
  BY <1>1 DEF Closed
<1> HIDE DEF Over, c
<1>5. /\ cells \in SUBSET Cells /\ DenseTo(cells, rows) /\ rows \in Nat
      /\ cells' \in SUBSET Cells /\ DenseTo(cells', rows') /\ rows' \in Nat
  BY <1>0 DEF IInv, TypeOK
<1>6. s \in Nat /\ s < FOREVER
  BY TimeAssumption, ForeverAssumption
<1>7. ASSUME NEW a \in A PROVE \E b \in B : Twin(b, a)
  <2>1. a \in cells /\ a \in Cells /\ a.key = k /\ Contains(a.system, s) /\ Contains(a.valid, v)
    BY <1>5 DEF Audit
  <2>2. CASE a \notin Over
    BY <1>1, <2>1, <2>2 DEF Audit, Twin
  <2>3. CASE a \in Over
    <3>1. Expired(a).system.end \in Nat /\ s < Expired(a).system.end
      BY <1>1, <1>6, <2>3, CellFields
    <3>2. Expired(a).key = a.key /\ Expired(a).valid = a.valid
          /\ Expired(a).system.start = a.system.start
      BY <1>1, <2>3 DEF Twin
    <3>3. Contains(Expired(a).system, s)
      BY <2>1, <3>1, <3>2 DEF Contains
    <3>4. Expired(a) \in B
      BY <1>4, <2>1, <2>3, <3>2, <3>3 DEF Audit
    <3> QED BY <1>1, <2>3, <3>4
  <2> QED BY <2>2, <2>3
<1>8. ASSUME NEW b \in B PROVE \E a \in A : Twin(b, a)
  <2>1. b \in cells' /\ b.key = k /\ Contains(b.system, s) /\ Contains(b.valid, v)
    BY DEF Audit
  <2>2. CASE b \in cells
    BY <2>1, <2>2 DEF Audit, Twin
  <2>3. CASE \E o \in Over : b = Expired(o)
    <3>1. PICK o \in Over : b = Expired(o)
      BY <2>3
    <3>2. o \in cells /\ o \in Cells /\ IsOpen(o.system) /\ Twin(b, o)
      BY <1>1, <1>5, <3>1
    <3>3. Contains(o.system, s)
      BY <1>6, <2>1, <3>2, CellFields, ForeverAssumption DEF Contains, IsOpen, Twin
    <3>4. o \in A
      BY <2>1, <3>2, <3>3 DEF Audit, Twin
    <3> QED BY <3>2, <3>4
  <2>4. CASE b.system = Since(clock)
    BY <1>1, <1>6, <2>1, <2>4 DEF Contains
  <2> QED BY <1>3, <2>1, <2>2, <2>3, <2>4
<1>9. /\ A \in SUBSET Cells /\ SeqUnique(A) /\ \A a \in A : a.seq <= rows
      /\ B \in SUBSET Cells /\ SeqUnique(B)
  BY <1>5, AuditRows
<1> HIDE DEF A, B
<1>10. Said(B) = Said(A)
  BY <1>5, <1>7, <1>8, <1>9, TwinsSaySame
<1> QED BY <1>10 DEF A, B

\* No step of a running store changes what it says it knew before its clock.
LEMMA KnownPastStep ==
  ASSUME HInv, IInv', [Next]_vars, ~Reopen,
         NEW k \in Keys, NEW v \in Instants, NEW s \in 0 .. MaxTime, s < clock
  PROVE  Said(Audit(cells', k, v, s)) = Said(Audit(cells, k, v, s))
<1>1. CASE cells' = cells
  BY <1>1
<1>2. CASE ApplyWinning
  BY <1>2, WinningKeepsPast
<1>3. CASE ApplyDeadOnArrival
  <2> DEFINE new == Row(Head(pending), rows, [start |-> clock, end |-> clock + 1])
  <2>1. cells' = cells \cup {new} /\ new.system.start = clock
    BY <1>3 DEF ApplyDeadOnArrival, Row
  <2>2. clock \in Int /\ s \in Int
    BY DEF HInv, IInv, TypeOK
  <2>3. ~Contains(new.system, s)
    BY <2>1, <2>2 DEF Contains
  <2>4. Audit(cells', k, v, s) = Audit(cells, k, v, s)
    BY <2>1, <2>3 DEF Audit
  <2> QED BY <2>4
<1> QED BY <1>1, <1>2, <1>3
      DEF Next, vars, Commit, Act, Admit, Save, SaveFails, RebuildIndexes

\* The file a save replaces, audited before the stamp of its newest row.
LEMMA DurablePastStep ==
  ASSUME HInv, [Next]_vars,
         NEW k \in Keys, NEW v \in Instants, NEW s \in 0 .. MaxTime,
         \E c \in disk : s < c.system.start
  PROVE  Said(Audit(disk', k, v, s)) = Said(Audit(disk, k, v, s))
<1> DEFINE A == Audit(disk, k, v, s)
           B == Audit(cells, k, v, s)
<1>1. CASE disk' = disk
  BY <1>1
<1>2. CASE disk' = cells
  <2>1. PICK e \in disk : s < e.system.start
    OBVIOUS
  <2>2. PICK n \in Nat : DenseTo(disk, n)
    BY DEF HInv, IInv
  <2>3. /\ cells \in SUBSET Cells /\ DenseTo(cells, rows) /\ rows \in Nat /\ disk \in SUBSET Cells
        /\ Grown(disk, cells)
    BY DEF HInv, IInv, TypeOK
  <2>4. s \in Nat /\ s < FOREVER /\ e.system.start \in Nat
    BY <2>3, TimeAssumption, ForeverAssumption, CellFields
  <2>5. \A d \in disk : \E c \in cells :
           /\ Twin(c, d)
           /\ \/ c.system = d.system
              \/ IsOpen(d.system) /\ \A b \in disk : b.system.start <= c.system.end
    BY <2>3 DEF Grown
  <2>6. \A d \in disk, c \in cells :
           /\ Twin(c, d)
           /\ \/ c.system = d.system
              \/ IsOpen(d.system) /\ \A b \in disk : b.system.start <= c.system.end
           => (Contains(c.system, s) <=> Contains(d.system, s))
    <3> SUFFICES ASSUME NEW d \in disk, NEW c \in cells, Twin(c, d), IsOpen(d.system),
                        e.system.start <= c.system.end
                 PROVE  Contains(c.system, s) <=> Contains(d.system, s)
      OBVIOUS
    <3>1. /\ c.system.end \in Nat /\ d.system.end \in Nat /\ c.system.start = d.system.start
      BY <2>3, CellFields DEF Twin
    <3>2. s < c.system.end /\ s < d.system.end
      BY <2>1, <2>4, <3>1, ForeverAssumption DEF IsOpen
    <3> QED BY <3>1, <3>2 DEF Contains
  <2>7. ASSUME NEW a \in A PROVE \E b \in B : Twin(b, a)
    BY <2>5, <2>6 DEF Audit, Twin
  <2>8. ASSUME NEW b \in B PROVE \E a \in A : Twin(b, a)
    <3>1. b \in cells /\ b.key = k /\ Contains(b.system, s) /\ Contains(b.valid, v)
          /\ b.system.start \in Nat
      BY <2>3, CellFields DEF Audit
    <3>2. PICK d \in disk : d.seq = b.seq
      <4>1. ~ (e.system.start <= b.system.start)
        BY <2>1, <2>4, <3>1 DEF Contains
      <4> QED BY <2>3, <3>1, <4>1 DEF Grown
    <3>3. PICK c \in cells :
           /\ Twin(c, d)
           /\ \/ c.system = d.system
              \/ IsOpen(d.system) /\ \A a \in disk : a.system.start <= c.system.end
      BY <2>5
    <3>4. c = b
      BY <2>3, <3>1, <3>2, <3>3 DEF Twin, DenseTo, SeqUnique
    <3>5. d \in A
      BY <2>6, <3>1, <3>3, <3>4 DEF Audit, Twin
    <3> QED BY <3>3, <3>4, <3>5
  <2>9. /\ A \in SUBSET Cells /\ SeqUnique(A) /\ \A a \in A : a.seq <= n
        /\ B \in SUBSET Cells /\ SeqUnique(B)
    BY <2>2, <2>3, AuditRows
  <2> HIDE DEF A, B
  <2>10. Said(B) = Said(A)
    BY <2>2, <2>7, <2>8, <2>9, TwinsSaySame
  <2> QED BY <1>2, <2>10 DEF A, B
<1> QED BY <1>1, <1>2
      DEF Next, vars, Commit, Act, Admit, Save, SaveFails, RebuildIndexes,
          ApplyDeadOnArrival, ApplyWinning, Reopen

\* A saved row keeps everything it said, and is closed at most once.
LEMMA AppendOnlyStep ==
  ASSUME HInv, [Next]_vars, NEW c \in disk
  PROVE  \E d \in disk' :
           /\ d = [c EXCEPT !.system = d.system]
           /\ \/ d.system = c.system
              \/ IsOpen(c.system) /\ d.system.start = c.system.start
<1>0. cells \subseteq Cells /\ disk \subseteq Cells
  BY DEF HInv, IInv, TypeOK
<1>1. CASE disk' = disk
  <2>1. c = [c EXCEPT !.system = c.system]
    BY <1>0 DEF Cells
  <2> QED BY <1>1, <2>1
<1>2. CASE disk' = cells
  <2>1. PICK d \in cells :
           /\ Twin(d, c)
           /\ d.system = c.system \/ IsOpen(c.system)
    BY DEF HInv, Grown
  <2>2. d = [c EXCEPT !.system = d.system]
    BY <1>0, <2>1 DEF Twin, Cells
  <2> QED BY <1>2, <2>1, <2>2 DEF Twin
<1> QED BY <1>1, <1>2
      DEF Next, vars, Commit, Act, Admit, Save, SaveFails, RebuildIndexes,
          ApplyDeadOnArrival, ApplyWinning, Reopen

\* System time is append-only (the store's audit stance): what was known stays
\* known while the store runs and across crashes, and no saved row is dropped,
\* reopened or moved.
THEOREM PastStaysFrozen == Spec => PastFrozen
<1> DEFINE Known == \A k \in Keys, v \in Instants, s \in 0 .. MaxTime :
             s < clock => Said(Audit(cells', k, v, s)) = Said(Audit(cells, k, v, s))
           Durable == \A k \in Keys, v \in Instants, s \in 0 .. MaxTime :
             (\E c \in disk : s < c.system.start)
               => Said(Audit(disk', k, v, s)) = Said(Audit(disk, k, v, s))
           Appended == \A c \in disk : \E d \in disk' :
             /\ d = [c EXCEPT !.system = d.system]
             /\ \/ d.system = c.system
                \/ IsOpen(c.system) /\ d.system.start = c.system.start
<1>1. HInv /\ HInv' /\ [Next]_vars => [Reopen \/ Known]_vars
  BY KnownPastStep DEF HInv
<1>2. HInv /\ [Next]_vars => [Durable]_vars
  BY DurablePastStep
<1>3. HInv /\ [Next]_vars => [Appended]_vars
  BY AppendOnlyStep
<1>4. Spec => KnownPastFrozen
  BY <1>1, HistoryInvariance, PTL DEF Spec, KnownPastFrozen
<1>5. Spec => DurablePastFrozen
  BY <1>2, HistoryInvariance, PTL DEF Spec, DurablePastFrozen
<1>6. Spec => AppendOnly
  BY <1>3, HistoryInvariance, PTL DEF Spec, AppendOnly
<1> QED BY <1>4, <1>5, <1>6 DEF PastFrozen

\* No pipeline commit, failed save or crash puts a pipeline value, or nothing,
\* where a human edit is the saved belief (rank 0 of the survivorship order).
THEOREM HumanEditsAlwaysStand == Spec => HumanEditsStand
<1> DEFINE Stands == \A k \in Keys, v \in Instants :
             (\E c \in AsOf(disk, k, v) : c.rank = 0)
               => /\ AsOf(disk', k, v) # {}
                  /\ \A d \in AsOf(disk', k, v) : d.rank = 0
<1>1. ASSUME HInv, [Next]_vars PROVE Stands
  <2>1. HumanHeld(disk, cells) /\ HumanHeld(disk, disk)
    BY <1>1, SavedIsGrown DEF HInv
  <2>2. disk' = disk \/ disk' = cells
    BY <1>1 DEF Next, vars, Commit, Act, Admit, Save, SaveFails, RebuildIndexes,
                ApplyDeadOnArrival, ApplyWinning, Reopen
  <2> QED BY <2>1, <2>2 DEF HumanHeld
<1>2. HInv /\ [Next]_vars => [Stands]_vars
  BY <1>1
<1> QED BY <1>2, HistoryInvariance, PTL DEF Spec, HumanEditsStand
=============================================================================

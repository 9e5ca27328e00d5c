-------------------------- MODULE HearthLinks_proofs --------------------------
(***************************************************************************)
(* What HearthLinks promises, for every set of shards, nodes and windows:  *)
(* the open lists are those of a rebuild, and so are the adjacency counts, *)
(* but for pairs held from the last instant on; open rows of a pair never  *)
(* overlap, the audited past stays as it was, and a traversal reaches what *)
(* is that many hops away, and nothing else.                               *)
(*                                                                         *)
(* The first three hang together.  The lists must be exact for an          *)
(* application to find every row it has to close; what it closes and what  *)
(* it appends must be counted once for the index to be exact; and rows     *)
(* that are closed must have been open for the past to stay.               *)
(*                                                                         *)
(* For the last, Searched says what each round of the search has seen and  *)
(* what its frontier is.  It satisfies the equation of the recursive       *)
(* function, and a function that does cannot first differ at any round.    *)
(***************************************************************************)
EXTENDS HearthLinks, Subsequences_proofs, WellFoundedInduction

-----------------------------------------------------------------------------
(* The inductive invariant.                                                *)

\* Rows are stamped up to the bound; a row closed at the instant at which it
\* was written ends one instant later.
StampedRows(rs) ==
  \A i \in DOMAIN rs :
    /\ rs[i].system.start <= MaxTime
    /\ IsOpen(rs[i].system) \/ rs[i].system.end <= MaxTime + 1

SoundRows(rs) == rs \in Seq(Rows) /\ StampedRows(rs) /\ DisjointOpen(rs)

\* The count of a pair misses links only where one was held at the end of time.
Counts(p) ==
  /\ adj[p] <= RebuiltAdj(cells)[p]
  /\ adj[p] = RebuiltAdj(cells)[p] \/ HeldAtTheEnd(p)

Derived ==
  /\ \A p \in Edges : Counts(p)
  /\ openBy = [s \in Shards |-> RebuiltOpen(cells[s])]

LInv ==
  /\ TypeOK
  /\ \A s \in Shards : SoundRows(cells[s]) /\ SoundRows(disk[s])
  /\ Derived
  /\ pending # <<>> => clock <= MaxTime

-----------------------------------------------------------------------------
(* The open lists.                                                         *)

OpenAt(rs, p) == {i \in DOMAIN rs : rs[i].pair = p /\ IsOpen(rs[i].system)}

\* A list of positions in the order of appending, each once.
Lists(q, I) == q \in Seq(Nat) /\ Increasing(q) /\ Range(q) = I

\* A rebuilt list has the open rows of the pair, in order.
LEMMA OpenList ==
  ASSUME NEW rs \in Seq(Rows), NEW p \in Edges
  PROVE  Lists(RebuiltOpen(rs)[p], OpenAt(rs, p))
<1> DEFINE q == Positions(rs)
           I == OpenAt(rs, p)
<1>1. DOMAIN rs = 1 .. Len(rs) /\ Len(rs) \in Nat
  OBVIOUS
<1>2. /\ q \in Seq(Nat) /\ DOMAIN q = DOMAIN rs /\ Increasing(q)
      /\ \A i \in DOMAIN rs : q[i] = i
  <2>1. DOMAIN q = DOMAIN rs /\ \A i \in DOMAIN rs : q[i] = i
    BY DEF Positions
  <2>2. q \in Seq(Nat)
    BY <1>1 DEF Positions
  <2> QED BY <2>1, <2>2 DEF Increasing
<1>3. RebuiltOpen(rs)[p] = At(q, {i \in DOMAIN q : rs[q[i]].pair = p /\ IsOpen(rs[q[i]].system)})
  BY DEF RebuiltOpen, Where
<1> HIDE DEF q
<1>4. {i \in DOMAIN q : rs[q[i]].pair = p /\ IsOpen(rs[q[i]].system)} = I
  BY <1>2 DEF OpenAt
<1>5. I \in SUBSET DOMAIN q
  BY <1>2 DEF OpenAt
<1>6. RebuiltOpen(rs)[p] = At(q, I)
  BY <1>3, <1>4
<1> HIDE DEF I
<1>7. At(q, I) \in Seq(Nat) /\ Increasing(At(q, I))
  BY <1>2, <1>5, AtPositions, AtIncreasing
<1>8. /\ At(q, I) \in Seq(Nat)
      /\ \A n \in DOMAIN At(q, I) : Nth(I, n) \in I /\ At(q, I)[n] = q[Nth(I, n)]
      /\ \A i \in I : \E n \in DOMAIN At(q, I) : Nth(I, n) = i
  BY <1>2, <1>5, AtPositions
<1>9. Range(At(q, I)) = I
  <2>1. ASSUME NEW n \in DOMAIN At(q, I) PROVE At(q, I)[n] \in I
    BY <1>2, <1>5, <1>8
  <2>2. ASSUME NEW i \in I PROVE \E n \in DOMAIN At(q, I) : At(q, I)[n] = i
    BY <1>2, <1>5, <1>8
  <2> QED BY <2>1, <2>2 DEF Range
<1> QED BY <1>6, <1>7, <1>9 DEF Lists, I

\* There is one list of a set of positions.
LEMMA OneList ==
  ASSUME NEW q, NEW r, NEW I, Lists(q, I), Lists(r, I)
  PROVE  q = r
<1>1. {q[n] : n \in DOMAIN q} = {r[n] : n \in DOMAIN r}
  BY DEF Lists, Range
<1> QED BY <1>1, SameElements DEF Lists

\* Picking positions from a list.
LEMMA ListWhere ==
  ASSUME NEW q, NEW I, NEW J \in SUBSET I, Lists(q, I)
  PROVE  Lists(At(q, {n \in DOMAIN q : q[n] \in J}), J)
<1> DEFINE K == {n \in DOMAIN q : q[n] \in J}
           r == At(q, K)
<1>1. q \in Seq(Nat) /\ Increasing(q) /\ Range(q) = I /\ K \in SUBSET DOMAIN q
  BY DEF Lists
<1>2. \A n \in DOMAIN q : n \in K <=> q[n] \in J
  OBVIOUS
<1> HIDE DEF K
<1>3. r \in Seq(Nat) /\ Increasing(r)
  BY <1>1, AtPositions, AtIncreasing
<1>4. /\ r \in Seq(Nat)
      /\ \A n \in DOMAIN r : Nth(K, n) \in K /\ r[n] = q[Nth(K, n)]
      /\ \A k \in K : \E n \in DOMAIN r : Nth(K, n) = k
  BY <1>1, AtPositions, SMTT(20)
<1> HIDE DEF r
<1>5. ASSUME NEW n \in DOMAIN r PROVE r[n] \in J
  BY <1>1, <1>2, <1>4
<1>6. ASSUME NEW i \in J PROVE \E n \in DOMAIN r : r[n] = i
  <2>1. PICK k \in DOMAIN q : q[k] = i
    BY <1>1 DEF Range
  <2>2. k \in K
    BY <1>2, <2>1
  <2> QED BY <1>4, <2>1, <2>2
<1>7. Range(r) = J
  BY <1>5, <1>6 DEF Range
<1> QED BY <1>3, <1>7 DEF Lists, r, K

\* Taking positions out of a list.
LEMMA ListWithout ==
  ASSUME NEW q, NEW I, NEW H, Lists(q, I)
  PROVE  Lists(Where(q, LAMBDA i : i \notin H), I \ H)
<1>1. \A n \in DOMAIN q : q[n] \in I
  BY DEF Lists, Range
<1>2. {n \in DOMAIN q : q[n] \notin H} = {n \in DOMAIN q : q[n] \in I \ H}
  BY <1>1
<1>3. Where(q, LAMBDA i : i \notin H) = At(q, {n \in DOMAIN q : q[n] \in I \ H})
  BY <1>2 DEF Where
<1> QED BY <1>3, ListWhere

\* Appending the positions of new rows to a list.
LEMMA ListAppended ==
  ASSUME NEW q, NEW I, NEW l \in Nat, NEW m \in Nat, Lists(q, I), I \subseteq 1 .. l
  PROVE  Lists(q \o [n \in 1 .. m |-> l + n], I \cup (l + 1) .. (l + m))
<1> DEFINE r == [n \in 1 .. m |-> l + n]
           t == q \o r
           k == Len(q)
<1>1. q \in Seq(Nat) /\ Increasing(q) /\ Range(q) = I /\ k \in Nat /\ DOMAIN q = 1 .. k
  BY DEF Lists
<1>2. r \in Seq(Nat) /\ Len(r) = m /\ \A n \in 1 .. m : r[n] = l + n
  OBVIOUS
<1> HIDE DEF r
<1>3. t \in Seq(Nat) /\ Len(t) = k + m /\ DOMAIN t = 1 .. (k + m)
  <2>0. q \in Seq(Nat) /\ r \in Seq(Nat)
    BY <1>1, <1>2
  <2>1. t \in Seq(Nat) /\ Len(t) = Len(q) + Len(r)
    BY <2>0
  <2>2. Len(t) = k + m
    BY <1>2, <2>1
  <2> HIDE DEF t, k
  <2> QED BY <2>1, <2>2
<1>4. \A n \in 1 .. (k + m) : t[n] = IF n <= k THEN q[n] ELSE l + (n - k)
  <2> SUFFICES ASSUME NEW n \in 1 .. (k + m)
               PROVE  t[n] = IF n <= k THEN q[n] ELSE l + (n - k)
    OBVIOUS
  <2>1. t[n] = IF n <= k THEN q[n] ELSE r[n - k]
    BY <1>1, <1>2
  <2>2. ~(n <= k) => n - k \in 1 .. m
    BY <1>1
  <2> HIDE DEF t, k
  <2> QED BY <1>1, <1>2, <2>1, <2>2
<1> HIDE DEF t, k
<1>5. \A n \in 1 .. k : q[n] \in 1 .. l
  BY <1>1 DEF Range
<1>6. Increasing(t)
  <2> SUFFICES ASSUME NEW a \in 1 .. (k + m), NEW b \in 1 .. (k + m), a < b PROVE t[a] < t[b]
    BY <1>3 DEF Increasing
  <2>1. CASE b <= k
    BY <1>1, <1>4, <2>1 DEF Increasing
  <2>2. CASE a <= k /\ ~(b <= k)
    <3>1. a \in 1 .. k
      BY <1>1, <2>2
    <3>2. t[a] \in 1 .. l
      BY <1>4, <1>5, <2>2, <3>1
    <3>3. t[b] = l + (b - k) /\ b - k >= 1
      BY <1>1, <1>4, <2>2
    <3> QED BY <3>2, <3>3, <1>1
  <2>3. CASE ~(a <= k)
    <3>1. t[a] = l + (a - k) /\ t[b] = l + (b - k)
      BY <1>1, <1>4, <2>3
    <3> QED BY <3>1, <1>1
  <2> QED BY <2>1, <2>2, <2>3, <1>1
<1>7. Range(t) = I \cup (l + 1) .. (l + m)
  <2>1. ASSUME NEW n \in DOMAIN t PROVE t[n] \in I \cup (l + 1) .. (l + m)
    <3>1. CASE n <= k
      <4>1. n \in DOMAIN q /\ t[n] = q[n]
        BY <1>1, <1>3, <1>4, <3>1
      <4> QED BY <4>1, <1>1 DEF Range
    <3>2. CASE ~(n <= k)
      BY <1>1, <1>3, <1>4, <3>2
    <3> QED BY <3>1, <3>2
  <2>2. ASSUME NEW i \in I PROVE \E n \in DOMAIN t : t[n] = i
    <3>1. PICK n \in 1 .. k : q[n] = i
      BY <1>1 DEF Range
    <3>2. n \in DOMAIN t /\ n <= k /\ n \in 1 .. (k + m)
      BY <1>1, <1>3
    <3> QED BY <1>4, <3>1, <3>2
  <2>3. ASSUME NEW i \in (l + 1) .. (l + m) PROVE \E n \in DOMAIN t : t[n] = i
    <3>1. (i - l) + k \in 1 .. (k + m) /\ ~((i - l) + k <= k) /\ l + (((i - l) + k) - k) = i
      BY <1>1
    <3> QED BY <1>3, <1>4, <3>1
  <2> QED BY <2>1, <2>2, <2>3 DEF Range
<1> QED BY <1>3, <1>6, <1>7 DEF Lists, t, r

-----------------------------------------------------------------------------
(* Closing rows and appending others.                                      *)

\* The fields of a row.
LEMMA RowFields ==
  /\ \A r \in Rows : /\ r.pair \in Edges /\ r.valid \in Intervals /\ r.system \in Intervals
                     /\ r = [pair |-> r.pair, valid |-> r.valid, system |-> r.system]
  /\ \A i \in Intervals : /\ i.start \in Nat /\ i.end \in Nat /\ i.start < i.end /\ i.end <= FOREVER
                          /\ i = [start |-> i.start, end |-> i.end]
BY DEF Rows, Intervals

\* A closed row differs in the end of its system time alone, which lies after
\* its start and not before the instant at which it is closed.
LEMMA ExpiredRow ==
  ASSUME NEW r \in Rows, r.system.start <= MaxTime, clock' \in 0 .. MaxTime
  PROVE  /\ Expired(r) \in Rows
         /\ Expired(r).pair = r.pair /\ Expired(r).valid = r.valid
         /\ Expired(r).system.start = r.system.start
         /\ ~IsOpen(Expired(r).system)
         /\ Expired(r).system.end <= MaxTime + 1
         /\ Expired(r).system.end >= clock'
<1> DEFINE e == IF clock' > r.system.start + 1 THEN clock' ELSE r.system.start + 1
<1>1. /\ r.pair \in Edges /\ r.valid \in Intervals /\ r.system \in Intervals
      /\ r = [pair |-> r.pair, valid |-> r.valid, system |-> r.system]
      /\ r.system = [start |-> r.system.start, end |-> r.system.end]
      /\ r.system.start \in Nat
  BY RowFields
<1>2. /\ e \in Nat /\ r.system.start < e /\ e <= MaxTime + 1 /\ e >= clock'
      /\ MaxTime + 1 < FOREVER /\ FOREVER \in Nat /\ MaxTime \in Nat
  BY <1>1, TimeAssumption, ForeverAssumption
<1>3. Expired(r) = [r EXCEPT !.system.end = e]
  BY DEF Expired
<1> HIDE DEF e
<1>4. Expired(r) = [pair |-> r.pair, valid |-> r.valid,
                    system |-> [start |-> r.system.start, end |-> e]]
  BY <1>1, <1>3
<1>5. [start |-> r.system.start, end |-> e] \in Intervals
  BY <1>1, <1>2 DEF Intervals
<1>6. Expired(r) \in Rows
  BY <1>1, <1>4, <1>5 DEF Rows
<1> QED BY <1>1, <1>2, <1>4, <1>6 DEF IsOpen

\* The rows of a shard after those at H were closed and new ones appended.
Rewritten(rs, H, new) ==
  [i \in DOMAIN rs |-> IF i \in H THEN Expired(rs[i]) ELSE rs[i]] \o new

\* The new rows all say something of one pair, from the stamp on.
FreshRows(new, p) ==
  new \in Seq(Rows) /\ \A n \in DOMAIN new : new[n].pair = p /\ new[n].system = Since(clock')

LEMMA RewrittenRows ==
  ASSUME NEW rs \in Seq(Rows), StampedRows(rs), NEW H, NEW new \in Seq(Rows),
         clock' \in 0 .. MaxTime
  PROVE  LET after == Rewritten(rs, H, new)
             l == Len(rs)
         IN  /\ after \in Seq(Rows) /\ Len(after) = l + Len(new)
             /\ DOMAIN after = 1 .. (l + Len(new))
             /\ \A i \in DOMAIN rs : after[i] = IF i \in H THEN Expired(rs[i]) ELSE rs[i]
             /\ \A n \in DOMAIN new : l + n \in DOMAIN after /\ after[l + n] = new[n]
             /\ \A i \in DOMAIN after : i \in DOMAIN rs \/ \E n \in DOMAIN new : i = l + n
<1> DEFINE old == [i \in DOMAIN rs |-> IF i \in H THEN Expired(rs[i]) ELSE rs[i]]
           after == Rewritten(rs, H, new)
           l == Len(rs)
           m == Len(new)
<1>1. l \in Nat /\ m \in Nat /\ DOMAIN rs = 1 .. l /\ DOMAIN new = 1 .. m
  OBVIOUS
<1>2. \A i \in DOMAIN rs : rs[i] \in Rows /\ (IF i \in H THEN Expired(rs[i]) ELSE rs[i]) \in Rows
  <2> SUFFICES ASSUME NEW i \in DOMAIN rs PROVE rs[i] \in Rows /\ Expired(rs[i]) \in Rows
    OBVIOUS
  <2>1. rs[i] \in Rows /\ rs[i].system.start <= MaxTime
    BY DEF StampedRows
  <2> QED BY <2>1, ExpiredRow
<1>3. old \in [1 .. l -> Rows] /\ \A i \in 1 .. l : old[i] = IF i \in H THEN Expired(rs[i]) ELSE rs[i]
  BY <1>1, <1>2
<1>4. after = old \o new
  BY DEF Rewritten
<1> HIDE DEF old, after, l, m
<1>5. old \in Seq(Rows) /\ Len(old) = l /\ DOMAIN old = 1 .. l
  BY <1>1, <1>3
<1>6. after \in Seq(Rows) /\ Len(after) = Len(old) + Len(new)
  BY <1>4, <1>5
<1>7. Len(after) = l + m /\ DOMAIN after = 1 .. (l + m)
  BY <1>1, <1>5, <1>6 DEF m
<1>8. \A i \in 1 .. l : after[i] = old[i]
  BY <1>1, <1>4, <1>5
<1>9. \A n \in 1 .. m : l + n \in 1 .. (l + m) /\ after[l + n] = new[n]
  <2> SUFFICES ASSUME NEW n \in 1 .. m
               PROVE  l + n \in 1 .. (l + m) /\ after[l + n] = new[n]
    OBVIOUS
  <2>1. l + n \in 1 .. (l + m) /\ ~(l + n <= l) /\ (l + n) - l = n
    BY <1>1
  <2> DEFINE i == l + n
  <2>2. i \in 1 .. (Len(old) + Len(new)) /\ ~(i <= Len(old)) /\ i - Len(old) = n
    BY <1>5, <2>1 DEF m
  <2> HIDE DEF i
  <2>3. (old \o new)[i] = new[i - Len(old)]
    BY <1>5, <2>2
  <2>4. after[i] = new[n]
    BY <1>4, <2>2, <2>3
  <2> QED BY <2>1, <2>4 DEF i
<1>10. \A i \in 1 .. (l + m) : i \in 1 .. l \/ (i - l \in 1 .. m /\ i = l + (i - l))
  BY <1>1
<1> QED BY <1>1, <1>3, <1>6, <1>7, <1>8, <1>9, <1>10 DEF after, l, m

\* Which rows are open afterwards.
LEMMA RewrittenOpen ==
  ASSUME NEW rs \in Seq(Rows), StampedRows(rs), clock' \in 0 .. MaxTime,
         NEW p \in Edges, NEW H \in SUBSET OpenAt(rs, p), NEW new, FreshRows(new, p)
  PROVE  LET after == Rewritten(rs, H, new)
             l == Len(rs)
         IN  /\ OpenAt(after, p) = (OpenAt(rs, p) \ H) \cup (l + 1) .. (l + Len(new))
             /\ \A q \in Edges \ {p} : OpenAt(after, q) = OpenAt(rs, q)
<1> DEFINE after == Rewritten(rs, H, new)
           l == Len(rs)
           m == Len(new)
<1>1. l \in Nat /\ m \in Nat /\ DOMAIN rs = 1 .. l /\ DOMAIN new = 1 .. m /\ new \in Seq(Rows)
  BY DEF FreshRows
<1>2. /\ after \in Seq(Rows) /\ DOMAIN after = 1 .. (l + m)
      /\ \A i \in 1 .. l : after[i] = IF i \in H THEN Expired(rs[i]) ELSE rs[i]
      /\ \A n \in 1 .. m : after[l + n] = new[n]
  BY <1>1, RewrittenRows, SMTT(20)
<1>3. \A i \in H : i \in 1 .. l /\ rs[i].pair = p
  BY <1>1 DEF OpenAt
<1>4. \A i \in 1 .. l : rs[i] \in Rows /\ rs[i].system.start <= MaxTime
  BY <1>1 DEF StampedRows
<1>5. \A i \in H : after[i].pair = p /\ ~IsOpen(after[i].system)
  BY <1>2, <1>3, <1>4, ExpiredRow
<1>6. \A i \in (l + 1) .. (l + m) : after[i].pair = p /\ IsOpen(after[i].system)
  <2> SUFFICES ASSUME NEW i \in (l + 1) .. (l + m)
               PROVE  after[i].pair = p /\ IsOpen(after[i].system)
    OBVIOUS
  <2>1. i - l \in 1 .. m /\ l + (i - l) = i
    BY <1>1
  <2>2. after[i] = new[i - l]
    BY <1>2, <2>1
  <2>3. new[i - l].pair = p /\ new[i - l].system = Since(clock')
    BY <1>1, <2>1 DEF FreshRows
  <2> QED BY <2>2, <2>3, ForeverAssumption DEF Since, IsOpen
<1> HIDE DEF after, l, m
<1>7. \A i \in 1 .. (l + m) : i \in 1 .. l \/ i \in (l + 1) .. (l + m)
  BY <1>1
<1>8. \A i \in 1 .. l : i \in 1 .. (l + m) /\ i \notin (l + 1) .. (l + m)
  BY <1>1
<1>9. \A i \in (l + 1) .. (l + m) : i \in 1 .. (l + m) /\ i \notin 1 .. l
  BY <1>1
<1>10. OpenAt(after, p) = (OpenAt(rs, p) \ H) \cup (l + 1) .. (l + m)
  <2>1. ASSUME NEW i \in OpenAt(after, p) PROVE i \in (OpenAt(rs, p) \ H) \cup (l + 1) .. (l + m)
    BY <1>1, <1>2, <1>5, <1>7, <2>1 DEF OpenAt
  <2>2. ASSUME NEW i \in OpenAt(rs, p), i \notin H PROVE i \in OpenAt(after, p)
    BY <1>1, <1>2, <1>8, <2>2 DEF OpenAt
  <2>3. ASSUME NEW i \in (l + 1) .. (l + m) PROVE i \in OpenAt(after, p)
    BY <1>2, <1>6, <1>9 DEF OpenAt
  <2> QED BY <2>1, <2>2, <2>3
<1>11. ASSUME NEW q \in Edges, q # p PROVE OpenAt(after, q) = OpenAt(rs, q)
  <2>1. ASSUME NEW i \in OpenAt(after, q) PROVE i \in OpenAt(rs, q)
    BY <1>1, <1>2, <1>5, <1>6, <1>7, <1>11, <2>1 DEF OpenAt
  <2>2. ASSUME NEW i \in OpenAt(rs, q) PROVE i \in OpenAt(after, q)
    BY <1>1, <1>2, <1>3, <1>8, <1>11, <2>2 DEF OpenAt
  <2> QED BY <2>1, <2>2
<1> QED BY <1>10, <1>11 DEF after, l, m

\* The new rows overlap neither each other nor an open row that stays.
FitsIn(rs, p, H, new) ==
  /\ \A i \in OpenAt(rs, p) \ H, n \in DOMAIN new : ~Overlaps(rs[i].valid, new[n].valid)
  /\ \A m, n \in DOMAIN new : m # n => ~Overlaps(new[m].valid, new[n].valid)

LEMMA RewrittenSound ==
  ASSUME NEW rs, SoundRows(rs), clock' \in 0 .. MaxTime,
         NEW p \in Edges, NEW H \in SUBSET OpenAt(rs, p), NEW new, FreshRows(new, p),
         FitsIn(rs, p, H, new)
  PROVE  SoundRows(Rewritten(rs, H, new))
<1> DEFINE after == Rewritten(rs, H, new)
           l == Len(rs)
           m == Len(new)
<1>1. /\ l \in Nat /\ m \in Nat /\ DOMAIN rs = 1 .. l /\ DOMAIN new = 1 .. m
      /\ new \in Seq(Rows) /\ rs \in Seq(Rows) /\ StampedRows(rs) /\ DisjointOpen(rs)
  BY DEF FreshRows, SoundRows
<1>2. /\ after \in Seq(Rows) /\ DOMAIN after = 1 .. (l + m)
      /\ \A i \in 1 .. l : after[i] = IF i \in H THEN Expired(rs[i]) ELSE rs[i]
      /\ \A n \in 1 .. m : after[l + n] = new[n]
      /\ \A i \in 1 .. (l + m) : i \in 1 .. l \/ \E n \in 1 .. m : i = l + n
  <2>1. /\ after \in Seq(Rows) /\ Len(after) = l + Len(new)
        /\ DOMAIN after = 1 .. (l + Len(new))
        /\ \A i \in DOMAIN rs : after[i] = IF i \in H THEN Expired(rs[i]) ELSE rs[i]
        /\ \A n \in DOMAIN new : l + n \in DOMAIN after /\ after[l + n] = new[n]
        /\ \A i \in DOMAIN after : i \in DOMAIN rs \/ \E n \in DOMAIN new : i = l + n
    BY <1>1, RewrittenRows
  <2> HIDE DEF after
  <2> QED BY <1>1, <2>1
<1>3. \A i \in H : i \in 1 .. l /\ rs[i].pair = p
  BY <1>1 DEF OpenAt
<1>4. \A i \in 1 .. l : rs[i] \in Rows /\ rs[i].system.start <= MaxTime
  BY <1>1 DEF StampedRows
<1>5. \A i \in H : /\ after[i].pair = p /\ ~IsOpen(after[i].system)
                   /\ after[i].system.start <= MaxTime /\ after[i].system.end <= MaxTime + 1
  <2> SUFFICES ASSUME NEW i \in H
               PROVE  /\ after[i].pair = p /\ ~IsOpen(after[i].system)
                      /\ after[i].system.start <= MaxTime /\ after[i].system.end <= MaxTime + 1
    OBVIOUS
  <2>1. after[i] = Expired(rs[i]) /\ rs[i] \in Rows /\ rs[i].system.start <= MaxTime
    BY <1>2, <1>3, <1>4
  <2>2. rs[i].pair = p
    BY <1>3
  <2> HIDE DEF after
  <2> QED BY <2>1, <2>2, ExpiredRow
<1>6. \A n \in 1 .. m : /\ after[l + n].pair = p /\ IsOpen(after[l + n].system)
                        /\ after[l + n].system.start <= MaxTime
                        /\ after[l + n].valid = new[n].valid
  <2> SUFFICES ASSUME NEW n \in 1 .. m
               PROVE  /\ after[l + n].pair = p /\ IsOpen(after[l + n].system)
                      /\ after[l + n].system.start <= MaxTime
                      /\ after[l + n].valid = new[n].valid
    OBVIOUS
  <2>1. new[n].pair = p /\ new[n].system = Since(clock') /\ after[l + n] = new[n]
    BY <1>1, <1>2 DEF FreshRows
  <2>2. new[n].system.start = clock' /\ IsOpen(new[n].system) /\ clock' <= MaxTime
    BY <2>1, ForeverAssumption, TimeAssumption DEF Since, IsOpen
  <2> HIDE DEF after, m, l
  <2> QED BY <2>1, <2>2
<1>7. /\ \A i \in (1 .. l) \ H, n \in 1 .. m :
            rs[i].pair = p /\ IsOpen(rs[i].system) => ~Overlaps(rs[i].valid, new[n].valid)
      /\ \A k, n \in 1 .. m : k # n => ~Overlaps(new[k].valid, new[n].valid)
      /\ \A i, j \in 1 .. l :
            i # j /\ rs[i].pair = rs[j].pair /\ IsOpen(rs[i].system) /\ IsOpen(rs[j].system)
              => ~Overlaps(rs[i].valid, rs[j].valid)
  BY <1>1 DEF FitsIn, OpenAt, DisjointOpen
<1> HIDE DEF after, m, l
<1>8. StampedRows(after)
  <2> SUFFICES ASSUME NEW i \in 1 .. (l + m)
               PROVE  /\ after[i].system.start <= MaxTime
                      /\ IsOpen(after[i].system) \/ after[i].system.end <= MaxTime + 1
    BY <1>2 DEF StampedRows
  <2>1. CASE i \in H
    BY <1>5, <2>1
  <2>2. CASE i \in (1 .. l) \ H
    <3>1. after[i] = rs[i]
      BY <1>2, <2>2
    <3> QED BY <1>1, <2>2, <3>1 DEF StampedRows
  <2>3. CASE \E n \in 1 .. m : i = l + n
    BY <1>6, <2>3
  <2> QED BY <1>2, <2>1, <2>2, <2>3
<1>9. DisjointOpen(after)
  <2> SUFFICES ASSUME NEW i \in 1 .. (l + m), NEW j \in 1 .. (l + m), i # j,
                      after[i].pair = after[j].pair,
                      IsOpen(after[i].system), IsOpen(after[j].system)
               PROVE  ~Overlaps(after[i].valid, after[j].valid)
    BY <1>2 DEF DisjointOpen
  <2>1. i \notin H /\ j \notin H
    BY <1>5
  <2>2. /\ i \in (1 .. l) \ H => after[i] = rs[i]
        /\ j \in (1 .. l) \ H => after[j] = rs[j]
    BY <1>2
  <2>3. CASE i \in (1 .. l) \ H /\ j \in (1 .. l) \ H
    BY <1>7, <2>2, <2>3
  <2>4. CASE i \in (1 .. l) \ H /\ \E n \in 1 .. m : j = l + n
    BY <1>6, <1>7, <2>2, <2>4
  <2>5. CASE j \in (1 .. l) \ H /\ \E n \in 1 .. m : i = l + n
    <3>1. PICK n \in 1 .. m : i = l + n
      BY <2>5
    <3>2. ~Overlaps(rs[j].valid, new[n].valid)
      BY <1>6, <1>7, <2>2, <2>5, <3>1
    <3>3. after[i].valid = new[n].valid /\ after[j].valid = rs[j].valid
      BY <1>6, <2>2, <2>5, <3>1
    <3> QED BY <3>2, <3>3 DEF Overlaps
  <2>6. CASE (\E n \in 1 .. m : i = l + n) /\ \E n \in 1 .. m : j = l + n
    BY <1>6, <1>7, <2>6
  <2> QED BY <1>2, <2>1, <2>3, <2>4, <2>5, <2>6
<1> QED BY <1>2, <1>8, <1>9 DEF SoundRows, after

\* A row that an audit counts for a pair.
Seen(r, q, at, v) == r.pair = q /\ Contains(r.system, at) /\ Contains(r.valid, v)

\* An audit of an instant before the stamp sees the same rows: a row that is
\* closed was open, and stays visible until the stamp.
LEMMA RewrittenPast ==
  ASSUME NEW rs \in Seq(Rows), StampedRows(rs), clock' \in 0 .. MaxTime,
         NEW p \in Edges, NEW H \in SUBSET OpenAt(rs, p), NEW new, FreshRows(new, p),
         NEW at \in 0 .. MaxTime, at < clock', NEW v, NEW q
  PROVE  (\E i \in DOMAIN Rewritten(rs, H, new) : Seen(Rewritten(rs, H, new)[i], q, at, v))
           <=> (\E i \in DOMAIN rs : Seen(rs[i], q, at, v))
<1> DEFINE after == Rewritten(rs, H, new)
           l == Len(rs)
           m == Len(new)
<1>1. /\ l \in Nat /\ m \in Nat /\ DOMAIN rs = 1 .. l /\ DOMAIN new = 1 .. m
      /\ new \in Seq(Rows)
  BY DEF FreshRows
<1>2. /\ DOMAIN after = 1 .. (l + m)
      /\ \A i \in 1 .. l : after[i] = IF i \in H THEN Expired(rs[i]) ELSE rs[i]
      /\ \A n \in 1 .. m : after[l + n] = new[n]
      /\ \A i \in 1 .. (l + m) : i \in 1 .. l \/ \E n \in 1 .. m : i = l + n
  <2>1. /\ after \in Seq(Rows) /\ Len(after) = l + Len(new)
        /\ DOMAIN after = 1 .. (l + Len(new))
        /\ \A i \in DOMAIN rs : after[i] = IF i \in H THEN Expired(rs[i]) ELSE rs[i]
        /\ \A n \in DOMAIN new : l + n \in DOMAIN after /\ after[l + n] = new[n]
        /\ \A i \in DOMAIN after : i \in DOMAIN rs \/ \E n \in DOMAIN new : i = l + n
    BY <1>1, RewrittenRows
  <2> HIDE DEF after
  <2> QED BY <1>1, <2>1
<1>3. \A n \in 1 .. m : ~Seen(after[l + n], q, at, v)
  <2> SUFFICES ASSUME NEW n \in 1 .. m PROVE ~Contains(new[n].system, at)
    BY <1>2 DEF Seen
  <2>1. new[n].system.start = clock' /\ clock' \in Nat /\ at \in Nat
    BY <1>1, TimeAssumption DEF FreshRows, Since
  <2> QED BY <2>1 DEF Contains
<1>4. ASSUME NEW i \in 1 .. l PROVE Seen(after[i], q, at, v) <=> Seen(rs[i], q, at, v)
  <2>1. CASE i \notin H
    BY <1>2, <2>1
  <2>2. CASE i \in H
    <3>1. rs[i] \in Rows /\ rs[i].system.start <= MaxTime /\ IsOpen(rs[i].system)
      BY <1>1, <2>2 DEF StampedRows, OpenAt
    <3>2. /\ after[i].pair = rs[i].pair /\ after[i].valid = rs[i].valid
          /\ after[i].system.start = rs[i].system.start /\ after[i].system.end >= clock'
          /\ after[i].system.end \in Nat
      <4>1. after[i] = Expired(rs[i])
        BY <1>2, <2>2
      <4> QED BY <3>1, <4>1, ExpiredRow, RowFields
    <3>3. at < after[i].system.end
      BY <3>2, TimeAssumption
    <3>4. at < rs[i].system.end
      <4>1. rs[i].system.end \in Nat /\ rs[i].system.end >= FOREVER
        BY <3>1, RowFields DEF IsOpen
      <4> QED BY <4>1, TimeAssumption, ForeverAssumption
    <3> QED BY <3>2, <3>3, <3>4 DEF Contains, Seen
  <2> QED BY <2>1, <2>2
<1> HIDE DEF after, m, l
<1>5. \A i \in 1 .. l : i \in 1 .. (l + m)
  BY <1>1
<1>6. (\E i \in DOMAIN after : Seen(after[i], q, at, v))
         <=> (\E i \in DOMAIN rs : Seen(rs[i], q, at, v))
  BY <1>1, <1>2, <1>3, <1>4, <1>5
<1> QED BY <1>6 DEF after

-----------------------------------------------------------------------------
(* The adjacency counts.                                                   *)

CurrentAt(all, p) ==
  {at \in UNION {{s} \X DOMAIN all[s] : s \in Shards} :
     LET r == all[at[1]][at[2]] IN r.pair = p /\ CurrentRow(r)}

\* A shard and a position of a current row of the pair; there are finitely many.
LEMMA CurrentPlaces ==
  ASSUME NEW all \in [Shards -> Seq(Rows)], NEW p \in Edges
  PROVE  /\ \A x : x \in CurrentAt(all, p)
                     <=> \E s \in Shards : \E i \in DOMAIN all[s] :
                           x = <<s, i>> /\ all[s][i].pair = p /\ CurrentRow(all[s][i])
         /\ IsFiniteSet(CurrentAt(all, p))
<1> DEFINE Places(s) == {s} \X DOMAIN all[s]
           Every == UNION {Places(s) : s \in Shards}
<1>1. \A x : x \in Every <=> \E s \in Shards : \E i \in DOMAIN all[s] : x = <<s, i>>
  OBVIOUS
<1>2. IsFiniteSet(Every)
  <2> DEFINE f == [s \in Shards |-> Places(s)]
             T == {Places(s) : s \in Shards}
  <2>1. \A s \in Shards : IsFiniteSet(Places(s))
    <3> SUFFICES ASSUME NEW s \in Shards PROVE IsFiniteSet(Places(s))
      OBVIOUS
    <3>1. DOMAIN all[s] = 1 .. Len(all[s]) /\ Len(all[s]) \in Nat
      OBVIOUS
    <3>2. IsFiniteSet(1 .. Len(all[s]))
      BY <3>1, FS_Interval
    <3>3. IsFiniteSet({s})
      BY FS_Singleton
    <3> QED BY <3>1, <3>2, <3>3, FS_Product
  <2> HIDE DEF Places
  <2>2. f \in Surjection(Shards, T)
    BY DEF Surjection
  <2>3. IsFiniteSet(T)
    BY <2>2, ShardsAssumption, FS_Surjection
  <2> QED BY <2>1, <2>3, FS_UNION
<1>3. CurrentAt(all, p) = {at \in Every : LET r == all[at[1]][at[2]] IN r.pair = p /\ CurrentRow(r)}
  BY DEF CurrentAt
<1> HIDE DEF Every
<1>4. CurrentAt(all, p) \in SUBSET Every
  BY <1>3
<1>5. ASSUME NEW x
      PROVE  x \in CurrentAt(all, p)
               <=> \E s \in Shards : \E i \in DOMAIN all[s] :
                     x = <<s, i>> /\ all[s][i].pair = p /\ CurrentRow(all[s][i])
  BY <1>1, <1>3
<1> QED BY <1>2, <1>4, <1>5, FS_Subset

\* As many places as there are numbers for them.
LEMMA PlacesCount ==
  ASSUME NEW D, IsFiniteSet(D), NEW T, NEW f \in [D -> T],
         \A m, n \in D : f[m] = f[n] => m = n,
         \A t \in T : \E n \in D : f[n] = t
  PROVE  IsFiniteSet(T) /\ Cardinality(T) = Cardinality(D)
<1>1. f \in Bijection(D, T)
  BY DEF Bijection, Injection, IsInjective, Surjection
<1>2. ExistsBijection(D, T)
  BY <1>1 DEF ExistsBijection
<1> QED BY <1>2, FS_Bijection

\* Counting what is closed and what is appended keeps the count.
Rewrites(all, then, s, p, H, hits, new) ==
  /\ all \in [Shards -> Seq(Rows)] /\ then \in [Shards -> Seq(Rows)]
  /\ s \in Shards /\ StampedRows(all[s])
  /\ clock' \in 0 .. MaxTime
  /\ p \in Edges /\ H \in SUBSET OpenAt(all[s], p)
  /\ Lists(hits, H) /\ FreshRows(new, p)
  /\ then[s] = Rewritten(all[s], H, new)
  /\ \A u \in Shards \ {s} : then[u] = all[u]

LEMMA CountRewritten ==
  ASSUME NEW all, NEW then, NEW s \in Shards, NEW p \in Edges, NEW H, NEW hits, NEW new,
         Rewrites(all, then, s, p, H, hits, new)
  PROVE  /\ Cardinality(CurrentAt(then, p)) =
              Bumped(Cardinality(CurrentAt(all, p)), Lost(all[s], hits)) + Gained(new)
         /\ \A q \in Edges \ {p} : CurrentAt(then, q) = CurrentAt(all, q)
         /\ Lost(all[s], hits) \in Nat /\ Gained(new) \in Nat
<1> DEFINE rs == all[s]
           after == Rewritten(rs, H, new)
           l == Len(rs)
           m == Len(new)
<1>0. /\ all \in [Shards -> Seq(Rows)] /\ then \in [Shards -> Seq(Rows)]
      /\ s \in Shards /\ StampedRows(rs)
      /\ clock' \in 0 .. MaxTime
      /\ p \in Edges /\ H \in SUBSET OpenAt(rs, p)
      /\ Lists(hits, H) /\ FreshRows(new, p)
      /\ then[s] = after
      /\ \A u \in Shards \ {s} : then[u] = all[u]
  BY DEF Rewrites
<1>1. /\ l \in Nat /\ m \in Nat /\ DOMAIN rs = 1 .. l /\ DOMAIN new = 1 .. m
      /\ new \in Seq(Rows) /\ rs \in Seq(Rows)
  BY <1>0 DEF FreshRows
<1>2. /\ DOMAIN after = 1 .. (l + m)
      /\ \A i \in 1 .. l : after[i] = IF i \in H THEN Expired(rs[i]) ELSE rs[i]
      /\ \A n \in 1 .. m : after[l + n] = new[n]
      /\ \A i \in 1 .. (l + m) : i \in 1 .. l \/ \E n \in 1 .. m : i = l + n
  <2>1. /\ after \in Seq(Rows) /\ Len(after) = l + Len(new)
        /\ DOMAIN after = 1 .. (l + Len(new))
        /\ \A i \in DOMAIN rs : after[i] = IF i \in H THEN Expired(rs[i]) ELSE rs[i]
        /\ \A n \in DOMAIN new : l + n \in DOMAIN after /\ after[l + n] = new[n]
        /\ \A i \in DOMAIN after : i \in DOMAIN rs \/ \E n \in DOMAIN new : i = l + n
    BY <1>0, <1>1, RewrittenRows
  <2> HIDE DEF after
  <2> QED BY <1>1, <2>1
<1>3. \A i \in H : i \in 1 .. l /\ rs[i].pair = p /\ IsOpen(rs[i].system)
  BY <1>0, <1>1 DEF OpenAt
<1>4. \A i \in H : ~IsOpen(after[i].system)
  <2> SUFFICES ASSUME NEW i \in H PROVE ~IsOpen(after[i].system)
    OBVIOUS
  <2>1. after[i] = Expired(rs[i]) /\ rs[i] \in Rows /\ rs[i].system.start <= MaxTime
    BY <1>0, <1>1, <1>2, <1>3 DEF StampedRows
  <2> HIDE DEF after
  <2> QED BY <1>0, <2>1, ExpiredRow
<1>5. \A n \in 1 .. m : after[l + n].pair = p /\ IsOpen(after[l + n].system)
                        /\ after[l + n].valid = new[n].valid
  <2> SUFFICES ASSUME NEW n \in 1 .. m
               PROVE  /\ after[l + n].pair = p /\ IsOpen(after[l + n].system)
                      /\ after[l + n].valid = new[n].valid
    OBVIOUS
  <2>1. new[n].pair = p /\ new[n].system = Since(clock') /\ after[l + n] = new[n]
    BY <1>0, <1>1, <1>2 DEF FreshRows
  <2> HIDE DEF after, m, l
  <2> QED BY <2>1, ForeverAssumption DEF Since, IsOpen
<1>6. then[s] = after /\ \A u \in Shards \ {s} : then[u] = all[u]
  BY <1>0
<1> DEFINE C(q) == CurrentAt(all, q)
           D(q) == CurrentAt(then, q)
           Ended == {n \in DOMAIN hits : IsOpen(rs[hits[n]].valid)}
           Begun == {n \in DOMAIN new : IsOpen(new[n].valid)}
           Gone == {<<s, hits[n]>> : n \in Ended}
           Came == {<<s, l + n>> : n \in Begun}
<1>7. ASSUME NEW q \in Edges
      PROVE  /\ \A x : x \in C(q) <=> \E u \in Shards : \E i \in DOMAIN all[u] :
                          x = <<u, i>> /\ all[u][i].pair = q /\ CurrentRow(all[u][i])
             /\ \A x : x \in D(q) <=> \E u \in Shards : \E i \in DOMAIN then[u] :
                          x = <<u, i>> /\ then[u][i].pair = q /\ CurrentRow(then[u][i])
             /\ IsFiniteSet(C(q))
  <2>1. /\ \A x : x \in C(q) <=> \E u \in Shards : \E i \in DOMAIN all[u] :
                     x = <<u, i>> /\ all[u][i].pair = q /\ CurrentRow(all[u][i])
        /\ IsFiniteSet(C(q))
    BY <1>0, CurrentPlaces
  <2>2. /\ \A x : x \in D(q) <=> \E u \in Shards : \E i \in DOMAIN then[u] :
                     x = <<u, i>> /\ then[u][i].pair = q /\ CurrentRow(then[u][i])
        /\ IsFiniteSet(D(q))
    BY <1>0, CurrentPlaces
  <2> QED BY <2>1, <2>2
<1> HIDE DEF C, D, after, rs, l, m
<1>8. \A i \in 1 .. l : i \in 1 .. (l + m) /\ \A n \in 1 .. m : i # l + n /\ l + n \in 1 .. (l + m)
  BY <1>1
<1>9. ASSUME NEW q \in Edges, q # p PROVE D(q) = C(q)
  <2>1. ASSUME NEW u \in Shards, NEW i \in DOMAIN then[u], then[u][i].pair = q, CurrentRow(then[u][i])
        PROVE  i \in DOMAIN all[u] /\ then[u][i] = all[u][i]
    <3>1. CASE u # s
      BY <1>6, <3>1
    <3>2. CASE u = s
      <4>1. i \in 1 .. (l + m) /\ after[i].pair = q /\ IsOpen(after[i].system)
        BY <1>2, <1>6, <2>1, <3>2 DEF CurrentRow
      <4>2. i \in 1 .. l /\ i \notin H
        BY <1>2, <1>4, <1>5, <1>9, <4>1
      <4> QED BY <1>1, <1>2, <1>6, <3>2, <4>2 DEF rs
    <3> QED BY <3>1, <3>2
  <2>2. ASSUME NEW u \in Shards, NEW i \in DOMAIN all[u], all[u][i].pair = q
        PROVE  i \in DOMAIN then[u] /\ then[u][i] = all[u][i]
    <3>1. CASE u # s
      BY <1>6, <3>1
    <3>2. CASE u = s
      <4>1. i \in 1 .. l /\ rs[i].pair = q /\ i \notin H
        BY <1>1, <1>3, <1>9, <2>2, <3>2 DEF rs
      <4>2. i \in 1 .. (l + m)
        BY <1>1, <4>1
      <4> QED BY <1>2, <1>6, <3>2, <4>1, <4>2 DEF rs
    <3> QED BY <3>1, <3>2
  <2>3. ASSUME NEW x \in D(q) PROVE x \in C(q)
    <3>1. PICK u \in Shards : \E i \in DOMAIN then[u] :
                 x = <<u, i>> /\ then[u][i].pair = q /\ CurrentRow(then[u][i])
      BY <1>7
    <3>2. PICK i \in DOMAIN then[u] : x = <<u, i>> /\ then[u][i].pair = q /\ CurrentRow(then[u][i])
      BY <3>1
    <3>3. i \in DOMAIN all[u] /\ then[u][i] = all[u][i]
      BY <2>1, <3>2
    <3> QED BY <1>7, <3>2, <3>3
  <2>4. ASSUME NEW x \in C(q) PROVE x \in D(q)
    <3>1. PICK u \in Shards : \E i \in DOMAIN all[u] :
                 x = <<u, i>> /\ all[u][i].pair = q /\ CurrentRow(all[u][i])
      BY <1>7
    <3>2. PICK i \in DOMAIN all[u] : x = <<u, i>> /\ all[u][i].pair = q /\ CurrentRow(all[u][i])
      BY <3>1
    <3>3. i \in DOMAIN then[u] /\ then[u][i] = all[u][i]
      BY <2>2, <3>2
    <3> QED BY <1>7, <3>2, <3>3
  <2> QED BY <2>3, <2>4
<1>10. /\ hits \in Seq(Nat) /\ DOMAIN hits = 1 .. Len(hits) /\ Len(hits) \in Nat
       /\ \A a, b \in DOMAIN hits : hits[a] = hits[b] => a = b
       /\ \A n \in DOMAIN hits : hits[n] \in H
       /\ \A i \in H : \E n \in DOMAIN hits : hits[n] = i
  <2>1. hits \in Seq(Nat) /\ DOMAIN hits = 1 .. Len(hits) /\ Len(hits) \in Nat /\ Range(hits) = H
    BY <1>0 DEF Lists
  <2>2. ASSUME NEW a \in DOMAIN hits, NEW b \in DOMAIN hits, hits[a] = hits[b] PROVE a = b
    <3>1. hits[a] \in Nat /\ hits[b] \in Nat /\ a \in Nat /\ b \in Nat
      BY <2>1
    <3>2. ~(a < b) /\ ~(b < a)
      BY <1>0, <2>2, <3>1 DEF Lists, Increasing
    <3> QED BY <3>1, <3>2
  <2> QED BY <2>1, <2>2 DEF Range
<1>11. \A x : x \in Gone <=> \E i \in H : x = <<s, i>> /\ IsOpen(rs[i].valid)
  BY <1>10
<1>12. \A x : x \in Came <=> \E n \in 1 .. m : x = <<s, l + n>> /\ IsOpen(new[n].valid)
  BY <1>1
<1>13. IsFiniteSet(Gone) /\ Cardinality(Gone) = Lost(rs, hits) /\ Lost(rs, hits) \in Nat
  <2>1. Ended \in SUBSET (1 .. Len(hits)) /\ IsFiniteSet(1 .. Len(hits))
    BY <1>10, FS_Interval
  <2>2. IsFiniteSet(Ended) /\ Cardinality(Ended) \in Nat
    BY <2>1, FS_Subset, FS_CardinalityType
  <2> DEFINE g == [n \in Ended |-> <<s, hits[n]>>]
  <2>3. g \in [Ended -> Gone] /\ \A t \in Gone : \E n \in Ended : g[n] = t
    OBVIOUS
  <2>4. \A a, b \in Ended : g[a] = g[b] => a = b
    BY <1>10
  <2>5. Lost(rs, hits) = Cardinality(Ended)
    BY DEF Lost
  <2> HIDE DEF g, Ended, Gone
  <2>6. IsFiniteSet(Gone) /\ Cardinality(Gone) = Cardinality(Ended)
    BY <2>2, <2>3, <2>4, PlacesCount
  <2> QED BY <2>2, <2>5, <2>6
<1>14. IsFiniteSet(Came) /\ Cardinality(Came) = Gained(new) /\ Gained(new) \in Nat
  <2>1. Begun \in SUBSET (1 .. m) /\ IsFiniteSet(1 .. m)
    BY <1>1, FS_Interval
  <2>2. IsFiniteSet(Begun) /\ Cardinality(Begun) \in Nat
    BY <2>1, FS_Subset, FS_CardinalityType
  <2> DEFINE g == [n \in Begun |-> <<s, l + n>>]
  <2>3. g \in [Begun -> Came] /\ \A t \in Came : \E n \in Begun : g[n] = t
    OBVIOUS
  <2>4. \A a, b \in Begun : g[a] = g[b] => a = b
    BY <1>1, <2>1
  <2>5. Gained(new) = Cardinality(Begun)
    BY DEF Gained
  <2> HIDE DEF g, Begun, Came
  <2>6. IsFiniteSet(Came) /\ Cardinality(Came) = Cardinality(Begun)
    BY <2>2, <2>3, <2>4, PlacesCount
  <2> QED BY <2>2, <2>5, <2>6
<1> HIDE DEF Ended, Begun, Gone, Came
<1>15. Gone \in SUBSET C(p)
  <2> SUFFICES ASSUME NEW x \in Gone PROVE x \in C(p)
    OBVIOUS
  <2>1. PICK i \in H : x = <<s, i>> /\ IsOpen(rs[i].valid)
    BY <1>11
  <2>2. i \in DOMAIN all[s] /\ all[s][i].pair = p /\ CurrentRow(all[s][i])
    BY <1>1, <1>3, <2>1 DEF CurrentRow, rs
  <2> QED BY <1>7, <2>1, <2>2
<1>16. C(p) \cap Came = {}
  <2> SUFFICES ASSUME NEW x \in C(p), x \in Came PROVE FALSE
    OBVIOUS
  <2>1. PICK n \in 1 .. m : x = <<s, l + n>>
    BY <1>12
  <2>2. PICK u \in Shards : \E i \in DOMAIN all[u] : x = <<u, i>>
    BY <1>7
  <2>3. l + n \in 1 .. l
    BY <1>1, <2>1, <2>2 DEF rs
  <2> QED BY <1>8, <2>3
<1>17. D(p) = (C(p) \ Gone) \cup Came
  <2>1. ASSUME NEW x \in D(p) PROVE x \in (C(p) \ Gone) \cup Came
    <3>1. PICK u \in Shards : \E i \in DOMAIN then[u] :
                 x = <<u, i>> /\ then[u][i].pair = p /\ CurrentRow(then[u][i])
      BY <1>7
    <3>2. PICK i \in DOMAIN then[u] : x = <<u, i>> /\ then[u][i].pair = p /\ CurrentRow(then[u][i])
      BY <3>1
    <3>3. CASE u # s
      <4>1. x \in C(p)
        BY <1>6, <1>7, <3>2, <3>3
      <4>2. x \notin Gone
        BY <1>11, <3>2, <3>3
      <4> QED BY <4>1, <4>2
    <3>4. CASE u = s /\ i \in 1 .. l
      <4>1. i \notin H /\ after[i] = rs[i]
        BY <1>2, <1>4, <1>6, <3>2, <3>4 DEF CurrentRow
      <4>2. i \in DOMAIN all[s] /\ all[s][i].pair = p /\ CurrentRow(all[s][i])
        BY <1>1, <1>6, <3>2, <3>4, <4>1 DEF rs
      <4>3. x \in C(p)
        BY <1>7, <3>2, <3>4, <4>2
      <4>4. x \notin Gone
        BY <1>11, <3>2, <4>1
      <4> QED BY <4>3, <4>4
    <3>5. CASE u = s /\ i \notin 1 .. l
      <4>1. PICK n \in 1 .. m : i = l + n
        BY <1>2, <1>6, <3>2, <3>5
      <4>2. IsOpen(new[n].valid)
        BY <1>5, <1>6, <3>2, <3>5, <4>1 DEF CurrentRow
      <4> QED BY <1>12, <3>2, <3>5, <4>1, <4>2
    <3> QED BY <3>3, <3>4, <3>5
  <2>2. ASSUME NEW x \in C(p), x \notin Gone PROVE x \in D(p)
    <3>1. PICK u \in Shards : \E i \in DOMAIN all[u] :
                 x = <<u, i>> /\ all[u][i].pair = p /\ CurrentRow(all[u][i])
      BY <1>7
    <3>2. PICK i \in DOMAIN all[u] : x = <<u, i>> /\ all[u][i].pair = p /\ CurrentRow(all[u][i])
      BY <3>1
    <3>3. CASE u # s
      BY <1>6, <1>7, <3>2, <3>3
    <3>4. CASE u = s
      <4>1. i \in 1 .. l /\ rs[i].pair = p /\ CurrentRow(rs[i])
        BY <1>1, <3>2, <3>4 DEF rs
      <4>2. i \notin H
        BY <1>11, <2>2, <3>2, <3>4, <4>1 DEF CurrentRow
      <4>3. i \in DOMAIN then[s] /\ then[s][i] = rs[i]
        BY <1>2, <1>6, <1>8, <4>1, <4>2
      <4> QED BY <1>7, <3>2, <3>4, <4>1, <4>3
    <3> QED BY <3>3, <3>4
  <2>3. ASSUME NEW x \in Came PROVE x \in D(p)
    <3>1. PICK n \in 1 .. m : x = <<s, l + n>> /\ IsOpen(new[n].valid)
      BY <1>12
    <3>2. l + n \in 1 .. (l + m)
      BY <1>1
    <3>3. l + n \in DOMAIN then[s] /\ then[s][l + n].pair = p /\ CurrentRow(then[s][l + n])
      BY <1>2, <1>5, <1>6, <3>1, <3>2 DEF CurrentRow
    <3> QED BY <1>7, <3>1, <3>3
  <2> QED BY <2>1, <2>2, <2>3
<1>18. Cardinality(D(p)) = Bumped(Cardinality(C(p)), Lost(rs, hits)) + Gained(new)
  <2> DEFINE X == C(p)
             c == Cardinality(X)
             lost == Lost(rs, hits)
  <2>1. IsFiniteSet(X) /\ c \in Nat /\ Gone \in SUBSET X /\ X \cap Came = {}
    BY <1>7, <1>15, <1>16, FS_CardinalityType
  <2>2. lost <= c
    BY <1>13, <2>1, FS_Subset
  <2> HIDE DEF X
  <2>3. X \cap Gone = Gone /\ (X \ Gone) \cap Came = {}
    BY <2>1
  <2> DEFINE Y == X \ Gone
  <2>4. IsFiniteSet(Y) /\ Cardinality(Y) = Cardinality(X) - Cardinality(X \cap Gone)
    BY <2>1, FS_Difference
  <2> HIDE DEF Y
  <2>5. Cardinality(Y \cup Came) = Cardinality(Y) + Cardinality(Came) - Cardinality(Y \cap Came)
    BY <1>14, <2>4, FS_Union
  <2>6. Cardinality(Y \cap Came) = 0
    BY <2>3, FS_EmptySet DEF Y
  <2>8. Cardinality(Y) = c - lost
    BY <1>13, <2>3, <2>4
  <2>9. Cardinality(Y \cup Came) = (c - lost) + Gained(new)
    <3>1. Cardinality(Y \cup Came) = (c - lost) + Gained(new) - 0
      BY <1>14, <2>5, <2>6, <2>8
    <3> QED BY <1>13, <1>14, <2>1, <3>1
  <2>7. Bumped(c, lost) = c - lost
    BY <1>13, <2>1, <2>2 DEF Bumped
  <2> QED BY <1>17, <2>9, <2>7 DEF X, Y
<1> QED BY <1>9, <1>13, <1>14, <1>18 DEF C, D, rs

-----------------------------------------------------------------------------
(* A rewriting step.                                                       *)

\* What an audit of an instant knows of every shard.
SamePast(before, then, at) ==
  \A s \in Shards, v \in Instants : LinkedKnown(then, s, v, at) = LinkedKnown(before, s, v, at)

\* Rebuilt indexes are well formed.
LEMMA RebuiltTypes ==
  ASSUME NEW all \in [Shards -> Seq(Rows)]
  PROVE  /\ [s \in Shards |-> RebuiltOpen(all[s])] \in [Shards -> [Edges -> Seq(Nat)]]
         /\ RebuiltAdj(all) \in [Edges -> Nat]
<1>1. ASSUME NEW s \in Shards PROVE RebuiltOpen(all[s]) \in [Edges -> Seq(Nat)]
  <2>1. \A p \in Edges : RebuiltOpen(all[s])[p] \in Seq(Nat)
    BY OpenList DEF Lists
  <2>2. RebuiltOpen(all[s]) = [p \in Edges |-> RebuiltOpen(all[s])[p]]
    BY DEF RebuiltOpen
  <2> QED BY <2>1, <2>2
<1>2. \A p \in Edges : Cardinality(CurrentAt(all, p)) \in Nat
  BY CurrentPlaces, FS_CardinalityType
<1>3. RebuiltAdj(all) = [p \in Edges |-> Cardinality(CurrentAt(all, p))]
  BY DEF RebuiltAdj, CurrentAt
<1> QED BY <1>1, <1>2, <1>3

\* The rows that assert a pair from now on are counted.
LEMMA GainedCounts ==
  ASSUME NEW p, NEW new, FreshRows(new, p)
  PROVE  Gained(new) \in Nat
<1> DEFINE S == {n \in DOMAIN new : IsOpen(new[n].valid)}
<1>1. S \in SUBSET (1 .. Len(new)) /\ Len(new) \in Nat
  BY DEF FreshRows
<1>2. IsFiniteSet(1 .. Len(new))
  BY <1>1, FS_Interval
<1>3. IsFiniteSet(S)
  BY <1>1, <1>2, FS_Subset
<1> QED BY <1>3, FS_CardinalityType DEF Gained

\* Closing open rows of one pair and appending rows that fit in keeps the rows
\* sound, the past as it was and the open lists exact; and the counts, if all
\* that was gained is counted or the pair is one held at the end of time.
LEMMA RewriteStep ==
  ASSUME LInv, NEW s \in Shards, NEW p \in Edges, clock' \in 0 .. MaxTime,
         NEW H \in SUBSET OpenAt(cells[s], p), NEW hits, Lists(hits, H),
         NEW new, FreshRows(new, p), FitsIn(cells[s], p, H, new),
         Rewrite(s, p, hits, new),
         NEW gained \in Nat, Recount(p, Lost(cells[s], hits), gained), gained <= Gained(new),
         gained = Gained(new) \/ HeldAtTheEnd(p)
  PROVE  /\ cells' \in [Shards -> Seq(Rows)] /\ \A u \in Shards : SoundRows(cells'[u])
         /\ Derived' /\ adj' \in [Edges -> Nat]
         /\ \A at \in 0 .. MaxTime : at < clock' => SamePast(cells, cells', at)
<1> DEFINE rs == cells[s]
           after == Rewritten(rs, H, new)
<1>1. /\ cells \in [Shards -> Seq(Rows)] /\ \A u \in Shards : SoundRows(cells[u])
      /\ \A q \in Edges : Counts(q)
      /\ openBy = [u \in Shards |-> RebuiltOpen(cells[u])]
      /\ rs \in Seq(Rows) /\ StampedRows(rs) /\ new \in Seq(Rows) /\ Len(rs) \in Nat
      /\ openBy \in [Shards -> [Edges -> Seq(Nat)]] /\ adj \in [Edges -> Nat]
  BY DEF LInv, TypeOK, Derived, SoundRows, FreshRows
<1>2. Range(hits) = H
  BY DEF Lists
<1>3. SoundRows(after) /\ after \in Seq(Rows)
  BY <1>1, RewrittenSound DEF SoundRows
<1>4. cells' = [cells EXCEPT ![s] = after]
  BY <1>2 DEF Rewrite, Rewritten
<1>5. openBy' = [openBy EXCEPT ![s][p] = Where(openBy[s][p], LAMBDA i : i \notin H)
                                           \o [n \in DOMAIN new |-> Len(rs) + n]]
  BY <1>2 DEF Rewrite
<1>6. adj' = [adj EXCEPT ![p] = Bumped(adj[p], Lost(rs, hits)) + gained]
  BY DEF Recount
<1> HIDE DEF after
<1>7. /\ cells' \in [Shards -> Seq(Rows)] /\ cells'[s] = after
      /\ \A u \in Shards \ {s} : cells'[u] = cells[u]
  BY <1>1, <1>3, <1>4
<1>8. \A u \in Shards : SoundRows(cells'[u])
  BY <1>1, <1>3, <1>7
<1>9. ASSUME NEW q \in Edges, HeldAtTheEnd(q) PROVE HeldAtTheEnd(q)'
  <2>0. PICK u \in Shards : \E i \in DOMAIN cells[u] :
          cells[u][i].pair = q /\ cells[u][i].valid.start = FOREVER - 1
    BY <1>9 DEF HeldAtTheEnd
  <2>1. PICK i \in DOMAIN cells[u] : cells[u][i].pair = q /\ cells[u][i].valid.start = FOREVER - 1
    BY <2>0
  <2>2. i \in DOMAIN cells'[u] /\ cells'[u][i].pair = q /\ cells'[u][i].valid.start = FOREVER - 1
    <3>1. CASE u # s
      BY <1>7, <2>1, <3>1
    <3>2. CASE u = s
      <4>1. i \in DOMAIN rs /\ rs[i].pair = q /\ rs[i].valid.start = FOREVER - 1
        BY <2>1, <3>2
      <4>2. i \in DOMAIN after /\ after[i] \in {rs[i], Expired(rs[i])}
        BY <1>1, <1>3, <4>1, RewrittenRows DEF after
      <4>3. Expired(rs[i]).pair = rs[i].pair /\ Expired(rs[i]).valid = rs[i].valid
        <5>1. rs[i] \in Rows /\ rs[i].system.start <= MaxTime
          BY <1>1, <4>1 DEF StampedRows
        <5> QED BY <5>1, ExpiredRow
      <4> QED BY <1>7, <3>2, <4>1, <4>2, <4>3
    <3> QED BY <3>1, <3>2
  <2> QED BY <2>2 DEF HeldAtTheEnd
<1>12. (\A q \in Edges : Counts(q)') /\ adj' \in [Edges -> Nat]
  <2> DEFINE lost == Lost(rs, hits)
             all == Gained(new)
             is(q) == Cardinality(CurrentAt(cells, q))
             becomes(q) == Cardinality(CurrentAt(cells', q))
  <2>1. /\ becomes(p) = Bumped(is(p), lost) + all
        /\ \A q \in Edges \ {p} : becomes(q) = is(q)
        /\ lost \in Nat /\ all \in Nat
    <3>1. PICK then : then = cells'
      OBVIOUS
    <3>2. Rewrites(cells, then, s, p, H, hits, new)
      BY <1>1, <1>7, <3>1 DEF after, Rewrites
    <3>3. /\ Cardinality(CurrentAt(then, p)) = Bumped(Cardinality(CurrentAt(cells, p)), lost) + all
          /\ \A q \in Edges \ {p} : CurrentAt(then, q) = CurrentAt(cells, q)
          /\ lost \in Nat /\ all \in Nat
      BY <3>2, CountRewritten
    <3> QED BY <3>1, <3>3
  <2>2. \A q \in Edges : /\ RebuiltAdj(cells)[q] = is(q) /\ RebuiltAdj(cells')[q] = becomes(q)
                         /\ is(q) \in Nat /\ adj[q] \in Nat
    BY <1>1, CurrentPlaces, FS_CardinalityType DEF RebuiltAdj, CurrentAt
  <2> HIDE DEF lost, all, is, becomes
  <2>3. /\ adj'[p] = Bumped(adj[p], lost) + gained /\ adj'[p] \in Nat
        /\ \A q \in Edges \ {p} : adj'[q] = adj[q]
        /\ adj' \in [Edges -> Nat]
    <3>1. adj[p] \in Nat /\ Bumped(adj[p], lost) + gained \in Nat
      BY <2>1, <2>2 DEF Bumped
    <3> QED BY <1>1, <1>6, <3>1 DEF lost
  <2>4. \A q \in Edges : adj[q] <= is(q) /\ (adj[q] = is(q) \/ HeldAtTheEnd(q))
    BY <1>1, <2>2 DEF Counts
  <2>5. ASSUME NEW q \in Edges
        PROVE  adj'[q] <= becomes(q) /\ (adj'[q] = becomes(q) \/ HeldAtTheEnd(q)')
    <3>1. CASE q # p
      BY <1>9, <2>1, <2>3, <2>4, <3>1
    <3>2. CASE q = p
      <4>1. adj[p] <= is(p) /\ is(p) \in Nat /\ adj[p] \in Nat /\ gained <= all
        BY <2>2, <2>4 DEF all
      <4>2. adj'[p] <= becomes(p)
        BY <2>1, <2>3, <4>1 DEF Bumped
      <4>3. CASE adj[p] = is(p) /\ gained = all
        BY <2>1, <2>3, <3>2, <4>2, <4>3
      <4>4. CASE HeldAtTheEnd(p)
        BY <1>9, <3>2, <4>2, <4>4
      <4> QED BY <2>4, <4>3, <4>4 DEF all
    <3> QED BY <3>1, <3>2
  <2> QED BY <2>2, <2>3, <2>5 DEF Counts
<1>10. openBy' = [u \in Shards |-> RebuiltOpen(cells'[u])]
  <2> DEFINE q == openBy[s][p]
             r == Where(q, LAMBDA i : i \notin H) \o [n \in DOMAIN new |-> Len(rs) + n]
  <2>1. Lists(q, OpenAt(rs, p))
    BY <1>1, OpenList
  <2>2. Lists(Where(q, LAMBDA i : i \notin H), OpenAt(rs, p) \ H)
    BY <2>1, ListWithout
  <2>3. OpenAt(rs, p) \ H \subseteq 1 .. Len(rs) /\ DOMAIN new = 1 .. Len(new) /\ Len(new) \in Nat
    BY <1>1 DEF OpenAt
  <2>4. Lists(r, (OpenAt(rs, p) \ H) \cup (Len(rs) + 1) .. (Len(rs) + Len(new)))
    BY <1>1, <2>2, <2>3, ListAppended
  <2>5. /\ OpenAt(after, p) = (OpenAt(rs, p) \ H) \cup (Len(rs) + 1) .. (Len(rs) + Len(new))
        /\ \A k \in Edges \ {p} : OpenAt(after, k) = OpenAt(rs, k)
    BY <1>1, RewrittenOpen DEF after
  <2> HIDE DEF r, q
  <2>6. r = RebuiltOpen(after)[p]
    <3>1. Lists(r, OpenAt(after, p)) /\ Lists(RebuiltOpen(after)[p], OpenAt(after, p))
      BY <1>3, <2>4, <2>5, OpenList
    <3> QED BY <3>1, OneList
  <2>7. ASSUME NEW k \in Edges, k # p PROVE RebuiltOpen(rs)[k] = RebuiltOpen(after)[k]
    <3>1. Lists(RebuiltOpen(rs)[k], OpenAt(rs, k)) /\ Lists(RebuiltOpen(after)[k], OpenAt(after, k))
      BY <1>1, <1>3, OpenList
    <3> QED BY <2>5, <2>7, <3>1, OneList
  <2>8. openBy' = [openBy EXCEPT ![s][p] = r]
    BY <1>5 DEF r, q
  <2>9. openBy'[s] = RebuiltOpen(after)
    <3>1. openBy'[s] = [RebuiltOpen(rs) EXCEPT ![p] = r]
      BY <1>1, <2>8
    <3>2. \A all : RebuiltOpen(all) = [k \in Edges |-> RebuiltOpen(all)[k]]
      BY DEF RebuiltOpen
    <3>3. \A k \in Edges : [RebuiltOpen(rs) EXCEPT ![p] = r][k] = RebuiltOpen(after)[k]
      BY <2>6, <2>7, <3>2
    <3>4. [RebuiltOpen(rs) EXCEPT ![p] = r] = [k \in Edges |-> RebuiltOpen(after)[k]]
      BY <3>2, <3>3
    <3> QED BY <3>1, <3>2, <3>4
  <2>10. \A u \in Shards \ {s} : openBy'[u] = RebuiltOpen(cells'[u])
    BY <1>1, <1>7, <2>8
  <2>11. openBy' = [u \in Shards |-> openBy'[u]]
    BY <1>1, <2>8
  <2> QED BY <1>7, <2>9, <2>10, <2>11
<1>11. ASSUME NEW at \in 0 .. MaxTime, at < clock' PROVE SamePast(cells, cells', at)
  <2> SUFFICES ASSUME NEW u \in Shards, NEW v \in Instants
               PROVE  LinkedKnown(cells', u, v, at) = LinkedKnown(cells, u, v, at)
    BY DEF SamePast
  <2>1. CASE u # s
    BY <1>7, <2>1 DEF LinkedKnown
  <2>2. CASE u = s
    <3>1. ASSUME NEW q \in Edges
          PROVE  (\E i \in DOMAIN after : Seen(after[i], q, at, v))
                   <=> (\E i \in DOMAIN rs : Seen(rs[i], q, at, v))
      BY <1>1, <1>11, RewrittenPast DEF after
    <3>2. \A all : LinkedKnown(all, s, v, at) =
                     {q \in Edges : \E i \in DOMAIN all[s] : Seen(all[s][i], q, at, v)}
      BY DEF LinkedKnown, Seen
    <3>3. cells'[s] = after /\ cells[s] = rs
      BY <1>7
    <3> QED BY <2>2, <3>1, <3>2, <3>3
  <2> QED BY <2>1, <2>2
<1> QED BY <1>7, <1>8, <1>10, <1>11, <1>12 DEF Derived

-----------------------------------------------------------------------------
(* What an application appends.                                            *)

\* A part of the interval o on one side of the window w.
PieceOf(d, o, w) ==
  /\ d \in Intervals
  /\ o.start <= d.start /\ d.end <= o.end
  /\ d.end <= w.start \/ w.end <= d.start

LEMMA PiecesApart ==
  ASSUME NEW w \in Intervals, NEW o1 \in Intervals, NEW o2 \in Intervals, NEW d1, NEW d2,
         PieceOf(d1, o1, w), PieceOf(d2, o2, w)
  PROVE  /\ ~Overlaps(d1, w)
         /\ ~Overlaps(w, d1)
         /\ ~Overlaps(o1, o2) => ~Overlaps(d1, d2) /\ ~Overlaps(o1, d2)
         /\ d1.end <= w.start /\ w.end <= d2.start => ~Overlaps(d1, d2) /\ ~Overlaps(d2, d1)
<1>1. \A i \in {w, o1, o2, d1, d2} : i.start \in Nat /\ i.end \in Nat /\ i.start < i.end
  BY RowFields DEF PieceOf
<1> QED BY <1>1 DEF PieceOf, Overlaps

\* The fields of a row re-asserted over a part of its interval.
LEMMA PieceFields ==
  ASSUME NEW r \in Rows, NEW from, NEW to, clock' \in 0 .. MaxTime
  PROVE  /\ Piece(r, from, to).pair = r.pair
         /\ Piece(r, from, to).system = Since(clock')
         /\ Piece(r, from, to).valid = [start |-> from, end |-> to]
         /\ [start |-> from, end |-> to] \in Intervals => Piece(r, from, to) \in Rows
<1>1. r = [pair |-> r.pair, valid |-> r.valid, system |-> r.system] /\ r.pair \in Edges
  BY RowFields
<1> DEFINE d == [start |-> from, end |-> to]
           t == Since(clock')
<1>2. Piece(r, from, to) = [r EXCEPT !.valid = d, !.system = t]
  BY DEF Piece
<1>3. t \in Intervals
  BY TimeAssumption, ForeverAssumption DEF Since, Intervals
<1> HIDE DEF d, t
<1>4. Piece(r, from, to) = [pair |-> r.pair, valid |-> d, system |-> t]
  BY <1>1, <1>2
<1>5. d \in Intervals => Piece(r, from, to) \in Rows
  BY <1>1, <1>3, <1>4 DEF Rows
<1> QED BY <1>4, <1>5 DEF d, t

\* The residuals are fresh rows of the pair, each a piece of a superseded row,
\* and they do not overlap each other.
LEMMA ResidualRows ==
  ASSUME NEW rs, SoundRows(rs), clock' \in 0 .. MaxTime, NEW p \in Edges,
         NEW H \in SUBSET OpenAt(rs, p), NEW hits, Lists(hits, H), NEW w \in Intervals,
         \A i \in H : Overlaps(rs[i].valid, w)
  PROVE  LET res == Residuals(rs, hits, w)
         IN  /\ FreshRows(res, p)
             /\ \A n \in DOMAIN res : \E i \in H : PieceOf(res[n].valid, rs[i].valid, w)
             /\ \A m, n \in DOMAIN res : m # n => ~Overlaps(res[m].valid, res[n].valid)
<1> DEFINE pieces == Pieces(rs, hits, w)
           L == Len(hits)
           K == {k \in DOMAIN pieces : pieces[k].valid.start < pieces[k].valid.end}
           res == Residuals(rs, hits, w)
           At2(k) == hits[(k + 1) \div 2]
<1>1. /\ hits \in Seq(Nat) /\ L \in Nat /\ DOMAIN hits = 1 .. L
      /\ \A n \in 1 .. L : hits[n] \in H
      /\ \A m, n \in 1 .. L : m < n => hits[m] < hits[n]
  BY DEF Lists, Range, Increasing
<1>2. rs \in Seq(Rows) /\ DisjointOpen(rs) /\ \A i \in H : i \in DOMAIN rs /\ rs[i] \in Rows
                                                  /\ rs[i].pair = p /\ IsOpen(rs[i].system)
  BY DEF SoundRows, OpenAt
<1>3. pieces = [k \in 1 .. 2 * L |->
                  LET r == rs[At2(k)]
                  IN  IF k % 2 = 1 THEN Piece(r, r.valid.start, w.start)
                                   ELSE Piece(r, w.end, r.valid.end)]
  BY DEF Pieces
<1>4. res = At(pieces, K)
  BY DEF Residuals, Where
<1> HIDE DEF pieces, res
<1>5. DOMAIN pieces = 1 .. 2 * L
  BY <1>3
<1>6. ASSUME NEW k \in 1 .. 2 * L
      PROVE  /\ (k + 1) \div 2 \in 1 .. L /\ At2(k) \in H
             /\ k % 2 = 1 => k = 2 * ((k + 1) \div 2) - 1
             /\ k % 2 # 1 => k = 2 * ((k + 1) \div 2)
  <2>1. /\ (k + 1) \div 2 \in 1 .. L
        /\ k % 2 = 1 => k = 2 * ((k + 1) \div 2) - 1
        /\ k % 2 # 1 => k = 2 * ((k + 1) \div 2)
    BY <1>1
  <2> QED BY <1>1, <2>1
<1>7. ASSUME NEW k \in K
      PROVE  /\ k \in 1 .. 2 * L
             /\ pieces[k] \in Rows /\ pieces[k].pair = p /\ pieces[k].system = Since(clock')
             /\ PieceOf(pieces[k].valid, rs[At2(k)].valid, w)
             /\ k % 2 = 1 => pieces[k].valid.end <= w.start
             /\ k % 2 # 1 => w.end <= pieces[k].valid.start
  <2> DEFINE r == rs[At2(k)]
             v == pieces[k].valid
  <2>1. k \in 1 .. 2 * L /\ v.start < v.end
    BY <1>5
  <2>2. /\ r \in Rows /\ r.pair = p /\ r.valid.start \in Nat /\ r.valid.end \in Nat
        /\ r.valid.start < r.valid.end /\ r.valid.end <= FOREVER
        /\ w.start \in Nat /\ w.end \in Nat /\ w.start < w.end /\ w.end <= FOREVER
        /\ Overlaps(r.valid, w)
    BY <1>2, <1>6, <2>1, RowFields
  <2>3. /\ k % 2 = 1 => pieces[k] = Piece(r, r.valid.start, w.start)
        /\ k % 2 # 1 => pieces[k] = Piece(r, w.end, r.valid.end)
    BY <1>3, <2>1
  <2> HIDE DEF r, K, v
  <2>4. CASE k % 2 = 1
    <3>1. /\ pieces[k] = Piece(r, r.valid.start, w.start)
          /\ v = [start |-> r.valid.start, end |-> w.start]
      BY <2>2, <2>3, <2>4, PieceFields DEF v
    <3>2. v \in Intervals /\ v.start = r.valid.start /\ v.end = w.start
      <4> DEFINE a == r.valid.start
                 b == w.start
      <4>1. a \in Nat /\ b \in Nat /\ b <= FOREVER
        BY <2>2, ForeverAssumption
      <4>2. v = [start |-> a, end |-> b]
        BY <3>1
      <4> HIDE DEF a, b
      <4>3. a < b
        BY <2>1, <4>2
      <4>4. v \in Intervals /\ v.start = a /\ v.end = b
        BY <4>1, <4>2, <4>3 DEF Intervals
      <4> QED BY <4>4 DEF a, b
    <3>3. pieces[k] \in Rows /\ pieces[k].pair = p /\ pieces[k].system = Since(clock')
      BY <2>2, <3>1, <3>2, PieceFields
    <3>4. v.end <= r.valid.end
      BY <2>2, <3>2 DEF Overlaps
    <3> QED BY <2>1, <2>2, <2>4, <3>2, <3>3, <3>4 DEF PieceOf, r, v
  <2>5. CASE k % 2 # 1
    <3>1. /\ pieces[k] = Piece(r, w.end, r.valid.end)
          /\ v = [start |-> w.end, end |-> r.valid.end]
      BY <2>2, <2>3, <2>5, PieceFields DEF v
    <3>2. v \in Intervals /\ v.start = w.end /\ v.end = r.valid.end
      BY <2>1, <2>2, <3>1 DEF Intervals
    <3>3. pieces[k] \in Rows /\ pieces[k].pair = p /\ pieces[k].system = Since(clock')
      BY <2>2, <3>1, <3>2, PieceFields
    <3>4. r.valid.start <= v.start
      BY <2>2, <3>2 DEF Overlaps
    <3> QED BY <2>1, <2>2, <2>5, <3>2, <3>3, <3>4 DEF PieceOf, r, v
  <2> QED BY <2>4, <2>5
<1>8. /\ pieces \in Seq(Range(pieces))
      /\ K \in SUBSET DOMAIN pieces
  <2> DEFINE T == Range(pieces)
  <2>1. \A k \in 1 .. 2 * L : pieces[k] \in T
    BY <1>5 DEF Range
  <2>2. pieces = [k \in 1 .. 2 * L |-> pieces[k]] /\ 2 * L \in Nat
    BY <1>1, <1>3
  <2> HIDE DEF T, L
  <2>3. pieces \in Seq(T)
    BY <2>1, <2>2
  <2> QED BY <2>3 DEF T
<1> HIDE DEF K
<1>9. /\ res \in Seq(Range(pieces))
      /\ \A n \in DOMAIN res : Nth(K, n) \in K /\ res[n] = pieces[Nth(K, n)]
      /\ \A m, n \in DOMAIN res : m < n => Nth(K, m) < Nth(K, n)
  BY <1>4, <1>8, AtPositions
<1>10. DOMAIN res = 1 .. Len(res) /\ Len(res) \in Nat
  BY <1>9
<1>11. FreshRows(res, p)
  <2>1. res \in [1 .. Len(res) -> Rows]
    BY <1>7, <1>9, <1>10
  <2>2. res \in Seq(Rows)
    BY <1>10, <2>1
  <2> QED BY <1>7, <1>9, <2>2 DEF FreshRows
<1>12. ASSUME NEW n \in DOMAIN res
       PROVE  \E i \in H : PieceOf(res[n].valid, rs[i].valid, w)
  BY <1>6, <1>7, <1>9
<1>13. ASSUME NEW j \in K, NEW k \in K, j < k
       PROVE  ~Overlaps(pieces[j].valid, pieces[k].valid) /\ ~Overlaps(pieces[k].valid, pieces[j].valid)
  <2> DEFINE a == (j + 1) \div 2
             b == (k + 1) \div 2
             o1 == rs[At2(j)].valid
             o2 == rs[At2(k)].valid
  <2>1. /\ j \in 1 .. 2 * L /\ k \in 1 .. 2 * L
        /\ a \in 1 .. L /\ b \in 1 .. L /\ At2(j) \in H /\ At2(k) \in H
        /\ j % 2 = 1 => j = 2 * a - 1
        /\ j % 2 # 1 => j = 2 * a
        /\ k % 2 = 1 => k = 2 * b - 1
        /\ k % 2 # 1 => k = 2 * b
    BY <1>6, <1>7
  <2>2. /\ PieceOf(pieces[j].valid, o1, w) /\ PieceOf(pieces[k].valid, o2, w)
        /\ o1 \in Intervals /\ o2 \in Intervals
    BY <1>2, <1>7, <2>1, RowFields
  <2>3. At2(j) = hits[a] /\ At2(k) = hits[b]
    OBVIOUS
  <2> HIDE DEF a, b, At2
  <2>4. CASE a = b
    <3>1. j % 2 = 1 /\ k % 2 # 1
      BY <1>1, <1>13, <2>1, <2>4
    <3>2. pieces[j].valid.end <= w.start /\ w.end <= pieces[k].valid.start
      BY <1>7, <3>1
    <3> QED BY <2>2, <3>2, PiecesApart
  <2>5. CASE a # b
    <3>1. At2(j) # At2(k)
      <4>1. a < b \/ b < a
        BY <2>1, <2>5
      <4>2. hits[a] \in Nat /\ hits[b] \in Nat
        BY <1>1, <2>1
      <4> QED BY <1>1, <2>1, <2>3, <4>1, <4>2
    <3>2. ~Overlaps(o1, o2) /\ ~Overlaps(o2, o1)
      BY <1>2, <2>1, <3>1 DEF DisjointOpen
    <3> QED BY <2>2, <3>2, PiecesApart
  <2> QED BY <2>4, <2>5
<1>14. ASSUME NEW m \in DOMAIN res, NEW n \in DOMAIN res, m # n
       PROVE  ~Overlaps(res[m].valid, res[n].valid)
  <2>1. m < n \/ n < m
    BY <1>10, <1>14
  <2> QED BY <1>9, <1>13, <2>1
<1> QED BY <1>11, <1>12, <1>14 DEF res

\* The row a link adds and the residuals behind it fit in beside the open rows
\* that the link's window misses.
LEMMA LinkedRowsFit ==
  ASSUME NEW rs, SoundRows(rs), clock' \in 0 .. MaxTime, NEW l \in Links,
         NEW H, H = {i \in OpenAt(rs, l.pair) : Overlaps(rs[i].valid, l.valid)},
         NEW hits, Lists(hits, H)
  PROVE  LET new == <<[pair |-> l.pair, valid |-> l.valid, system |-> Since(clock')]>>
                      \o Residuals(rs, hits, l.valid)
         IN  FreshRows(new, l.pair) /\ FitsIn(rs, l.pair, H, new)
<1> DEFINE w == l.valid
           row == [pair |-> l.pair, valid |-> w, system |-> Since(clock')]
           res == Residuals(rs, hits, w)
           new == <<row>> \o res
           m == Len(res)
<1>1. /\ l.pair \in Edges /\ w \in Intervals
      /\ H \in SUBSET OpenAt(rs, l.pair) /\ \A i \in H : Overlaps(rs[i].valid, w)
  BY WindowsAssumption DEF Links
<1>2. /\ FreshRows(res, l.pair)
      /\ \A n \in DOMAIN res : \E i \in H : PieceOf(res[n].valid, rs[i].valid, w)
      /\ \A a, b \in DOMAIN res : a # b => ~Overlaps(res[a].valid, res[b].valid)
  BY <1>1, ResidualRows
<1>3. row \in Rows /\ row.pair = l.pair /\ row.valid = w /\ row.system = Since(clock')
  BY <1>1, TimeAssumption, ForeverAssumption DEF Rows, Since, Intervals
<1> HIDE DEF res, row, w
<1>4. res \in Seq(Rows) /\ m \in Nat /\ DOMAIN res = 1 .. m
  BY <1>2 DEF FreshRows
<1>5. /\ new \in Seq(Rows) /\ DOMAIN new = 1 .. (m + 1)
      /\ new[1] = row
      /\ \A n \in 2 .. (m + 1) : n - 1 \in DOMAIN res /\ new[n] = res[n - 1]
  <2>1. <<row>> \in Seq(Rows) /\ Len(<<row>>) = 1 /\ <<row>>[1] = row
    BY <1>3
  <2>2. new \in Seq(Rows) /\ Len(new) = 1 + m
    BY <1>4, <2>1
  <2>3. DOMAIN new = 1 .. (m + 1)
    BY <1>4, <2>2
  <2>4. new[1] = row
    BY <1>4, <2>1, <2>3
  <2>5. ASSUME NEW n \in 2 .. (m + 1) PROVE n - 1 \in DOMAIN res /\ new[n] = res[n - 1]
    BY <1>4, <2>1
  <2> QED BY <2>2, <2>3, <2>4, <2>5
<1> HIDE DEF new, m
<1>6. \A n \in DOMAIN new : n = 1 \/ n \in 2 .. (m + 1)
  BY <1>4, <1>5
<1>7. FreshRows(new, l.pair)
  BY <1>2, <1>3, <1>5, <1>6 DEF FreshRows
<1>8. ASSUME NEW n \in DOMAIN res
      PROVE  ~Overlaps(w, res[n].valid) /\ ~Overlaps(res[n].valid, w)
  BY <1>1, <1>2, RowFields DEF PieceOf, Overlaps
<1>9. ASSUME NEW i \in OpenAt(rs, l.pair) \ H, NEW n \in DOMAIN res
      PROVE  ~Overlaps(rs[i].valid, res[n].valid)
  <2>1. PICK j \in H : PieceOf(res[n].valid, rs[j].valid, w)
    BY <1>2
  <2>2. ~Overlaps(rs[i].valid, rs[j].valid)
    BY <1>1 DEF SoundRows, DisjointOpen, OpenAt
  <2>3. rs[i] \in Rows /\ rs[j] \in Rows
    BY <1>1 DEF SoundRows, OpenAt
  <2>4. \A d \in {rs[i].valid, rs[j].valid, res[n].valid} : d.start \in Nat /\ d.end \in Nat
    BY <2>1, <2>3, RowFields DEF PieceOf
  <2> QED BY <2>1, <2>2, <2>4 DEF PieceOf, Overlaps
<1>10. ASSUME NEW i \in OpenAt(rs, l.pair) \ H, NEW n \in DOMAIN new
       PROVE  ~Overlaps(rs[i].valid, new[n].valid)
  <2>1. CASE n = 1
    <3>1. ~Overlaps(rs[i].valid, w)
      BY DEF w
    <3> QED BY <1>3, <1>5, <2>1, <3>1
  <2>2. CASE n \in 2 .. (m + 1)
    BY <1>5, <1>9, <2>2
  <2> QED BY <1>6, <2>1, <2>2
<1>11. ASSUME NEW a \in DOMAIN new, NEW b \in DOMAIN new, a # b
       PROVE  ~Overlaps(new[a].valid, new[b].valid)
  <2>1. CASE a = 1 /\ b \in 2 .. (m + 1)
    BY <1>3, <1>5, <1>8, <2>1
  <2>2. CASE b = 1 /\ a \in 2 .. (m + 1)
    BY <1>3, <1>5, <1>8, <2>2
  <2>3. CASE a \in 2 .. (m + 1) /\ b \in 2 .. (m + 1)
    <3>1. a - 1 # b - 1
      BY <1>4, <1>11, <2>3
    <3> QED BY <1>2, <1>5, <2>3, <3>1
  <2> QED BY <1>6, <1>11, <2>1, <2>2, <2>3
<1> QED BY <1>7, <1>10, <1>11 DEF FitsIn, new, row, res, w

\* An application of the next link of a commit is such a step.
LEMMA ApplyLinkStep ==
  ASSUME LInv, ApplyLink
  PROVE  /\ cells' \in [Shards -> Seq(Rows)] /\ \A u \in Shards : SoundRows(cells'[u])
         /\ Derived' /\ adj' \in [Edges -> Nat]
         /\ \A at \in 0 .. MaxTime : at < clock => SamePast(cells, cells', at)
<1> DEFINE l == Head(pending)
           s == l.shard
           p == l.pair
           rs == cells[s]
           q == openBy[s][p]
           hits == Hits(s, l)
           H == {i \in OpenAt(rs, p) : Overlaps(rs[i].valid, l.valid)}
           new == <<[pair |-> p, valid |-> l.valid, system |-> Since(clock)]>>
                    \o Residuals(rs, hits, l.valid)
<1>1. /\ l \in Links /\ clock' = clock /\ clock \in 0 .. MaxTime
      /\ Rewrite(s, p, hits, new) /\ Recount(p, Lost(rs, hits), Gained(new))
  <2>1. pending \in Seq(Links) /\ pending # <<>> /\ clock' = clock /\ clock <= MaxTime
    BY DEF LInv, TypeOK, ApplyLink
  <2>2. clock \in 0 .. MaxTime
    BY <2>1, TimeAssumption DEF LInv, TypeOK
  <2> QED BY <2>1, <2>2 DEF ApplyLink
<1>2. s \in Shards /\ p \in Edges
  BY <1>1 DEF Links
<1>3. SoundRows(rs) /\ q = RebuiltOpen(rs)[p] /\ rs \in Seq(Rows)
  BY <1>2 DEF LInv, Derived, SoundRows
<1>4. hits = At(q, {n \in DOMAIN q : Overlaps(rs[q[n]].valid, l.valid)})
  BY DEF Hits, Where
<1> HIDE DEF l, s, rs, q, hits
<1>5. Lists(q, OpenAt(rs, p))
  BY <1>2, <1>3, OpenList
<1>6. Lists(hits, H)
  <2>1. \A n \in DOMAIN q : q[n] \in OpenAt(rs, p)
    BY <1>5 DEF Lists, Range
  <2>2. {n \in DOMAIN q : Overlaps(rs[q[n]].valid, l.valid)} = {n \in DOMAIN q : q[n] \in H}
    BY <2>1
  <2>3. H \in SUBSET OpenAt(rs, p)
    OBVIOUS
  <2> HIDE DEF H
  <2> QED BY <1>4, <1>5, <2>2, <2>3, ListWhere
<1>7. FreshRows(new, p) /\ FitsIn(rs, p, H, new)
  <2>1. clock' \in 0 .. MaxTime
    BY <1>1
  <2>2. LET added == <<[pair |-> l.pair, valid |-> l.valid, system |-> Since(clock')]>>
                       \o Residuals(rs, hits, l.valid)
        IN  FreshRows(added, l.pair) /\ FitsIn(rs, l.pair, H, added)
    BY <1>1, <1>3, <1>6, <2>1, LinkedRowsFit
  <2> QED BY <1>1, <2>2
<1>8. H \in SUBSET OpenAt(cells[s], p) /\ FitsIn(cells[s], p, H, new) /\ clock' \in 0 .. MaxTime
  BY <1>1, <1>7 DEF rs
<1>9. Gained(new) \in Nat
  BY <1>7, GainedCounts
<1>10. Recount(p, Lost(cells[s], hits), Gained(new)) /\ Gained(new) <= Gained(new)
  BY <1>1, <1>9 DEF rs
<1> HIDE DEF H, new, p
<1> QED BY <1>1, <1>2, <1>6, <1>7, <1>8, <1>9, <1>10, RewriteStep

\* The row that replaces an unlinked one asserts a part of what it asserted.
LEMMA UnlinkedRow ==
  ASSUME NEW r \in Rows, IsOpen(r.valid), clock' \in 0 .. MaxTime
  PROVE  /\ FreshRows(Unlinked(r), r.pair) /\ DOMAIN Unlinked(r) = {1}
         /\ Unlinked(r)[1].valid.start = r.valid.start
         /\ Unlinked(r)[1].valid.end <= r.valid.end
         /\ IsOpen(Unlinked(r)[1].valid) => r.valid.start = FOREVER - 1
<1> DEFINE e == IF clock' > r.valid.start + 1 THEN clock' ELSE r.valid.start + 1
           d == [start |-> r.valid.start, end |-> e]
           t == Since(clock')
           row == [pair |-> r.pair, valid |-> d, system |-> t]
<1>1. /\ r.pair \in Edges /\ r.valid \in Intervals
      /\ r = [pair |-> r.pair, valid |-> r.valid, system |-> r.system]
      /\ r.valid = [start |-> r.valid.start, end |-> r.valid.end]
      /\ r.valid.start \in Nat /\ r.valid.end \in Nat
  BY RowFields
<1>2. e \in Nat /\ r.valid.start < e /\ e <= FOREVER /\ r.valid.end >= FOREVER /\ FOREVER \in Nat
  <2>1. r.valid.start < r.valid.end /\ r.valid.end <= FOREVER
    BY RowFields
  <2> QED BY <1>1, <2>1, TimeAssumption, ForeverAssumption DEF IsOpen
<1>3. d \in Intervals /\ t \in Intervals
  BY <1>1, <1>2, TimeAssumption, ForeverAssumption DEF Intervals, Since
<1>4. Unlinked(r) = <<[r EXCEPT !.valid.end = e, !.system = t]>>
  BY DEF Unlinked
<1> HIDE DEF e, t
<1>5. Unlinked(r) = <<row>>
  <2>1. [r EXCEPT !.valid.end = e, !.system = t]
          = [r EXCEPT !.valid = [r.valid EXCEPT !.end = e], !.system = t]
    OBVIOUS
  <2>2. [r.valid EXCEPT !.end = e] = d
    BY <1>1
  <2> HIDE DEF d
  <2>3. PICK o : o = [r EXCEPT !.valid = d, !.system = t]
    OBVIOUS
  <2>4. o = row
    BY <1>1, <2>3
  <2> QED BY <1>4, <2>1, <2>2, <2>3, <2>4
<1>6. row \in Rows
  BY <1>1, <1>3 DEF Rows
<1>7. e <= r.valid.end
  BY <1>1, <1>2
<1>9. IsOpen(d) => r.valid.start = FOREVER - 1
  BY <1>1, <1>2, TimeAssumption, ForeverAssumption DEF IsOpen, e
<1> HIDE DEF d
<1>8. <<row>> \in Seq(Rows) /\ DOMAIN <<row>> = {1} /\ <<row>>[1] = row
  BY <1>6
<1> QED BY <1>5, <1>7, <1>8, <1>9 DEF FreshRows, d, t

\* So is an unlink, of the newest open row whose window is open.
LEMMA UnlinkStep ==
  ASSUME LInv, NEW s \in Shards, NEW p \in Edges, NEW t \in 0 .. MaxTime, Unlink(s, p, t)
  PROVE  /\ cells' \in [Shards -> Seq(Rows)] /\ \A u \in Shards : SoundRows(cells'[u])
         /\ Derived' /\ adj' \in [Edges -> Nat]
         /\ \A at \in 0 .. MaxTime : at < clock => SamePast(cells, cells', at)
<1> DEFINE rs == cells[s]
           q == openBy[s][p]
           targets == Where(q, LAMBDA i : IsOpen(rs[i].valid))
           target == targets[Len(targets)]
           old == rs[target]
           new == Unlinked(old)
           H == {target}
<1>1. /\ targets # <<>> /\ clock' = t /\ t >= clock /\ clock \in Nat
      /\ Rewrite(s, p, <<target>>, new) /\ Recount(p, 1, 0)
  <2>1. /\ targets # <<>> /\ clock' = t /\ t >= clock
        /\ Rewrite(s, p, <<target>>, new) /\ Recount(p, 1, 0)
    BY DEF Unlink, Stamp
  <2>2. clock \in Nat
    BY DEF LInv, TypeOK
  <2> QED BY <2>1, <2>2
<1>2. SoundRows(rs) /\ q = RebuiltOpen(rs)[p] /\ rs \in Seq(Rows)
  BY DEF LInv, Derived, SoundRows
<1>3. Lists(q, OpenAt(rs, p))
  BY <1>2, OpenList
<1>4. target \in Nat /\ H \in SUBSET OpenAt(rs, p) /\ old \in Rows /\ old.pair = p /\ IsOpen(old.valid)
  <2> DEFINE K == {n \in DOMAIN q : IsOpen(rs[q[n]].valid)}
             k == Len(targets)
  <2>1. targets = At(q, K)
    BY DEF Where
  <2>2. q \in Seq(Nat) /\ K \in SUBSET DOMAIN q
    BY <1>3 DEF Lists
  <2> HIDE DEF K, targets
  <2>3. targets \in Seq(Nat) /\ \A n \in DOMAIN targets : Nth(K, n) \in K /\ targets[n] = q[Nth(K, n)]
    BY <2>1, <2>2, AtPositions
  <2>4. k \in DOMAIN targets
    BY <1>1, <2>3
  <2> HIDE DEF k
  <2>5. PICK n \in K : target = q[n]
    BY <2>3, <2>4 DEF k
  <2>6. target \in Nat /\ target \in OpenAt(rs, p) /\ IsOpen(rs[target].valid)
    BY <1>3, <2>2, <2>5 DEF Lists, Range, K
  <2> HIDE DEF target
  <2> QED BY <1>2, <2>6 DEF OpenAt
<1> HIDE DEF rs, q, targets, target
<1>5. Lists(<<target>>, H)
  BY <1>4 DEF Lists, Increasing, Range
<1>6. clock' \in 0 .. MaxTime
  BY <1>1
<1>7. /\ FreshRows(new, p) /\ DOMAIN new = {1}
      /\ new[1].valid.start = old.valid.start /\ new[1].valid.end <= old.valid.end
      /\ IsOpen(new[1].valid) => old.valid.start = FOREVER - 1
  BY <1>4, <1>6, UnlinkedRow
<1> HIDE DEF new
<1>8. FitsIn(rs, p, H, new)
  <2>1. ASSUME NEW i \in OpenAt(rs, p) \ H, NEW n \in DOMAIN new
        PROVE  ~Overlaps(rs[i].valid, new[n].valid)
    <3>1. ~Overlaps(rs[i].valid, old.valid)
      BY <1>2, <1>4 DEF SoundRows, DisjointOpen, OpenAt
    <3>2. rs[i] \in Rows /\ n = 1 /\ new[1] \in Rows
      <4>1. i \in DOMAIN rs
        BY DEF OpenAt
      <4>2. new \in Seq(Rows) /\ n = 1 /\ 1 \in DOMAIN new
        BY <1>7 DEF FreshRows
      <4> QED BY <1>2, <4>1, <4>2
    <3>3. /\ rs[i].valid.start \in Nat /\ rs[i].valid.end \in Nat
          /\ old.valid.start \in Nat /\ old.valid.end \in Nat
          /\ new[1].valid.end \in Nat
      BY <1>4, <3>2, RowFields
    <3> HIDE DEF old
    <3> QED BY <1>7, <3>1, <3>2, <3>3 DEF Overlaps
  <2> QED BY <1>7, <2>1 DEF FitsIn
<1>9. H \in SUBSET OpenAt(cells[s], p) /\ FitsIn(cells[s], p, H, new)
  BY <1>4, <1>8 DEF rs
<1>11. Lost(rs, <<target>>) = 1
  <2>1. {n \in DOMAIN <<target>> : IsOpen(rs[<<target>>[n]].valid)} = {1}
    BY <1>4 DEF old
  <2> QED BY <2>1, FS_Singleton DEF Lost
<1>12. 0 <= Gained(new) /\ (0 = Gained(new) \/ HeldAtTheEnd(p))
  <2>1. CASE IsOpen(new[1].valid)
    <3>1. target \in DOMAIN cells[s] /\ cells[s][target].pair = p
          /\ cells[s][target].valid.start = FOREVER - 1
      BY <1>4, <1>7, <2>1 DEF OpenAt, old, rs, H
    <3>2. HeldAtTheEnd(p)
      BY <3>1 DEF HeldAtTheEnd
    <3> QED BY <1>7, <3>2, GainedCounts
  <2>2. CASE ~IsOpen(new[1].valid)
    <3>1. {n \in DOMAIN new : IsOpen(new[n].valid)} = {}
      BY <1>7, <2>2
    <3> QED BY <3>1, FS_EmptySet DEF Gained
  <2> QED BY <2>1, <2>2
<1>13. Recount(p, Lost(cells[s], <<target>>), 0)
  BY <1>1, <1>11 DEF rs
<1> HIDE DEF H
<1>10. /\ cells' \in [Shards -> Seq(Rows)] /\ \A u \in Shards : SoundRows(cells'[u])
       /\ Derived' /\ adj' \in [Edges -> Nat]
       /\ \A at \in 0 .. MaxTime : at < clock' => SamePast(cells, cells', at)
  BY <1>1, <1>5, <1>6, <1>7, <1>9, <1>12, <1>13, RewriteStep
<1> QED BY <1>1, <1>10

-----------------------------------------------------------------------------
(* The clock floor of a loaded store.                                      *)

\* A bounded, nonempty set of naturals has a maximum.
LEMMA MaximumOf ==
  ASSUME NEW m \in Nat, NEW S \in SUBSET (0 .. m), S # {}
  PROVE  Maximum(S) \in S
<1>1. IsFiniteSet(0 .. m)
  BY FS_Interval
<1>2. IsFiniteSet(S)
  BY <1>1, FS_Subset
<1>3. \E n \in S : \A i \in S : i <= n
  BY <1>2, LastPosition
<1> QED BY <1>3 DEF Maximum

\* The newest stamp of value rows and link rows is one of theirs.
LEMMA PortedFloorBounded ==
  ASSUME LInv
  PROVE  PortedFloor(cells) \in 0 .. MaxTime + 1
<1> DEFINE S == {valueStamp} \cup UNION {Stamps(cells[s]) : s \in Shards}
<1>1. MaxTime + 1 \in Nat /\ valueStamp \in 0 .. MaxTime + 1
  BY TimeAssumption DEF LInv, TypeOK
<1>2. ASSUME NEW s \in Shards PROVE Stamps(cells[s]) \subseteq 0 .. MaxTime + 1
  <2>1. ASSUME NEW i \in DOMAIN cells[s]
        PROVE  /\ cells[s][i].system.start \in 0 .. MaxTime + 1
               /\ ~IsOpen(cells[s][i].system) => cells[s][i].system.end \in 0 .. MaxTime + 1
    <3>1. cells[s] \in Seq(Rows) /\ StampedRows(cells[s])
      BY DEF LInv, SoundRows
    <3>2. cells[s][i] \in Rows
      BY <3>1
    <3>3. cells[s][i].system.start \in Nat /\ cells[s][i].system.end \in Nat
      BY <3>2, RowFields
    <3> QED BY <3>1, <3>3, TimeAssumption DEF StampedRows
  <2> QED BY <2>1 DEF Stamps
<1>3. S \in SUBSET (0 .. MaxTime + 1) /\ S # {}
  BY <1>1, <1>2
<1> HIDE DEF S
<1>4. Maximum(S) \in S
  BY <1>1, <1>3, MaximumOf
<1> QED BY <1>3, <1>4 DEF PortedFloor, S

\* A store loaded from sound rows satisfies the invariant.
LEMMA LoadStep ==
  ASSUME NEW all \in [Shards -> Seq(Rows)], \A s \in Shards : SoundRows(all[s]),
         disk' \in [Shards -> Seq(Rows)], \A s \in Shards : SoundRows(disk'[s]),
         Load(all), clock' \in 0 .. MaxTime + 1,
         valueStamp' \in 0 .. MaxTime + 1, valueFloor' \in 0 .. MaxTime + 1
  PROVE  LInv'
<1>1. /\ cells' = all /\ openBy' = [s \in Shards |-> RebuiltOpen(all[s])]
      /\ adj' = RebuiltAdj(all) /\ pending' = <<>> /\ saving' = {}
  BY DEF Load
<1>2. openBy' \in [Shards -> [Edges -> Seq(Nat)]] /\ adj' \in [Edges -> Nat]
  BY <1>1, RebuiltTypes
<1>3. TypeOK'
  BY <1>1, <1>2 DEF TypeOK
<1>4. Derived'
  <2>1. \A p \in Edges : RebuiltAdj(all)[p] \in Nat
    BY RebuiltTypes
  <2> QED BY <1>1, <2>1 DEF Derived, Counts
<1>5. \A s \in Shards : SoundRows(cells'[s])
  BY <1>1
<1> QED BY <1>1, <1>3, <1>4, <1>5 DEF LInv

-----------------------------------------------------------------------------
(* The invariant is inductive.                                             *)

\* No rows: nothing is linked and nothing is open.
LEMMA LInvInit == Init => LInv
<1> SUFFICES ASSUME Init PROVE LInv
  OBVIOUS
<1>1. <<>> \in Seq(Rows) /\ SoundRows(<<>>)
  BY DEF SoundRows, StampedRows, DisjointOpen
<1>2. cells \in [Shards -> Seq(Rows)] /\ disk = cells /\ \A s \in Shards : cells[s] = <<>>
  BY <1>1 DEF Init
<1>3. openBy = [s \in Shards |-> RebuiltOpen(cells[s])]
  <2>1. RebuiltOpen(<<>>) = [p \in Edges |-> <<>>]
    <3>1. ASSUME NEW p \in Edges PROVE RebuiltOpen(<<>>)[p] = <<>>
      <4>1. Lists(RebuiltOpen(<<>>)[p], OpenAt(<<>>, p))
        BY <1>1, OpenList
      <4>2. OpenAt(<<>>, p) = {}
        BY DEF OpenAt
      <4>3. PICK q : q = RebuiltOpen(<<>>)[p]
        OBVIOUS
      <4>4. q \in Seq(Nat) /\ DOMAIN q = {}
        BY <4>1, <4>2, <4>3 DEF Lists, Range
      <4>5. Len(q) = 0
        BY <4>4
      <4> QED BY <4>3, <4>4, <4>5
    <3>2. RebuiltOpen(<<>>) = [p \in Edges |-> RebuiltOpen(<<>>)[p]]
      BY DEF RebuiltOpen
    <3> QED BY <3>1, <3>2
  <2> QED BY <1>2, <2>1 DEF Init
<1>4. \A p \in Edges : Counts(p)
  <2>1. ASSUME NEW p \in Edges PROVE CurrentAt(cells, p) = {}
    BY <1>2 DEF CurrentAt
  <2>2. RebuiltAdj(cells) = [p \in Edges |-> Cardinality(CurrentAt(cells, p))]
    BY DEF RebuiltAdj, CurrentAt
  <2>3. \A p \in Edges : RebuiltAdj(cells)[p] = 0 /\ adj[p] = 0
    BY <2>1, <2>2, FS_EmptySet DEF Init
  <2> QED BY <2>3 DEF Counts
<1>5. TypeOK
  BY <1>1, <1>2, TimeAssumption DEF Init, TypeOK
<1> QED BY <1>1, <1>2, <1>3, <1>4, <1>5 DEF LInv, Derived, Init

\* The stamps are within their bounds after every commit of values.
LEMMA StampedValues ==
  ASSUME LInv, NEW t \in 0 .. MaxTime, NEW e \in {t, t + 1}, NEW saved \in BOOLEAN,
         CommitValues(t, e, saved)
  PROVE  clock' = t /\ valueStamp' \in 0 .. MaxTime + 1 /\ valueFloor' \in 0 .. MaxTime + 1
<1> DEFINE S == {valueStamp, e}
<1>1. MaxTime + 1 \in Nat /\ S \in SUBSET (0 .. MaxTime + 1) /\ S # {}
  BY TimeAssumption DEF LInv, TypeOK
<1>2. clock' = t /\ valueStamp' = Maximum(S) /\ valueFloor' \in {valueFloor, valueStamp'}
  BY DEF CommitValues, Stamp
<1> HIDE DEF S
<1>3. Maximum(S) \in 0 .. MaxTime + 1
  BY <1>1, MaximumOf
<1>4. valueFloor \in 0 .. MaxTime + 1
  BY DEF LInv, TypeOK
<1> QED BY <1>2, <1>3, <1>4

\* A step that leaves the rows and the indexes alone.
LEMMA QuietStep ==
  ASSUME LInv, UNCHANGED <<cells, openBy, adj>>,
         disk' \in [Shards -> Seq(Rows)], \A s \in Shards : SoundRows(disk'[s]),
         clock' \in 0 .. MaxTime + 1, valueStamp' \in 0 .. MaxTime + 1,
         valueFloor' \in 0 .. MaxTime + 1, pending' \in Seq(Links), saving' \subseteq Shards,
         pending' # <<>> => clock' <= MaxTime
  PROVE  LInv'
<1>1. TypeOK'
  BY DEF LInv, TypeOK
<1>2. Derived' /\ \A s \in Shards : SoundRows(cells'[s])
  BY DEF LInv, Derived, Counts, HeldAtTheEnd
<1> QED BY <1>1, <1>2 DEF LInv

\* A step that rewrites the rows of one shard.
LEMMA RowsStep ==
  ASSUME LInv, cells' \in [Shards -> Seq(Rows)], \A s \in Shards : SoundRows(cells'[s]),
         Derived', adj' \in [Edges -> Nat], UNCHANGED <<valueStamp, valueFloor, disk>>,
         clock' \in 0 .. MaxTime + 1, pending' \in Seq(Links), saving' \subseteq Shards,
         pending' # <<>> => clock' <= MaxTime
  PROVE  LInv'
<1>1. openBy' \in [Shards -> [Edges -> Seq(Nat)]]
  <2>1. PICK then \in [Shards -> Seq(Rows)] : then = cells'
    OBVIOUS
  <2>2. [s \in Shards |-> RebuiltOpen(then[s])] \in [Shards -> [Edges -> Seq(Nat)]]
    BY RebuiltTypes
  <2>3. openBy' = [s \in Shards |-> RebuiltOpen(then[s])]
    BY <2>1 DEF Derived
  <2> QED BY <2>2, <2>3
<1>3. TypeOK'
  BY <1>1 DEF LInv, TypeOK
<1> QED BY <1>3 DEF LInv

\* Every step keeps the invariant: a commit of values or links moves the clock,
\* an application or an unlink rewrites one shard, and the rest copy or reload.
LEMMA LInvNext == LInv /\ [Next]_vars => LInv'
<1> SUFFICES ASSUME LInv, [Next]_vars PROVE LInv'
  OBVIOUS
<1>1. /\ cells \in [Shards -> Seq(Rows)] /\ disk \in [Shards -> Seq(Rows)]
      /\ \A s \in Shards : SoundRows(cells[s]) /\ SoundRows(disk[s])
      /\ clock \in 0 .. MaxTime + 1
      /\ valueStamp \in 0 .. MaxTime + 1 /\ valueFloor \in 0 .. MaxTime + 1
      /\ pending \in Seq(Links) /\ saving \subseteq Shards
      /\ pending # <<>> => clock <= MaxTime
      /\ MaxTime \in Nat
  BY TimeAssumption DEF LInv, TypeOK
<1>2. \A t \in 0 .. MaxTime : t \in 0 .. MaxTime + 1
  BY <1>1
<1>3. ASSUME NEW t \in 0 .. MaxTime, NEW saved \in BOOLEAN, NEW e \in {t, t + 1},
             CommitValues(t, e, saved)
      PROVE  LInv'
  <2>1. clock' = t /\ valueStamp' \in 0 .. MaxTime + 1 /\ valueFloor' \in 0 .. MaxTime + 1
    BY <1>3, StampedValues
  <2>2. UNCHANGED <<cells, openBy, adj, pending, saving, disk>> /\ pending = <<>>
    BY <1>3 DEF CommitValues, Idle
  <2> QED BY <1>1, <1>2, <2>1, <2>2, QuietStep
<1>4. ASSUME NEW s \in Shards, NEW links \in Batches, NEW t \in 0 .. MaxTime,
             CommitLinks(s, links, t)
      PROVE  LInv'
  <2>1. links \in Seq(Links)
    <3>1. PICK n \in 1 .. MaxBatch : links \in [1 .. n -> Links]
      BY DEF Batches
    <3>2. n \in Nat
      BY <3>1
    <3> QED BY <3>1, <3>2
  <2>2. /\ UNCHANGED <<cells, openBy, adj, valueStamp, valueFloor, saving, disk>>
        /\ clock' = t /\ pending' = links
    BY <1>4 DEF CommitLinks, Stamp
  <2>3. clock' \in 0 .. MaxTime + 1 /\ clock' <= MaxTime
    BY <1>1, <1>2, <2>2
  <2> QED BY <1>1, <2>1, <2>2, <2>3, QuietStep
<1>5. CASE ApplyLink
  <2>1. /\ cells' \in [Shards -> Seq(Rows)] /\ \A s \in Shards : SoundRows(cells'[s])
        /\ Derived' /\ adj' \in [Edges -> Nat]
    BY <1>5, ApplyLinkStep
  <2>2. /\ pending # <<>> /\ UNCHANGED <<clock, valueStamp, valueFloor, disk>>
        /\ pending' = Tail(pending) /\ saving' \subseteq {Head(pending).shard}
    BY <1>5 DEF ApplyLink
  <2>3. Head(pending) \in Links /\ Tail(pending) \in Seq(Links)
    BY <1>1, <2>2
  <2>4. clock' \in 0 .. MaxTime + 1 /\ clock' <= MaxTime /\ saving' \subseteq Shards
    BY <1>1, <2>2, <2>3 DEF Links
  <2> QED BY <2>1, <2>2, <2>3, <2>4, RowsStep
<1>6. ASSUME NEW s \in Shards, NEW p \in Edges, NEW t \in 0 .. MaxTime, Unlink(s, p, t)
      PROVE  LInv'
  <2>1. /\ cells' \in [Shards -> Seq(Rows)] /\ \A u \in Shards : SoundRows(cells'[u])
        /\ Derived' /\ adj' \in [Edges -> Nat]
    BY <1>6, UnlinkStep
  <2>2. /\ UNCHANGED <<valueStamp, valueFloor, pending, disk>>
        /\ clock' = t /\ saving' = {s}
    BY <1>6 DEF Unlink, Stamp
  <2>3. clock' \in 0 .. MaxTime + 1 /\ clock' <= MaxTime
    BY <1>1, <1>2, <2>2
  <2> QED BY <1>1, <2>1, <2>2, <2>3, RowsStep
<1>7. ASSUME NEW s \in Shards, Save(s) PROVE LInv'
  <2>1. /\ UNCHANGED <<cells, openBy, adj, clock, valueStamp, valueFloor, pending>>
        /\ disk' = [disk EXCEPT ![s] = cells[s]] /\ saving' = {}
    BY <1>7 DEF Save
  <2>2. disk' \in [Shards -> Seq(Rows)] /\ \A u \in Shards : SoundRows(disk'[u])
    BY <1>1, <2>1
  <2> QED BY <1>1, <2>1, <2>2, QuietStep
<1>8. ASSUME NEW s \in Shards, SaveFails(s) PROVE LInv'
  <2>1. /\ UNCHANGED <<cells, openBy, adj, clock, valueStamp, valueFloor, pending, disk>>
        /\ saving' = {}
    BY <1>8 DEF SaveFails
  <2> QED BY <1>1, <2>1, QuietStep
<1>9. CASE RebuildIndexes
  <2>1. UNCHANGED <<cells, clock, valueStamp, valueFloor, pending, saving, disk>>
    BY <1>9 DEF RebuildIndexes
  <2>2. openBy' = openBy /\ adj' = RebuiltAdj(cells)
    BY <1>9 DEF RebuildIndexes, LInv, Derived
  <2>3. adj' \in [Edges -> Nat]
    BY <1>1, <2>2, RebuiltTypes
  <2>4. Derived'
    <3>1. \A p \in Edges : RebuiltAdj(cells)[p] \in Nat
      BY <2>2, <2>3
    <3> QED BY <2>1, <2>2, <3>1 DEF LInv, Derived, Counts
  <2> QED BY <1>1, <2>1, <2>3, <2>4, RowsStep
<1>10. CASE Reopen
  <2>1. /\ Load(disk) /\ clock' = valueFloor /\ valueStamp' = valueFloor
        /\ UNCHANGED <<valueFloor, disk>>
    BY <1>10 DEF Reopen
  <2> QED BY <1>1, <2>1, LoadStep
<1>11. CASE Migrate
  <2>1. /\ Load(cells) /\ disk' = cells /\ valueFloor' = valueStamp
        /\ clock' = PortedFloor(cells) /\ UNCHANGED valueStamp
    BY <1>11 DEF Migrate
  <2>2. clock' \in 0 .. MaxTime + 1
    BY <2>1, PortedFloorBounded
  <2> QED BY <1>1, <2>1, <2>2, LoadStep
<1>12. CASE UNCHANGED vars
  BY <1>1, <1>12, QuietStep DEF vars
<1> QED BY <1>3, <1>4, <1>5, <1>6, <1>7, <1>8, <1>9, <1>10, <1>11, <1>12 DEF Next, Running

\* What an audit of the strict past answers changes in no step but a reopening.
LEMMA PastNext ==
  ASSUME LInv, [Next]_vars
  PROVE  \/ Reopen
         \/ \A s \in Shards, v \in Instants, at \in 0 .. MaxTime :
              at < clock => LinkedKnown(cells', s, v, at) = LinkedKnown(cells, s, v, at)
<1> DEFINE Stays == \A at \in 0 .. MaxTime : at < clock => SamePast(cells, cells', at)
<1>1. UNCHANGED cells => Stays
  BY DEF SamePast
<1>2. ASSUME NEW t \in 0 .. MaxTime, NEW saved \in BOOLEAN, NEW e \in {t, t + 1},
             CommitValues(t, e, saved)
      PROVE  UNCHANGED cells
  BY <1>2 DEF CommitValues
<1>3. ASSUME NEW s \in Shards, NEW links \in Batches, NEW t \in 0 .. MaxTime,
             CommitLinks(s, links, t)
      PROVE  UNCHANGED cells
  BY <1>3 DEF CommitLinks
<1>4. ASSUME ApplyLink PROVE Stays
  BY <1>4, ApplyLinkStep
<1>5. ASSUME NEW s \in Shards, NEW p \in Edges, NEW t \in 0 .. MaxTime, Unlink(s, p, t)
      PROVE  Stays
  BY <1>5, UnlinkStep
<1>6. ASSUME NEW s \in Shards, Save(s) \/ SaveFails(s) PROVE UNCHANGED cells
  BY <1>6 DEF Save, SaveFails
<1>7. RebuildIndexes \/ Migrate \/ UNCHANGED vars => UNCHANGED cells
  BY DEF RebuildIndexes, Migrate, Load, vars
<1>8. Stays \/ Reopen
  <2> HIDE DEF Stays
  <2> QED BY <1>1, <1>2, <1>3, <1>4, <1>5, <1>6, <1>7 DEF Next, Running
<1> QED BY <1>8 DEF SamePast

-----------------------------------------------------------------------------
(* Traversal.                                                              *)

\* A walk of d edges from u to n, by its nodes.
Hops(graph, u, n, d) ==
  \E p \in [1 .. d + 1 -> Nodes] :
    p[1] = u /\ p[d + 1] = n /\ \A i \in 1 .. d : <<p[i], p[i + 1]>> \in graph

LEMMA WalkHops ==
  ASSUME NEW graph, NEW u \in Nodes, NEW n \in Nodes, NEW depth \in Nat
  PROVE  Walk(graph, u, n, depth) <=> \E d \in 1 .. depth : Hops(graph, u, n, d)
<1> DEFINE Path(via) == <<u>> \o via \o <<n>>
           Along(q, d) == \A i \in 1 .. d : <<q[i], q[i + 1]>> \in graph
<1>1. ASSUME NEW d \in 1 .. depth, NEW via \in [1 .. d - 1 -> Nodes]
      PROVE  /\ Path(via)[1] = u /\ Path(via)[d + 1] = n
             /\ \A i \in 1 .. d - 1 : Path(via)[i + 1] = via[i]
  <2>1. d \in Nat /\ d >= 1 /\ d - 1 \in Nat
    OBVIOUS
  <2>2. via \in Seq(Nodes) /\ Len(via) = d - 1
    BY <2>1
  <2>3. <<u>> \o via \in Seq(Nodes) /\ Len(<<u>> \o via) = d
    BY <2>1, <2>2
  <2>4. (<<u>> \o via)[1] = u /\ \A i \in 1 .. d - 1 : (<<u>> \o via)[i + 1] = via[i]
    BY <2>1, <2>2
  <2> DEFINE front == <<u>> \o via
  <2> HIDE DEF front
  <2>5. \A i \in 1 .. d : (front \o <<n>>)[i] = front[i]
    BY <2>1, <2>3 DEF front
  <2>6. (front \o <<n>>)[d + 1] = n
    BY <2>1, <2>3 DEF front
  <2>7. Path(via) = front \o <<n>>
    BY DEF front
  <2>8. 1 \in 1 .. d /\ \A i \in 1 .. d - 1 : i + 1 \in 1 .. d
    BY <2>1
  <2> HIDE DEF Path
  <2>9. Path(via)[1] = u
    BY <2>4, <2>5, <2>7, <2>8 DEF front
  <2>10. \A i \in 1 .. d - 1 : Path(via)[i + 1] = via[i]
    BY <2>4, <2>5, <2>7, <2>8 DEF front
  <2> QED BY <2>6, <2>7, <2>9, <2>10
<1>2. Walk(graph, u, n, depth)
        <=> \E d \in 1 .. depth : \E via \in [1 .. d - 1 -> Nodes] : Along(Path(via), d)
  BY DEF Walk
<1> HIDE DEF Path
<1>3. ASSUME NEW d \in 1 .. depth, NEW via \in [1 .. d - 1 -> Nodes], Along(Path(via), d)
      PROVE  Hops(graph, u, n, d)
  <2> DEFINE q == Path(via)
             p == [i \in 1 .. d + 1 |-> q[i]]
  <2>1. d \in Nat /\ d >= 1
    OBVIOUS
  <2>2. q[1] = u /\ q[d + 1] = n /\ \A i \in 1 .. d - 1 : q[i + 1] = via[i]
    BY <1>1
  <2>3. \A i \in 1 .. d + 1 : q[i] \in Nodes
    <3> SUFFICES ASSUME NEW i \in 1 .. d + 1 PROVE q[i] \in Nodes
      OBVIOUS
    <3>1. i = 1 \/ i = d + 1 \/ (i - 1 \in 1 .. d - 1 /\ (i - 1) + 1 = i)
      BY <2>1
    <3> HIDE DEF q
    <3> QED BY <2>2, <3>1
  <2>4. \A i \in 1 .. d : <<q[i], q[i + 1]>> \in graph
    BY <1>3
  <2> HIDE DEF q
  <2>5. p \in [1 .. d + 1 -> Nodes] /\ \A i \in 1 .. d + 1 : p[i] = q[i]
    BY <2>3
  <2>6. 1 \in 1 .. d + 1 /\ d + 1 \in 1 .. d + 1 /\ \A i \in 1 .. d : i \in 1 .. d + 1 /\ i + 1 \in 1 .. d + 1
    BY <2>1
  <2> HIDE DEF p
  <2>7. p[1] = u /\ p[d + 1] = n /\ \A i \in 1 .. d : <<p[i], p[i + 1]>> \in graph
    BY <2>2, <2>4, <2>5, <2>6
  <2> QED BY <2>5, <2>7 DEF Hops
<1>4. ASSUME NEW d \in 1 .. depth, Hops(graph, u, n, d)
      PROVE  \E via \in [1 .. d - 1 -> Nodes] : Along(Path(via), d)
  <2>1. PICK p \in [1 .. d + 1 -> Nodes] :
          p[1] = u /\ p[d + 1] = n /\ \A i \in 1 .. d : <<p[i], p[i + 1]>> \in graph
    BY <1>4 DEF Hops
  <2> DEFINE via == [i \in 1 .. d - 1 |-> p[i + 1]]
  <2>2. d \in Nat /\ d >= 1
    OBVIOUS
  <2>3. via \in [1 .. d - 1 -> Nodes] /\ \A i \in 1 .. d - 1 : via[i] = p[i + 1]
    BY <2>2
  <2> HIDE DEF via
  <2>4. Path(via)[1] = u /\ Path(via)[d + 1] = n /\ \A i \in 1 .. d - 1 : Path(via)[i + 1] = via[i]
    BY <1>1, <2>3
  <2>5. \A i \in 1 .. d + 1 : Path(via)[i] = p[i]
    <3> SUFFICES ASSUME NEW i \in 1 .. d + 1 PROVE Path(via)[i] = p[i]
      OBVIOUS
    <3>1. i = 1 \/ i = d + 1 \/ (i - 1 \in 1 .. d - 1 /\ (i - 1) + 1 = i)
      BY <2>2
    <3> QED BY <2>1, <2>3, <2>4, <3>1
  <2>6. \A i \in 1 .. d : i \in 1 .. d + 1 /\ i + 1 \in 1 .. d + 1
    BY <2>2
  <2>7. Along(Path(via), d)
    BY <2>1, <2>5, <2>6
  <2> QED BY <2>3, <2>7
<1> QED BY <1>2, <1>3, <1>4

\* What is at most d hops away, u included.
Reach(graph, u, d) == {u} \cup {n \in Nodes : \E k \in 1 .. d : Hops(graph, u, n, k)}

Steps(graph, S) == UNION {StepFrom(graph, n) : n \in S}

\* One hop more reaches the neighbours of what was reached.
LEMMA ReachGrows ==
  ASSUME NEW graph, NEW u \in Nodes, NEW d \in Nat
  PROVE  Reach(graph, u, d + 1) = Reach(graph, u, d) \cup Steps(graph, Reach(graph, u, d))
<1>1. Reach(graph, u, d) \subseteq Reach(graph, u, d + 1)
  <2>1. \A k \in 1 .. d : k \in 1 .. d + 1
    OBVIOUS
  <2> QED BY <2>1 DEF Reach
<1>2. ASSUME NEW n \in Reach(graph, u, d), NEW m \in Nodes, <<n, m>> \in graph
      PROVE  m \in Reach(graph, u, d + 1)
  <2>1. PICK k \in 0 .. d : \E p \in [1 .. k + 1 -> Nodes] :
          p[1] = u /\ p[k + 1] = n /\ \A i \in 1 .. k : <<p[i], p[i + 1]>> \in graph
    <3>1. CASE n = u
      <4> DEFINE p == [i \in 1 .. 0 + 1 |-> u]
      <4>1. /\ p \in [1 .. 0 + 1 -> Nodes] /\ p[1] = u /\ p[0 + 1] = n
            /\ \A i \in 1 .. 0 : <<p[i], p[i + 1]>> \in graph
        BY <3>1
      <4>2. 0 \in 0 .. d
        OBVIOUS
      <4> HIDE DEF p
      <4> QED BY <4>1, <4>2
    <3>2. CASE n # u
      <4>1. PICK k \in 1 .. d : Hops(graph, u, n, k)
        BY <3>2 DEF Reach
      <4>2. k \in 0 .. d
        OBVIOUS
      <4> QED BY <4>1, <4>2 DEF Hops
    <3> QED BY <3>1, <3>2
  <2>2. PICK p \in [1 .. k + 1 -> Nodes] :
          p[1] = u /\ p[k + 1] = n /\ \A i \in 1 .. k : <<p[i], p[i + 1]>> \in graph
    BY <2>1
  <2> DEFINE q == [i \in 1 .. (k + 1) + 1 |-> IF i = k + 2 THEN m ELSE p[i]]
  <2>3. k \in Nat /\ k + 1 \in 1 .. d + 1 /\ (k + 1) + 1 = k + 2
    OBVIOUS
  <2>4. \A i \in 1 .. k + 1 : i \in 1 .. (k + 1) + 1 /\ i # k + 2
    BY <2>3
  <2>5. q \in [1 .. (k + 1) + 1 -> Nodes]
    <3>1. \A i \in 1 .. (k + 1) + 1 : i = k + 2 \/ i \in 1 .. k + 1
      BY <2>3
    <3> QED BY <3>1
  <2>6. \A i \in 1 .. k + 1 : q[i] = p[i]
    BY <2>4
  <2>7. q[(k + 1) + 1] = m
    <3>1. (k + 1) + 1 \in 1 .. (k + 1) + 1
      BY <2>3
    <3> QED BY <2>3, <3>1
  <2> HIDE DEF q
  <2>8. q[1] = u
    <3>1. 1 \in 1 .. k + 1
      BY <2>3
    <3> QED BY <2>2, <2>6, <3>1
  <2>9. \A i \in 1 .. k + 1 : <<q[i], q[i + 1]>> \in graph
    <3> SUFFICES ASSUME NEW i \in 1 .. k + 1 PROVE <<q[i], q[i + 1]>> \in graph
      OBVIOUS
    <3>1. CASE i = k + 1
      <4>1. q[i] = n /\ q[i + 1] = m
        <5>1. k + 1 \in 1 .. k + 1
          BY <2>3
        <5> QED BY <2>2, <2>6, <2>7, <3>1, <5>1
      <4> QED BY <1>2, <4>1
    <3>2. CASE i # k + 1
      <4>1. i \in 1 .. k /\ i + 1 \in 1 .. k + 1
        BY <2>3, <3>2
      <4> QED BY <2>2, <2>6, <4>1
    <3> QED BY <3>1, <3>2
  <2>10. Hops(graph, u, m, k + 1)
    BY <2>5, <2>7, <2>8, <2>9 DEF Hops
  <2> QED BY <2>3, <2>10 DEF Reach
<1>3. ASSUME NEW m \in Reach(graph, u, d + 1), m \notin Reach(graph, u, d)
      PROVE  m \in Steps(graph, Reach(graph, u, d))
  <2>1. PICK k \in 1 .. d + 1 : Hops(graph, u, m, k)
    BY <1>3 DEF Reach
  <2>2. m \in Nodes /\ k \notin 1 .. d
    BY <1>3, <2>1 DEF Reach
  <2>3. k = d + 1
    BY <2>2
  <2>4. PICK p \in [1 .. (d + 1) + 1 -> Nodes] :
          p[1] = u /\ p[(d + 1) + 1] = m /\ \A i \in 1 .. d + 1 : <<p[i], p[i + 1]>> \in graph
    BY <2>1, <2>3 DEF Hops
  <2>5. d + 1 \in 1 .. d + 1 /\ d + 1 \in 1 .. (d + 1) + 1
    OBVIOUS
  <2>6. <<p[d + 1], m>> \in graph /\ p[d + 1] \in Nodes
    BY <2>4, <2>5
  <2>7. p[d + 1] \in Reach(graph, u, d)
    <3>1. CASE d = 0
      BY <2>4, <3>1 DEF Reach
    <3>2. CASE d # 0
      <4> DEFINE q == [i \in 1 .. d + 1 |-> p[i]]
      <4>1. \A i \in 1 .. d + 1 : i \in 1 .. (d + 1) + 1
        OBVIOUS
      <4>2. q \in [1 .. d + 1 -> Nodes] /\ \A i \in 1 .. d + 1 : q[i] = p[i]
        BY <4>1
      <4>3. 1 \in 1 .. d + 1 /\ \A i \in 1 .. d : i \in 1 .. d + 1 /\ i + 1 \in 1 .. d + 1
        OBVIOUS
      <4> HIDE DEF q
      <4>4. q[1] = u /\ q[d + 1] = p[d + 1] /\ \A i \in 1 .. d : <<q[i], q[i + 1]>> \in graph
        BY <2>4, <2>5, <4>2, <4>3
      <4>5. Hops(graph, u, p[d + 1], d)
        BY <4>2, <4>4 DEF Hops
      <4>6. d \in 1 .. d
        BY <3>2
      <4> QED BY <2>6, <4>5, <4>6 DEF Reach
    <3> QED BY <3>1, <3>2
  <2>8. m \in StepFrom(graph, p[d + 1])
    BY <2>2, <2>6 DEF StepFrom
  <2> QED BY <2>7, <2>8 DEF Steps
<1>4. Steps(graph, Reach(graph, u, d)) \subseteq Reach(graph, u, d + 1)
  BY <1>2 DEF Steps, StepFrom
<1> QED BY <1>1, <1>3, <1>4

\* The search after d rounds.
Searched(graph, u, d) ==
  [seen |-> Reach(graph, u, d),
   frontier |-> IF d = 0 THEN {u} ELSE Reach(graph, u, d) \ Reach(graph, u, d - 1)]

\* A round widens by the neighbours of the frontier alone: those of the nodes
\* seen before it have been seen.
LEMMA SearchWidens ==
  ASSUME NEW graph, NEW u \in Nodes, NEW d \in Nat
  PROVE  Widen(graph, Searched(graph, u, d), u) = Searched(graph, u, d + 1)
<1> DEFINE R == Reach(graph, u, d)
           b == Searched(graph, u, d)
           next == Steps(graph, b.frontier) \ R
<1>1. b.seen = R /\ b.frontier = IF d = 0 THEN {u} ELSE R \ Reach(graph, u, d - 1)
  BY DEF Searched
<1>2. Reach(graph, u, d + 1) = R \cup Steps(graph, R)
  BY ReachGrows
<1>3. Steps(graph, R) \subseteq R \cup Steps(graph, b.frontier)
  <2>1. CASE d = 0
    <3>1. R = {u}
      BY <2>1 DEF Reach
    <3> QED BY <1>1, <2>1, <3>1
  <2>2. CASE d # 0
    <3>1. d - 1 \in Nat /\ (d - 1) + 1 = d
      BY <2>2
    <3>2. Reach(graph, u, (d - 1) + 1) = Reach(graph, u, d - 1) \cup Steps(graph, Reach(graph, u, d - 1))
      BY <3>1, ReachGrows
    <3>3. R = Reach(graph, u, d - 1) \cup Steps(graph, Reach(graph, u, d - 1))
      BY <3>1, <3>2
    <3> HIDE DEF R, b
    <3> QED BY <1>1, <2>2, <3>3 DEF Steps
  <2> QED BY <2>1, <2>2
<1>4. b.frontier \subseteq R
  BY <1>1 DEF Reach
<1>5. next = Reach(graph, u, d + 1) \ R
  <2>1. Steps(graph, b.frontier) \subseteq Steps(graph, R)
    BY <1>4 DEF Steps
  <2> HIDE DEF R, b
  <2> QED BY <1>2, <1>3, <2>1
<1>6. d + 1 # 0 /\ (d + 1) - 1 = d
  OBVIOUS
<1>7. Searched(graph, u, d + 1) = [seen |-> Reach(graph, u, d + 1), frontier |-> Reach(graph, u, d + 1) \ R]
  BY <1>6 DEF Searched
<1>8. Widen(graph, b, u) = [seen |-> R \cup next, frontier |-> next]
  <2> HIDE DEF R, b
  <2>1. (UNION {StepFrom(graph, n) : n \in b.frontier}) \ b.seen = next
    BY <1>1 DEF Steps
  <2> QED BY <1>1, <2>1 DEF Widen
<1>9. R \cup next = Reach(graph, u, d + 1)
  BY <1>2, <1>5
<1> QED BY <1>5, <1>7, <1>8, <1>9

\* A set of naturals has a least element.
LEMMA LeastPosition ==
  ASSUME NEW S \in SUBSET Nat, S # {}
  PROVE  \E m \in S : \A i \in S : m <= i
<1>1. IsWellFoundedOn(OpToRel(<, Nat), Nat)
  BY NatLessThanWellFounded
<1>2. PICK m \in S : \A i \in S : ~ (<<i, m>> \in OpToRel(<, Nat))
  BY <1>1, WFMin
<1>3. \A i \in S : ~ (i < m)
  BY <1>2 DEF OpToRel
<1> QED BY <1>3

\* The breadth-first search sees what is at most depth hops away.
LEMMA TraverseSees ==
  ASSUME NEW graph, NEW u \in Nodes, NEW depth \in Nat
  PROVE  Traverse(graph, u, depth) = Reach(graph, u, depth) \ {u}
<1> DEFINE Body(f) == [d \in 0 .. depth |->
                         IF d = 0 THEN [seen |-> {u}, frontier |-> {u}] ELSE Widen(graph, f[d - 1], u)]
           Fits(f) == f = Body(f)
           g == [d \in 0 .. depth |-> Searched(graph, u, d)]
           bfs == CHOOSE f : Fits(f)
<1>1. Searched(graph, u, 0) = [seen |-> {u}, frontier |-> {u}]
  <2>1. Reach(graph, u, 0) = {u}
    BY DEF Reach
  <2> QED BY <2>1 DEF Searched
<1>2. \A d \in 0 .. depth : d # 0 =>
        d - 1 \in 0 .. depth /\ Widen(graph, Searched(graph, u, d - 1), u) = Searched(graph, u, d)
  <2> SUFFICES ASSUME NEW d \in 0 .. depth, d # 0
               PROVE  d - 1 \in 0 .. depth /\ Widen(graph, Searched(graph, u, d - 1), u) = Searched(graph, u, d)
    OBVIOUS
  <2>1. d - 1 \in Nat /\ (d - 1) + 1 = d /\ d - 1 \in 0 .. depth
    OBVIOUS
  <2>2. Widen(graph, Searched(graph, u, d - 1), u) = Searched(graph, u, (d - 1) + 1)
    BY <2>1, SearchWidens
  <2> QED BY <2>1, <2>2
<1>3. Fits(g)
  BY <1>1, <1>2
<1>4. Traverse(graph, u, depth) = bfs[depth].seen \ {u}
  BY DEF Traverse
<1>5. Fits(bfs)
  <2> HIDE DEF Fits, g
  <2> QED BY <1>3, Zenon
<1>6. bfs = Body(bfs)
  BY <1>5
<1> HIDE DEF bfs
<1>7. \A d \in 0 .. depth : bfs[d] = Searched(graph, u, d)
  <2> DEFINE Wrong == {d \in 0 .. depth : bfs[d] # Searched(graph, u, d)}
  <2> SUFFICES ASSUME Wrong # {} PROVE FALSE
    OBVIOUS
  <2>1. PICK m \in Wrong : \A d \in Wrong : m <= d
    <3>1. Wrong \in SUBSET Nat
      OBVIOUS
    <3> HIDE DEF Wrong
    <3> QED BY <3>1, LeastPosition
  <2>2. bfs[m] = IF m = 0 THEN [seen |-> {u}, frontier |-> {u}] ELSE Widen(graph, bfs[m - 1], u)
    BY <1>6
  <2>3. m # 0
    BY <1>1, <2>2
  <2>4. m - 1 \in 0 .. depth /\ m - 1 \notin Wrong
    BY <2>1, <2>3
  <2>5. bfs[m - 1] = Searched(graph, u, m - 1)
    BY <2>4
  <2> QED BY <1>2, <2>2, <2>3, <2>5
<1>8. depth \in 0 .. depth
  OBVIOUS
<1>9. bfs[depth] = Searched(graph, u, depth)
  BY <1>7, <1>8
<1>10. Searched(graph, u, depth).seen = Reach(graph, u, depth)
  BY DEF Searched
<1> HIDE DEF g, Body, Fits
<1> QED BY <1>4, <1>9, <1>10

\* The index lists the pairs that have a current row, when none is held at the end of time.
LEMMA IndexedIsCurrent ==
  ASSUME LInv, \A p \in Edges : ~HeldAtTheEnd(p)
  PROVE  Indexed = LinkedCurrent
<1>1. cells \in [Shards -> Seq(Rows)] /\ \A p \in Edges : adj[p] = RebuiltAdj(cells)[p]
  BY DEF LInv, TypeOK, Derived, Counts
<1>5. \A p \in Edges : CurrentAt(cells, p) # {} <=>
        \E s \in Shards : \E i \in DOMAIN cells[s] : cells[s][i].pair = p /\ CurrentRow(cells[s][i])
  <2>1. cells \in [Shards -> Seq(Rows)]
    BY <1>1
  <2> QED BY <2>1, CurrentPlaces
<1> SUFFICES ASSUME NEW p \in Edges PROVE adj[p] > 0 <=> CurrentAt(cells, p) # {}
  <2>1. LinkedCurrent = {p \in Edges : CurrentAt(cells, p) # {}}
    BY <1>5 DEF LinkedCurrent
  <2> QED BY <2>1 DEF Indexed
<1>2. adj[p] = Cardinality(CurrentAt(cells, p))
  BY <1>1 DEF RebuiltAdj, CurrentAt
<1>3. IsFiniteSet(CurrentAt(cells, p))
  BY <1>1, CurrentPlaces
<1>4. /\ Cardinality(CurrentAt(cells, p)) \in Nat
      /\ Cardinality(CurrentAt(cells, p)) = 0 <=> CurrentAt(cells, p) = {}
  BY <1>3, FS_CardinalityType, FS_EmptySet
<1> QED BY <1>2, <1>4

-----------------------------------------------------------------------------
(* The theorems.                                                           *)

\* In every state of the link store rows are well formed and stamped within the
\* bounds, open rows of a pair are disjoint in memory and in the files, the open
\* lists are those of a rebuild, and so is the count of every pair that has no row
\* from the last instant on.
THEOREM LinkInvariance == Spec => []LInv
BY LInvInit, LInvNext, PTL DEF Spec

\* The adjacency counts and the open lists that link, unlink, failed saves,
\* reopenings and migrations keep up are the ones rebuild_indexes and
\* rebuild_adjacency would compute from the rows; a pair with a row from the last
\* instant on may be counted less often than it is linked, never more often.
THEOREM IndexStaysDerived == Spec => []AdjacencyIsDerived
<1>1. LInv => AdjacencyIsDerived
  BY DEF LInv, Derived, Counts, AdjacencyIsDerived
<1> QED BY <1>1, LinkInvariance, PTL

\* Two system-open rows of a pair never overlap in world time: an unlink that
\* closes the last open row leaves no other that asserts the pair from now on.
THEOREM OpenLinksStayDisjoint == Spec => []OpenLinksDisjoint
<1>1. LInv => OpenLinksDisjoint
  BY DEF LInv, SoundRows, OpenLinksDisjoint
<1> QED BY <1>1, LinkInvariance, PTL

\* Nothing a running store does changes what an audit of an instant before its
\* clock answers about the links of a shard.
THEOREM LinkPastStaysFrozen == Spec => LinkPastFrozen
<1>1. LInv /\ [Next]_vars =>
        [\/ Reopen
         \/ \A s \in Shards, v \in Instants, at \in 0 .. MaxTime :
              at < clock => LinkedKnown(cells', s, v, at) = LinkedKnown(cells, s, v, at)]_vars
  BY PastNext
<1> QED BY <1>1, LinkInvariance, PTL DEF Spec, LinkPastFrozen

\* Over any finite set of nodes, the search over the index and the one over the
\* rows find exactly the nodes within the given number of hops (traverse); those of
\* what the index holds, where a pair is held from the last instant on.
THEOREM TraverseAlwaysReaches == IsFiniteSet(Nodes) => (Spec => []TraverseReaches)
<1> SUFFICES ASSUME IsFiniteSet(Nodes) PROVE Spec => []TraverseReaches
  OBVIOUS
<1>1. ASSUME NEW graph, NEW u \in Nodes, NEW depth \in 1 .. Cardinality(Nodes)
      PROVE  Traverse(graph, u, depth) = {n \in Nodes \ {u} : Walk(graph, u, n, depth)}
  <2>1. depth \in Nat
    BY FS_CardinalityType
  <2>2. Traverse(graph, u, depth) = Reach(graph, u, depth) \ {u}
    BY <2>1, TraverseSees
  <2>3. \A n \in Nodes : Walk(graph, u, n, depth) <=> \E d \in 1 .. depth : Hops(graph, u, n, d)
    BY <2>1, WalkHops
  <2> QED BY <2>2, <2>3 DEF Reach
<1>2. LInv => TraverseReaches
  BY <1>1, IndexedIsCurrent DEF TraverseReaches
<1> QED BY <1>2, LinkInvariance, PTL
=============================================================================

-------------------------- MODULE Playground_proofs --------------------------
(***************************************************************************)
(* Theorems about Playground, for any number of builds, clients, datasets  *)
(* and any bounds: requests read a built world and nothing opened or       *)
(* cached of another, and a client gets the tail of the log exactly.       *)
(*                                                                         *)
(* PInv is inductive.  Stage ties the place of a worker to the status that *)
(* is shown and to the disk; LogShape says that a log holds consecutive    *)
(* numbers, the last ones; ClientSound, that a client has no gap below     *)
(* what it has got or been sent, as far as the log still goes back;        *)
(* PageSound, that what it draws and queues is of what it got, in order.   *)
(***************************************************************************)
EXTENDS Playground, Subsequences_proofs, SequenceTheorems

WorkerStates == {"unborn", "build", "concluded", "done", "failed", "over"}
Statuses == {"none", "running", "done", "error", "gone"}
Clients == [at : {"idle", "polling", "replied", "leaving", "over"}, shown : Statuses,
            events : Seq(Nat), got : Seq(Nat), drawn : Seq(Nat), queue : Seq(Nat),
            frame : {"none", "asked", "lost"}]

Types ==
  /\ worker \in [Jobs -> WorkerStates] /\ status \in [Jobs -> Statuses]
  /\ log \in [Jobs -> [kept : Seq(Nat), next : Nat]]
  /\ client \in [Jobs -> Clients]
  /\ poll = None \/ poll \in [job : Jobs, shown : Statuses]
  /\ chosen \in [Jobs -> SUBSET Datasets] /\ selected \in SUBSET Datasets
  /\ onDisk \in SUBSET Jobs
  /\ active \in Worlds /\ edition \in [Worlds -> 0 .. MaxEdits]

\* The numbers kept are the last ones given out.
LogShape(l) ==
  /\ l.kept \in Seq(Nat) /\ l.next \in Nat \ {0}
  /\ Len(l.kept) <= MaxEvents /\ Len(l.kept) < l.next
  /\ \A i \in DOMAIN l.kept : l.kept[i] = l.next - 1 - Len(l.kept) + i

\* Where a worker is, what its status says, and what is on disk.
Stage(at, st, written, next) ==
  /\ at = "unborn" <=> st = "none"
  /\ at \in {"build", "concluded"} <=> st = "running"
  /\ at = "done" => st = "done"
  /\ at = "failed" => st = "error"
  /\ at \in {"concluded", "done"} => written
  /\ at \in {"unborn", "build", "failed"} => next <= MaxFinds + 1
  /\ next <= MaxFinds + 2

\* What is drawn and what waits is some of what was got, in its order, and all of
\* it until a frame is lost.
PageSound(c) ==
  /\ Increasing(Comes(c)) /\ Range(Comes(c)) \subseteq Range(c.got)
  /\ c.frame # "lost" => Comes(c) = c.got /\ (c.queue # <<>> <=> c.frame = "asked")

\* A client has no gap below what it has got or been sent, it has been sent
\* nothing the log has not given out, and one told "done" got everything.
ClientSound(c, l, st) ==
  /\ PageSound(c)
  /\ Increasing(c.events) /\ Increasing(c.got)
  /\ \A e \in Range(l.kept) : e <= LastSeen(c) => e \in Range(c.got)
  /\ \A e \in Range(l.kept), x \in Range(c.events) : e <= x => e \in Range(c.events)
  /\ st # "gone" => LastSeen(c) < l.next /\ \A x \in Range(c.events) : x < l.next
  /\ st = "none" => c.at = "idle" /\ c.got = <<>> /\ c.events = <<>>
  /\ c.shown = "done" =>
       /\ st \in {"done", "gone"}
       /\ c.at = "replied" => Range(l.kept) \subseteq Range(c.events)
       /\ c.at \in {"leaving", "over"} /\ st # "gone" => Range(l.kept) \subseteq Range(c.got)

\* The poll under way is of a build of this server, and not ahead of it.
PollSound ==
  poll # None => /\ status[poll.job] \notin {"none", "gone"}
                 /\ poll.shown = "done" => status[poll.job] = "done"

JobSound(j) ==
  /\ LogShape(log[j])
  /\ Stage(worker[j], status[j], j \in onDisk, log[j].next)
  /\ ClientSound(client[j], log[j], status[j])

PInv ==
  /\ Types
  /\ \A j \in Jobs : JobSound(j)
  /\ PollSound
  /\ ActiveIsBuilt /\ CachesOfActiveWorld

-----------------------------------------------------------------------------
(* The event log.                                                          *)

\* emit() gives out the next number and keeps the last ones.
LEMMA EmittedShape ==
  ASSUME NEW l \in [kept : Seq(Nat), next : Nat], LogShape(l)
  PROVE  /\ LogShape(Emitted(l)) /\ Emitted(l).next = l.next + 1
         /\ Emitted(l) \in [kept : Seq(Nat), next : Nat]
         /\ \A e \in Range(Emitted(l).kept) : e \in Range(l.kept) \/ e = l.next
<1> DEFINE all == Append(l.kept, l.next)
           drop == IF Len(all) > MaxEvents THEN Len(all) - MaxEvents ELSE 0
           kept == SubSeq(all, drop + 1, Len(all))
<1>1. /\ l.kept \in Seq(Nat) /\ l.next \in Nat \ {0} /\ Len(l.kept) \in Nat
      /\ Len(l.kept) <= MaxEvents /\ Len(l.kept) < l.next
      /\ MaxEvents \in Nat \ {0}
      /\ \A i \in 1 .. Len(l.kept) : l.kept[i] = l.next - 1 - Len(l.kept) + i
  BY BoundAssumption DEF LogShape
<1>2. /\ all \in Seq(Nat) /\ Len(all) = Len(l.kept) + 1
      /\ \A i \in 1 .. Len(all) : all[i] = IF i <= Len(l.kept) THEN l.kept[i] ELSE l.next
  BY <1>1
<1> HIDE DEF all
<1>3. ASSUME NEW i \in 1 .. Len(all) PROVE all[i] = l.next - Len(all) + i
  <2>1. i \in Nat /\ 1 <= i /\ i <= Len(l.kept) + 1
    BY <1>1, <1>2
  <2>2. CASE i <= Len(l.kept)
    <3>1. i \in 1 .. Len(l.kept) /\ all[i] = l.kept[i]
      BY <1>1, <1>2, <2>1, <2>2
    <3>2. l.kept[i] = l.next - 1 - Len(l.kept) + i
      BY <1>1, <3>1
    <3> QED BY <1>1, <1>2, <2>1, <3>1, <3>2
  <2>3. CASE i = Len(l.kept) + 1
    <3>1. all[i] = l.next
      BY <1>1, <1>2, <2>1, <2>3
    <3> QED BY <1>1, <1>2, <2>3, <3>1
  <2> QED BY <1>1, <2>1, <2>2, <2>3
<1>4. drop \in Nat /\ drop <= Len(all) /\ Len(all) - drop <= MaxEvents /\ drop < Len(all)
  BY <1>1, <1>2
<1> HIDE DEF drop
<1>5. /\ kept \in Seq(Nat) /\ Len(kept) = Len(all) - drop
      /\ \A i \in 1 .. Len(kept) : kept[i] = all[drop + i]
  BY <1>1, <1>2, <1>4, SMTT(20)
<1> HIDE DEF kept
<1>6. Emitted(l) = [kept |-> kept, next |-> l.next + 1]
  BY DEF Emitted, all, drop, kept
<1>7. \A i \in 1 .. Len(kept) : kept[i] = l.next + 1 - 1 - Len(kept) + i
  BY <1>1, <1>2, <1>3, <1>4, <1>5
<1>8. LogShape(Emitted(l))
  <2>1. DOMAIN kept = 1 .. Len(kept)
    BY <1>5
  <2>2. Len(kept) <= MaxEvents /\ Len(kept) < l.next + 1 /\ l.next + 1 \in Nat \ {0}
    BY <1>1, <1>2, <1>4, <1>5, SMTT(20)
  <2> QED BY <1>5, <1>6, <1>7, <2>1, <2>2 DEF LogShape
<1>9. ASSUME NEW e \in Range(kept) PROVE e \in Range(l.kept) \/ e = l.next
  <2>1. PICK i \in 1 .. Len(kept) : e = kept[i]
    BY <1>5 DEF Range
  <2>2. drop + i \in 1 .. Len(all) /\ e = all[drop + i]
    BY <1>2, <1>4, <1>5, <2>1
  <2>3. CASE drop + i <= Len(l.kept)
    <3>0. drop + i \in Nat /\ drop + i >= 1
      BY <1>4, <1>5, <2>2
    <3>1. drop + i \in 1 .. Len(l.kept) /\ e = l.kept[drop + i]
      <4>1. e = l.kept[drop + i]
        BY <1>2, <2>2, <2>3
      <4> QED BY <1>1, <2>3, <3>0, <4>1
    <3>2. drop + i \in DOMAIN l.kept
      BY <1>1, <3>1
    <3> QED BY <3>1, <3>2 DEF Range
  <2>4. CASE ~(drop + i <= Len(l.kept))
    BY <1>2, <2>2, <2>4
  <2> QED BY <2>3, <2>4
<1> QED BY <1>1, <1>5, <1>6, <1>8, <1>9

\* What is above a number, of increasing ones.
LEMMA Above ==
  ASSUME NEW s \in Seq(Nat), Increasing(s), NEW k \in Nat
  PROVE  LET W == Where(s, LAMBDA e : e > k)
         IN  W \in Seq(Nat) /\ Increasing(W) /\ Range(W) = {e \in Range(s) : e > k}
<1> DEFINE I == {i \in DOMAIN s : s[i] > k}
<1>1. I \in SUBSET DOMAIN s
  OBVIOUS
<1>2. Where(s, LAMBDA e : e > k) = At(s, I)
  BY DEF Where
<1>3. \A i \in DOMAIN s : i \in I <=> s[i] > k
  OBVIOUS
<1> HIDE DEF I
<1>4. /\ At(s, I) \in Seq(Nat)
      /\ \A n \in DOMAIN At(s, I) : Nth(I, n) \in I /\ At(s, I)[n] = s[Nth(I, n)]
      /\ \A i \in I : \E n \in DOMAIN At(s, I) : Nth(I, n) = i
  BY <1>1, AtPositions
<1>5. Increasing(At(s, I))
  BY <1>1, AtIncreasing
<1>6. ASSUME NEW e \in Range(At(s, I)) PROVE e \in Range(s) /\ e > k
  <2>1. PICK n \in DOMAIN At(s, I) : e = At(s, I)[n]
    BY DEF Range
  <2>2. Nth(I, n) \in I /\ e = s[Nth(I, n)]
    BY <1>4, <2>1
  <2> QED BY <1>1, <1>3, <2>2 DEF Range
<1>7. ASSUME NEW e \in Range(s), e > k PROVE e \in Range(At(s, I))
  <2>1. PICK i \in DOMAIN s : e = s[i]
    BY DEF Range
  <2>2. i \in I
    BY <1>3, <1>7, <2>1
  <2>3. PICK n \in DOMAIN At(s, I) : Nth(I, n) = i
    BY <1>4, <2>2
  <2> QED BY <1>4, <2>1, <2>3 DEF Range
<1> QED BY <1>2, <1>4, <1>5, <1>6, <1>7

\* The client asks for everything above 0, which is everything.
LEMMA AllEvents ==
  ASSUME NEW l, LogShape(l)
  PROVE  /\ EventsSince(l, 0) \in Seq(Nat) /\ Increasing(EventsSince(l, 0))
         /\ Range(EventsSince(l, 0)) = Range(l.kept)
         /\ l.kept \in Seq(1 .. l.next - 1)
         /\ \A e \in Range(l.kept) : e \in Nat /\ e < l.next
<1>1. /\ l.kept \in Seq(Nat) /\ l.next \in Nat \ {0} /\ Len(l.kept) \in Nat /\ Len(l.kept) < l.next
      /\ DOMAIN l.kept = 1 .. Len(l.kept)
      /\ \A i \in 1 .. Len(l.kept) : l.kept[i] = l.next - 1 - Len(l.kept) + i
  BY DEF LogShape
<1>2. \A i \in DOMAIN l.kept : l.kept[i] \in Nat /\ l.kept[i] > 0 /\ l.kept[i] < l.next
  <2> SUFFICES ASSUME NEW i \in DOMAIN l.kept
               PROVE  l.kept[i] \in Nat /\ l.kept[i] > 0 /\ l.kept[i] < l.next
    OBVIOUS
  <2> DEFINE k == Len(l.kept)
  <2>1. i \in 1 .. k /\ k \in Nat /\ l.next \in Nat /\ k < l.next
    BY <1>1
  <2>2. l.kept[i] = l.next - 1 - k + i
    BY <1>1
  <2> HIDE DEF k
  <2> QED BY <2>1, <2>2
<1>3. Increasing(l.kept)
  <2> SUFFICES ASSUME NEW m \in 1 .. Len(l.kept), NEW n \in 1 .. Len(l.kept), m < n
               PROVE  l.kept[m] < l.kept[n]
    BY <1>1 DEF Increasing
  <2>1. l.kept[m] = l.next - 1 - Len(l.kept) + m /\ l.kept[n] = l.next - 1 - Len(l.kept) + n
    BY <1>1
  <2> QED BY <1>1, <2>1
<1>4. \A e \in Range(l.kept) : e \in Nat /\ e > 0 /\ e < l.next
  BY <1>2 DEF Range
<1>5. LET W == EventsSince(l, 0)
      IN  W \in Seq(Nat) /\ Increasing(W) /\ Range(W) = {e \in Range(l.kept) : e > 0}
  BY <1>1, <1>3, Above DEF EventsSince
<1>6. l.kept \in Seq(1 .. l.next - 1)
  <2> DEFINE Given == 1 .. l.next - 1
             s == l.kept
  <2>1. s \in Seq(Nat) /\ \A i \in 1 .. Len(s) : s[i] \in Given
    BY <1>1, <1>2, SMTT(20)
  <2> HIDE DEF Given, s
  <2>2. Len(s) \in Nat /\ s \in [1 .. Len(s) -> Given]
    BY <2>1
  <2>3. s \in Seq(Given)
    BY <2>1, <2>2
  <2> QED BY <2>3 DEF Given, s
<1> QED BY <1>4, <1>5, <1>6

\* The last number got is the highest.
LEMMA LastIsHighest ==
  ASSUME NEW c, c.got \in Seq(Nat), Increasing(c.got)
  PROVE  /\ LastSeen(c) \in Nat
         /\ \A x \in Range(c.got) : x <= LastSeen(c)
         /\ c.got # <<>> => LastSeen(c) \in Range(c.got)
<1> DEFINE s == c.got
<1>1. s \in Seq(Nat) /\ Increasing(s) /\ LastSeen(c) = (IF s = <<>> THEN 0 ELSE s[Len(s)])
  BY DEF LastSeen
<1>2. s # <<>> => Len(s) \in DOMAIN s
  BY <1>1
<1>3. s \in Seq(Nat) /\ DOMAIN s = 1 .. Len(s) /\ Len(s) \in Nat
  BY <1>1
<1>4. ASSUME NEW x \in Range(s) PROVE x <= LastSeen(c)
  <2>1. PICK i \in 1 .. Len(s) : x = s[i]
    BY <1>3 DEF Range
  <2>0. s # <<>>
    BY <1>3, <2>1
  <2>2. CASE i = Len(s)
    BY <1>1, <1>3, <2>1, <2>2
  <2>3. CASE i < Len(s)
    <3>1. s[i] < s[Len(s)]
      BY <1>1, <1>3, <2>3 DEF Increasing
    <3> QED BY <1>1, <1>2, <1>3, <2>1, <3>1
  <2> QED BY <1>3, <2>2, <2>3
<1> QED BY <1>1, <1>2, <1>3, <1>4 DEF Range

LEMMA InThree ==
  ASSUME NEW a \in Seq(Nat), NEW b \in Seq(Nat), NEW c \in Seq(Nat)
  PROVE  (a \o b) \o c = a \o (b \o c)
BY ConcatAssociative

\* A page with one of its lists, or its frame, replaced.
LEMMA PageWith ==
  ASSUME NEW c \in Clients, NEW q \in Seq(Nat), NEW f \in {"none", "asked", "lost"}
  PROVE  /\ [c EXCEPT !.got = q] \in Clients /\ [c EXCEPT !.queue = q] \in Clients
         /\ [c EXCEPT !.frame = f] \in Clients
<1>1. [c EXCEPT !.got = q] \in Clients
  BY DEF Clients
<1>2. [c EXCEPT !.queue = q] \in Clients
  BY DEF Clients
<1>3. [c EXCEPT !.frame = f] \in Clients
  BY DEF Clients
<1> QED BY <1>1, <1>2, <1>3

\* Two increasing lists in a row, the second above a bound of the first.
LEMMA InARow ==
  ASSUME NEW a \in Seq(Nat), Increasing(a), NEW b \in Seq(Nat), Increasing(b), NEW k \in Nat,
         \A x \in Range(a) : x <= k, \A x \in Range(b) : x > k
  PROVE  /\ a \o b \in Seq(Nat) /\ Increasing(a \o b)
         /\ Range(a \o b) = Range(a) \cup Range(b)
<1> DEFINE t == a \o b
<1>5. /\ t \in Seq(Nat) /\ Len(t) = Len(a) + Len(b) /\ Len(a) \in Nat /\ Len(b) \in Nat
      /\ DOMAIN t = 1 .. Len(t) /\ DOMAIN a = 1 .. Len(a) /\ DOMAIN b = 1 .. Len(b)
      /\ \A i \in DOMAIN t : t[i] = IF i <= Len(a) THEN a[i] ELSE b[i - Len(a)]
  OBVIOUS
<1>7. Range(t) = Range(a) \cup Range(b)
  BY RangeConcatenation
<1> HIDE DEF t
<1>6. \A i \in DOMAIN t : (i <= Len(a) /\ i \in DOMAIN a) \/ (i > Len(a) /\ i - Len(a) \in DOMAIN b)
  BY <1>5
<1>8. Increasing(t)
  <2> SUFFICES ASSUME NEW m \in DOMAIN t, NEW n \in DOMAIN t, m < n PROVE t[m] < t[n]
    BY DEF Increasing
  <2>0. m \in Nat /\ n \in Nat
    BY <1>5
  <2>1. CASE n <= Len(a)
    <3>1. m \in DOMAIN a /\ n \in DOMAIN a /\ t[m] = a[m] /\ t[n] = a[n]
      BY <1>5, <2>0, <2>1
    <3> QED BY <3>1 DEF Increasing
  <2>2. CASE m <= Len(a) /\ n > Len(a)
    <3>1. m \in DOMAIN a /\ n - Len(a) \in DOMAIN b /\ t[m] = a[m] /\ t[n] = b[n - Len(a)]
      BY <1>5, <1>6, <2>0, <2>2
    <3>2. t[m] \in Range(a) /\ t[n] \in Range(b)
      BY <3>1 DEF Range
    <3>3. t[m] <= k /\ t[n] > k /\ t[m] \in Nat /\ t[n] \in Nat
      BY <1>5, <3>2
    <3> QED BY <3>3
  <2>3. CASE m > Len(a)
    <3> DEFINE p == m - Len(a)
               q == n - Len(a)
    <3>1. p \in DOMAIN b /\ q \in DOMAIN b /\ p < q /\ t[m] = b[p] /\ t[n] = b[q]
      BY <1>5, <2>0, <2>3, SMTT(20)
    <3> QED BY <3>1 DEF Increasing
  <2> QED BY <1>5, <2>0, <2>1, <2>2, <2>3
<1> QED BY <1>5, <1>7, <1>8 DEF t

\* What was got after a reply: the old numbers and the fresh ones, in order.
LEMMA GotGrows ==
  ASSUME NEW c \in Clients, Increasing(c.events), Increasing(c.got),
         NEW d, d.got = c.got \o Fresh(c)
  PROVE  /\ d.got \in Seq(Nat) /\ Increasing(d.got)
         /\ Range(d.got) = Range(c.got) \cup {x \in Range(c.events) : x > LastSeen(c)}
         /\ LastSeen(d) = LastSeen(c) \/ LastSeen(d) \in Range(c.events)
         /\ Fresh(c) \in Seq(Nat) /\ Increasing(Fresh(c))
         /\ Range(Fresh(c)) = {x \in Range(c.events) : x > LastSeen(c)}
<1> DEFINE a == c.got
           b == Fresh(c)
<1>1. a \in Seq(Nat) /\ c.events \in Seq(Nat) /\ Increasing(a)
  BY DEF Clients
<1>2. LastSeen(c) \in Nat /\ \A x \in Range(a) : x <= LastSeen(c)
  BY <1>1, LastIsHighest
<1>3. b \in Seq(Nat) /\ Increasing(b) /\ Range(b) = {x \in Range(c.events) : x > LastSeen(c)}
  BY <1>1, <1>2, Above DEF Fresh
<1>4. /\ a \o b \in Seq(Nat) /\ Increasing(a \o b)
      /\ Range(a \o b) = Range(a) \cup Range(b)
  <2> HIDE DEF a, b
  <2> QED BY <1>1, <1>2, <1>3, InARow
<1>5. LastSeen(d) = (IF a \o b = <<>> THEN 0 ELSE (a \o b)[Len(a \o b)])
      /\ LastSeen(c) = (IF a = <<>> THEN 0 ELSE a[Len(a)])
  BY DEF LastSeen
<1>6. LastSeen(d) = LastSeen(c) \/ LastSeen(d) \in Range(b)
  <2> HIDE DEF a, b
  <2>1. CASE b = <<>>
    BY <1>1, <1>5, <2>1
  <2>2. CASE b # <<>>
    <3>1. Len(b) \in DOMAIN b /\ a \o b # <<>> /\ (a \o b)[Len(a \o b)] = b[Len(b)]
      BY <1>1, <1>3, <2>2
    <3> QED BY <1>5, <3>1 DEF Range
  <2> QED BY <2>1, <2>2
<1> QED BY <1>3, <1>4, <1>6

-----------------------------------------------------------------------------
(* What each step does to a client.                                        *)

LEMMA ClientNumbers ==
  ASSUME NEW c \in Clients, NEW l, NEW st, ClientSound(c, l, st), LogShape(l)
  PROVE  /\ LastSeen(c) \in Nat /\ l.next \in Nat
         /\ \A x \in Range(c.events) : x \in Nat
         /\ \A e \in Range(l.kept) : e \in Nat /\ e < l.next
<1>1. c.got \in Seq(Nat) /\ c.events \in Seq(Nat) /\ Increasing(c.got)
  BY DEF Clients, ClientSound
<1>2. \A x \in Range(c.events) : x \in Nat
  BY <1>1 DEF Range
<1> QED BY <1>1, <1>2, LastIsHighest, AllEvents DEF LogShape

\* An event goes out while the build runs or has just failed.
LEMMA ClientAfterEmit ==
  ASSUME NEW c \in Clients, NEW l \in [kept : Seq(Nat), next : Nat], LogShape(l),
         NEW st \in {"running", "error"}, ClientSound(c, l, st)
  PROVE  ClientSound(c, Emitted(l), st)
<1> DEFINE m == Emitted(l)
<1>1. /\ m.next = l.next + 1
      /\ \A e \in Range(m.kept) : e \in Range(l.kept) \/ e = l.next
  BY EmittedShape
<1>2. /\ LastSeen(c) \in Nat /\ l.next \in Nat
      /\ \A x \in Range(c.events) : x \in Nat
      /\ LastSeen(c) < l.next /\ \A x \in Range(c.events) : x < l.next
  BY ClientNumbers DEF ClientSound
<1> HIDE DEF m
<1>3. \A e \in Range(m.kept) : e <= LastSeen(c) => e \in Range(l.kept)
  BY <1>1, <1>2
<1>4. \A e \in Range(m.kept), x \in Range(c.events) : e <= x => e \in Range(l.kept)
  BY <1>1, <1>2
<1>5. LastSeen(c) < m.next /\ \A x \in Range(c.events) : x < m.next
  BY <1>1, <1>2
<1>6. c.shown # "done"
  BY DEF ClientSound
<1>7. ClientSound(c, m, st)
  BY <1>3, <1>4, <1>5, <1>6 DEF ClientSound
<1> QED BY <1>7 DEF m

\* A poll is answered with the status it read and the events of now.
LEMMA ClientAfterPoll ==
  ASSUME NEW c \in Clients, NEW l, LogShape(l), NEW st \in Statuses \ {"none"},
         ClientSound(c, l, st), NEW shown \in Statuses, shown = "done" => st = "done",
         NEW d, d = [c EXCEPT !.at = "replied", !.shown = shown,
                              !.events = EventsSince(l, 0)]
  PROVE  d \in Clients /\ ClientSound(d, l, st)
<1>1. /\ d.at = "replied" /\ d.shown = shown /\ d.got = c.got
      /\ d.events = EventsSince(l, 0) /\ LastSeen(d) = LastSeen(c)
  BY DEF LastSeen, Clients
<1>2. /\ d.events \in Seq(Nat) /\ Increasing(d.events) /\ Range(d.events) = Range(l.kept)
      /\ \A e \in Range(l.kept) : e \in Nat /\ e < l.next
  BY <1>1, AllEvents
<1>3. d \in Clients
  BY <1>2 DEF Clients
<1>4. PageSound(d)
  BY DEF ClientSound, PageSound, Comes, Clients
<1>5. ClientSound(d, l, st)
  BY <1>1, <1>2, <1>4 DEF ClientSound
<1> QED BY <1>3, <1>5

\* What is new in a reply goes to the end of the queue.
LEMMA PageAfterReply ==
  ASSUME NEW c \in Clients, Increasing(c.events), Increasing(c.got), PageSound(c),
         NEW at, NEW d, d = [Queued(c) EXCEPT !.events = <<>>, !.at = at]
  PROVE  PageSound(d)
<1> DEFINE w == Comes(c)
           f == Fresh(c)
<1>1. /\ c.got \in Seq(Nat) /\ c.drawn \in Seq(Nat) /\ c.queue \in Seq(Nat) /\ w \in Seq(Nat)
      /\ w = c.drawn \o c.queue /\ Increasing(w) /\ Range(w) \subseteq Range(c.got)
  BY DEF Clients, PageSound, Comes
<1>2. /\ d.drawn = c.drawn /\ d.queue = c.queue \o f /\ d.got = c.got \o f
      /\ d.frame = IF c.frame = "none" /\ f # <<>> THEN "asked" ELSE c.frame
  BY DEF Queued, Clients
<1>3. /\ f \in Seq(Nat) /\ Increasing(f)
      /\ \A x \in Range(f) : x > LastSeen(c)
      /\ Range(d.got) = Range(c.got) \cup Range(f)
  BY <1>2, GotGrows
<1>4. LastSeen(c) \in Nat /\ \A x \in Range(w) : x <= LastSeen(c)
  BY <1>1, LastIsHighest
<1>5. Comes(d) = w \o f
  <2>1. (c.drawn \o c.queue) \o f = c.drawn \o (c.queue \o f)
    <3> HIDE DEF f
    <3> QED BY <1>1, <1>3, InThree
  <2>2. Comes(d) = d.drawn \o d.queue
    BY DEF Comes
  <2> QED BY <1>1, <1>2, <2>1, <2>2
<1>6. Increasing(Comes(d)) /\ Range(Comes(d)) \subseteq Range(d.got)
  <2> HIDE DEF w, f
  <2> QED BY <1>1, <1>3, <1>4, <1>5, InARow
<1>7. ASSUME d.frame # "lost"
      PROVE  Comes(d) = d.got /\ (d.queue # <<>> <=> d.frame = "asked")
  <2>1. c.frame \in {"none", "asked"} /\ w = c.got /\ (c.queue # <<>> <=> c.frame = "asked")
    BY <1>2, <1>7 DEF PageSound, Clients
  <2>2. d.queue = <<>> <=> c.queue = <<>> /\ f = <<>>
    <3> HIDE DEF f
    <3> QED BY <1>1, <1>2, <1>3, ConcatEqualIffEmpty
  <2> QED BY <1>2, <1>5, <2>1, <2>2
<1> QED BY <1>6, <1>7 DEF PageSound

\* A reply arrives: what is new in it is taken.
LEMMA ClientAfterReply ==
  ASSUME NEW c \in Clients, NEW l, LogShape(l), NEW st \in Statuses,
         ClientSound(c, l, st), c.at = "replied",
         NEW at \in {"leaving", "polling"},
         NEW d, d = [Queued(c) EXCEPT !.events = <<>>, !.at = at]
  PROVE  d \in Clients /\ ClientSound(d, l, st)
<1>1. /\ d.at = at /\ d.shown = c.shown /\ d.events = <<>> /\ d.got = c.got \o Fresh(c)
  BY DEF Queued, Clients
<1>2. Increasing(c.events) /\ Increasing(c.got) /\ PageSound(c)
  BY DEF ClientSound
<1>3. /\ d.got \in Seq(Nat) /\ Increasing(d.got)
      /\ Range(d.got) = Range(c.got) \cup {x \in Range(c.events) : x > LastSeen(c)}
      /\ LastSeen(d) = LastSeen(c) \/ LastSeen(d) \in Range(c.events)
  BY <1>1, <1>2, GotGrows
<1>4. /\ LastSeen(c) \in Nat /\ l.next \in Nat
      /\ \A x \in Range(c.events) : x \in Nat
      /\ \A e \in Range(l.kept) : e \in Nat
  BY ClientNumbers
<1>5. d \in Clients
  <2>1. c.queue \in Seq(Nat) /\ c.got \in Seq(Nat) /\ Fresh(c) \in Seq(Nat)
    BY <1>1, <1>2, GotGrows DEF Clients
  <2>2. c.queue \o Fresh(c) \in Seq(Nat) /\ c.got \o Fresh(c) \in Seq(Nat)
    BY <2>1
  <2>3. Queued(c) \in Clients
    <3> DEFINE g == c.got \o Fresh(c)
               q == c.queue \o Fresh(c)
               f == IF c.frame = "none" /\ Fresh(c) # <<>> THEN "asked" ELSE c.frame
               c1 == [c EXCEPT !.got = g]
               c2 == [c1 EXCEPT !.queue = q]
    <3>1. g \in Seq(Nat) /\ q \in Seq(Nat) /\ f \in {"none", "asked", "lost"}
      BY <2>2 DEF Clients
    <3>2. Queued(c) = [c2 EXCEPT !.frame = f]
      BY DEF Queued, Clients
    <3> HIDE DEF g, q, f
    <3>3. c1 \in Clients
      BY <3>1, PageWith
    <3> HIDE DEF c1
    <3>4. c2 \in Clients
      BY <3>1, <3>3, PageWith
    <3> HIDE DEF c2
    <3> QED BY <3>1, <3>2, <3>4, PageWith
  <2> DEFINE q == Queued(c)
  <2>4. d = [q EXCEPT !.events = <<>>, !.at = at]
    OBVIOUS
  <2>5. <<>> \in Seq(Nat)
    OBVIOUS
  <2> HIDE DEF q
  <2> QED BY <2>3, <2>4, <2>5 DEF Clients, q
<1>6. Increasing(d.events) /\ Range(d.events) = {}
  BY <1>1 DEF Increasing, Range
<1>7. ASSUME NEW e \in Range(l.kept), e \in Range(c.events) \/ e <= LastSeen(c)
      PROVE  e \in Range(d.got)
  <2>1. CASE e <= LastSeen(c)
    BY <1>3, <2>1 DEF ClientSound
  <2>2. CASE e > LastSeen(c)
    BY <1>3, <1>4, <1>7, <2>2
  <2> QED BY <1>4, <2>1, <2>2
<1>8. ASSUME NEW e \in Range(l.kept), e <= LastSeen(d) PROVE e \in Range(d.got)
  <2>1. CASE LastSeen(d) = LastSeen(c)
    BY <1>7, <1>8, <2>1
  <2>2. CASE LastSeen(d) \in Range(c.events)
    <3>1. e \in Range(c.events)
      BY <1>8, <2>2 DEF ClientSound
    <3> QED BY <1>7, <3>1
  <2> QED BY <1>3, <2>1, <2>2
<1>9. st # "gone" => LastSeen(d) < l.next
  BY <1>3 DEF ClientSound
<1>10. st # "none"
  BY DEF ClientSound
<1>11. d.shown = "done" => st \in {"done", "gone"} /\ Range(l.kept) \subseteq Range(d.got)
  <2> SUFFICES ASSUME c.shown = "done"
               PROVE  st \in {"done", "gone"} /\ Range(l.kept) \subseteq Range(d.got)
    BY <1>1
  <2>1. st \in {"done", "gone"} /\ Range(l.kept) \subseteq Range(c.events)
    BY DEF ClientSound
  <2> QED BY <1>7, <2>1
<1>13. PageSound(d)
  BY <1>2, PageAfterReply
<1>12. ClientSound(d, l, st)
  BY <1>1, <1>13, <1>3, <1>6, <1>8, <1>9, <1>10, <1>11 DEF ClientSound
<1> QED BY <1>5, <1>12

\* Drawing takes from the front of the queue what it adds to the drawn.
LEMMA ClientAfterDraw ==
  ASSUME NEW c \in Clients, NEW l, NEW st, ClientSound(c, l, st), c.frame = "asked",
         NEW d, d = Drawn(c)
  PROVE  d \in Clients /\ ClientSound(d, l, st) /\ d.at = c.at /\ d.shown = c.shown
<1> DEFINE q == c.queue
           n == IF Len(q) < RevealPerFrame THEN Len(q) ELSE RevealPerFrame
<1>1. /\ c.drawn \in Seq(Nat) /\ q \in Seq(Nat) /\ Len(q) \in Nat
      /\ n \in 0 .. Len(q)
  BY BoundAssumption DEF Clients
<1>2. /\ d.drawn = c.drawn \o SubSeq(q, 1, n) /\ d.queue = SubSeq(q, n + 1, Len(q))
      /\ d.frame = IF n < Len(q) THEN "asked" ELSE "none"
      /\ d.got = c.got /\ d.at = c.at /\ d.shown = c.shown /\ d.events = c.events
  BY DEF Drawn, Clients
<1> HIDE DEF n
<1>3. SubSeq(q, 1, n) \in Seq(Nat) /\ SubSeq(q, n + 1, Len(q)) \in Seq(Nat)
      /\ (SubSeq(q, n + 1, Len(q)) = <<>> <=> n = Len(q))
  <2> HIDE DEF q
  <2>1. 1 \in Int /\ n \in Int /\ n + 1 \in Int /\ Len(q) \in Int
        /\ (\A i \in 1 .. n : q[i] \in Nat) /\ \A i \in n + 1 .. Len(q) : q[i] \in Nat
    BY <1>1
  <2>2. SubSeq(q, 1, n) \in Seq(Nat)
    BY <2>1, SubSeqProperties
  <2>3. /\ SubSeq(q, n + 1, Len(q)) \in Seq(Nat)
        /\ Len(SubSeq(q, n + 1, Len(q))) = IF n + 1 <= Len(q) THEN Len(q) - (n + 1) + 1 ELSE 0
    BY <2>1, SubSeqProperties
  <2>4. Len(SubSeq(q, n + 1, Len(q))) = 0 <=> n = Len(q)
    BY <1>1, <2>3
  <2>5. \A t \in Seq(Nat) : t = <<>> <=> Len(t) = 0
    OBVIOUS
  <2> QED BY <2>2, <2>3, <2>4, <2>5
<1>4. SubSeq(q, 1, n) \o SubSeq(q, n + 1, Len(q)) = q
  <2>1. 1 \in 1 .. Len(q) + 1 /\ n \in 1 - 1 .. Len(q) /\ Len(q) \in n .. Len(q)
    BY <1>1
  <2>2. SubSeq(q, 1, n) \o SubSeq(q, n + 1, Len(q)) = SubSeq(q, 1, Len(q))
    <3> HIDE DEF q
    <3> QED BY <1>1, <2>1, ConcatAdjacentSubSeq
  <2> QED BY <1>1, <2>2, SubSeqFull
<1>5. Comes(d) = Comes(c)
  <2>1. (c.drawn \o SubSeq(q, 1, n)) \o SubSeq(q, n + 1, Len(q))
        = c.drawn \o (SubSeq(q, 1, n) \o SubSeq(q, n + 1, Len(q)))
    BY <1>1, <1>3, InThree
  <2> QED BY <1>2, <1>4, <2>1 DEF Comes
<1>6. d \in Clients
  <2>1. d.drawn \in Seq(Nat) /\ d.queue \in Seq(Nat) /\ d.frame \in {"none", "asked", "lost"}
    BY <1>1, <1>2, <1>3
  <2>2. d = [c EXCEPT !.drawn = d.drawn, !.queue = d.queue, !.frame = d.frame]
    BY DEF Drawn, Clients
  <2> QED BY <2>1, <2>2 DEF Clients
<1>7. Comes(c) = c.got /\ PageSound(c)
  BY DEF ClientSound, PageSound
<1>8. PageSound(d)
  BY <1>1, <1>2, <1>3, <1>5, <1>7 DEF PageSound
<1>9. ClientSound(d, l, st)
  BY <1>2, <1>8 DEF ClientSound, LastSeen
<1> QED BY <1>2, <1>6, <1>9

\* finishBuild drops the queue.
LEMMA PageAfterFinish ==
  ASSUME NEW c \in Clients, PageSound(c), NEW d, d = FinishBuild(c) \/ d = Over(c)
  PROVE  /\ d \in Clients /\ PageSound(d)
         /\ d.shown = c.shown /\ d.got = c.got /\ d.events = c.events
<1>1. /\ d \in Clients /\ d.shown = c.shown /\ d.got = c.got /\ d.events = c.events
      /\ d.drawn = c.drawn /\ d.queue = <<>>
      /\ d.frame = IF c.frame = "asked" THEN "lost" ELSE c.frame
  <2> DEFINE f == FinishBuild(c)
  <2>1. /\ f \in Clients /\ f.shown = c.shown /\ f.got = c.got /\ f.events = c.events
        /\ f.drawn = c.drawn /\ f.queue = <<>>
        /\ f.frame = IF c.frame = "asked" THEN "lost" ELSE c.frame
    <3> DEFINE k == IF c.frame = "asked" THEN "lost" ELSE c.frame
               c1 == [c EXCEPT !.queue = <<>>]
    <3>1. <<>> \in Seq(Nat) /\ k \in {"none", "asked", "lost"}
      BY DEF Clients
    <3>2. f = [c1 EXCEPT !.frame = k]
      BY DEF FinishBuild, Clients
    <3>3. c1 \in Clients
      BY <3>1, PageWith
    <3>4. f \in Clients
      <4> HIDE DEF f, c1, k
      <4> QED BY <3>1, <3>2, <3>3, PageWith
    <3> QED BY <3>4 DEF FinishBuild, Clients
  <2>2. d = f \/ d = [f EXCEPT !.at = "over"]
    BY DEF Over
  <2> HIDE DEF f
  <2> QED BY <2>1, <2>2 DEF Clients
<1> DEFINE a == c.drawn
           w == Comes(c)
<1>2. a \in Seq(Nat) /\ c.queue \in Seq(Nat) /\ w = a \o c.queue
  BY DEF Comes, Clients
<1>3. Comes(d) = a
  BY <1>1, <1>2, ConcatEmptySeq DEF Comes
<1>4. \A i \in DOMAIN a : i \in DOMAIN w /\ w[i] = a[i]
  <2> HIDE DEF a, w
  <2> QED BY <1>2
<1>5. Increasing(a) /\ Range(a) \subseteq Range(c.got)
  <2>1. Increasing(w) /\ Range(w) \subseteq Range(c.got)
    BY DEF PageSound
  <2> HIDE DEF a, w
  <2> QED BY <1>4, <2>1 DEF Increasing, Range
<1>6. d.frame # "lost" => c.queue = <<>> /\ c.frame = "none" /\ w = c.got
  BY <1>1 DEF PageSound, Clients
<1>7. d.frame # "lost" => a = c.got
  BY <1>2, <1>6, ConcatEmptySeq
<1> QED BY <1>1, <1>3, <1>5, <1>6, <1>7 DEF PageSound

\* A page is finished by its watchdog, by its timer, or by a server that is gone.
LEMMA ClientAfterFinish ==
  ASSUME NEW c \in Clients, NEW l, NEW st, ClientSound(c, l, st), c.at # "idle",
         NEW d, d = FinishBuild(c) \/ (d = Over(c) /\ (c.at = "leaving" \/ st = "gone"))
  PROVE  d \in Clients /\ ClientSound(d, l, st)
<1>1. /\ d \in Clients /\ PageSound(d)
      /\ d.shown = c.shown /\ d.got = c.got /\ d.events = c.events
  BY PageAfterFinish DEF ClientSound
<1>2. st # "none" /\ LastSeen(d) = LastSeen(c)
  BY <1>1 DEF ClientSound, LastSeen
<1>3. d.at = c.at \/ (d.at = "over" /\ (c.at = "leaving" \/ st = "gone"))
  BY DEF FinishBuild, Over, Clients
<1>4. ClientSound(d, l, st)
  BY <1>1, <1>2, <1>3 DEF ClientSound
<1> QED BY <1>1, <1>4

\* The server is started again: the logs are empty and no build is known.
LEMMA ClientAfterRestart ==
  ASSUME NEW c \in Clients, NEW l, NEW st \in Statuses, ClientSound(c, l, st),
         NEW d, d = c \/ (d = Over(c) /\ st # "none")
  PROVE  d \in Clients /\ ClientSound(d, EmptyLog, IF st = "none" THEN "none" ELSE "gone")
<1>1. /\ d \in Clients /\ PageSound(d)
      /\ d.shown = c.shown /\ d.got = c.got /\ d.events = c.events /\ LastSeen(d) = LastSeen(c)
      /\ st = "none" => d.at = c.at
  BY PageAfterFinish DEF ClientSound, LastSeen
<1>2. EmptyLog.kept = <<>> /\ EmptyLog.next = 1 /\ Range(EmptyLog.kept) = {}
  BY DEF EmptyLog, Range
<1>3. st = "none" => LastSeen(d) < 1 /\ Range(d.events) = {}
  BY <1>1 DEF ClientSound, LastSeen, Range
<1> QED BY <1>1, <1>2, <1>3 DEF ClientSound

-----------------------------------------------------------------------------
(* The invariant.                                                          *)

LEMMA InitPInv ==
  ASSUME Init PROVE PInv
<1>1. Types
  <2>1. \A j \in Jobs : EmptyLog \in [kept : Seq(Nat), next : Nat]
    BY DEF EmptyLog
  <2> QED BY <2>1, BoundAssumption DEF Init, Types, WorkerStates, Statuses, Clients, Worlds
<1>2. LogShape(EmptyLog)
  BY BoundAssumption DEF LogShape, EmptyLog
<1>3. ASSUME NEW j \in Jobs PROVE JobSound(j)
  <2>1. /\ worker[j] = "unborn" /\ status[j] = "none" /\ log[j] = EmptyLog
        /\ client[j].at = "idle" /\ client[j].shown = "none"
        /\ client[j].events = <<>> /\ client[j].got = <<>>
        /\ client[j].drawn = <<>> /\ client[j].queue = <<>> /\ client[j].frame = "none"
    BY DEF Init
  <2>2. Stage("unborn", "none", j \in onDisk, EmptyLog.next)
    BY BoundAssumption DEF Stage, EmptyLog
  <2>4. Comes(client[j]) = <<>>
    BY <2>1 DEF Comes
  <2>3. ClientSound(client[j], EmptyLog, "none")
    BY <2>1, <2>4 DEF ClientSound, PageSound, LastSeen, Increasing, Range, EmptyLog
  <2> QED BY <1>2, <2>1, <2>2, <2>3 DEF JobSound
<1>4. PollSound /\ ActiveIsBuilt /\ CachesOfActiveWorld
  BY DEF Init, PollSound, ActiveIsBuilt, CachesOfActiveWorld
<1> QED BY <1>1, <1>3, <1>4 DEF PInv

\* A build nothing happened to.
LEMMA JobFrame ==
  ASSUME NEW k \in Jobs, JobSound(k),
         worker'[k] = worker[k], status'[k] = status[k], log'[k] = log[k],
         client'[k] = client[k], k \in onDisk => k \in onDisk'
  PROVE  JobSound(k)'
BY DEF JobSound, Stage

\* What a step leaves alone of the world and the poll.
LEMMA WorldFrame ==
  ASSUME PollSound /\ ActiveIsBuilt /\ CachesOfActiveWorld, onDisk \subseteq onDisk',
         UNCHANGED <<poll, active, handle, answers>>,
         \A k \in Jobs : status'[k] # status[k] => status[k] \in {"none", "running"} /\ status'[k] # "none"
                                                   /\ status'[k] # "gone",
         poll = None \/ poll.job \in Jobs, active \in Worlds
  PROVE  (PollSound /\ ActiveIsBuilt /\ CachesOfActiveWorld)'
<1>1. PollSound'
  BY DEF PollSound
<1>2. ActiveIsBuilt'
  BY DEF ActiveIsBuilt, Worlds
<1>3. CachesOfActiveWorld'
  BY DEF CachesOfActiveWorld
<1> QED BY <1>1, <1>2, <1>3

\* A step of one client alone.
LEMMA ClientStep ==
  ASSUME PInv, NEW j \in Jobs, NEW d \in Clients, ClientSound(d, log[j], status[j]),
         client' = [client EXCEPT ![j] = d],
         UNCHANGED <<worker, status, log, onDisk, chosen, worldVars, poll>>
  PROVE  PInv'
<1>t. Types /\ (\A k \in Jobs : JobSound(k)) /\ PollSound /\ ActiveIsBuilt /\ CachesOfActiveWorld
  BY DEF PInv
<1>p. (poll = None \/ poll.job \in Jobs) /\ active \in Worlds
  BY <1>t DEF Types
<1>1. Types' /\ client'[j] = d /\ \A k \in Jobs \ {j} : client'[k] = client[k]
  BY <1>t DEF Types, worldVars
<1>2. JobSound(j)'
  BY <1>t, <1>1 DEF JobSound
<1>3. \A k \in Jobs : JobSound(k)'
  BY <1>t, <1>1, <1>2, JobFrame
<1>4. (PollSound /\ ActiveIsBuilt /\ CachesOfActiveWorld)'
  BY <1>t, <1>p, WorldFrame DEF worldVars
<1> QED BY <1>1, <1>3, <1>4 DEF PInv

LEMMA NextPInv ==
  ASSUME PInv, [Next]_vars PROVE PInv'
<1> USE JobsAssumption, BoundAssumption
<1>t. Types
  BY DEF PInv
<1>j. \A j \in Jobs : JobSound(j)
  BY DEF PInv
<1>w. PollSound /\ ActiveIsBuilt /\ CachesOfActiveWorld
  BY DEF PInv
<1>p. (poll = None \/ (poll.job \in Jobs /\ poll.shown \in Statuses)) /\ active \in Worlds
  BY <1>t DEF Types
<1>c. \A j \in Jobs : /\ client[j] \in Clients /\ log[j] \in [kept : Seq(Nat), next : Nat]
                      /\ worker[j] \in WorkerStates /\ status[j] \in Statuses
  BY <1>t DEF Types
<1>1. ASSUME NEW j \in Jobs, Report(j) PROVE PInv'
  <2>1. /\ worker[j] = "build" /\ log[j].next <= MaxFinds
        /\ log' = [log EXCEPT ![j] = Emitted(log[j])]
        /\ UNCHANGED <<worker, status, onDisk, chosen, worldVars, poll, client>>
    BY <1>1 DEF Report, Emit
  <2>2. LogShape(log[j]) /\ Stage(worker[j], status[j], j \in onDisk, log[j].next)
        /\ ClientSound(client[j], log[j], status[j])
    BY <1>j DEF JobSound
  <2>3. status[j] = "running"
    BY <2>1, <2>2 DEF Stage
  <2>4. /\ LogShape(Emitted(log[j])) /\ Emitted(log[j]).next = log[j].next + 1
        /\ Emitted(log[j]) \in [kept : Seq(Nat), next : Nat]
    BY <1>c, <2>2, EmittedShape
  <2>5. ClientSound(client[j], Emitted(log[j]), status[j])
    BY <1>c, <2>2, <2>3, ClientAfterEmit
  <2>6. Types'
    BY <1>t, <2>1, <2>4 DEF Types, worldVars
  <2>7. log'[j] = Emitted(log[j]) /\ \A k \in Jobs \ {j} : log'[k] = log[k]
    BY <1>t, <2>1 DEF Types
  <2>8. JobSound(j)'
    <3>1. Stage(worker[j], status[j], j \in onDisk, log[j].next + 1)
      BY <1>c, <2>1, <2>2 DEF Stage
    <3> QED BY <2>1, <2>4, <2>5, <2>7, <3>1 DEF JobSound
  <2>9. \A k \in Jobs : JobSound(k)'
    BY <1>j, <2>1, <2>7, <2>8, JobFrame
  <2>10. (PollSound /\ ActiveIsBuilt /\ CachesOfActiveWorld)'
    BY <1>w, <1>p, <2>1, WorldFrame DEF worldVars
  <2> QED BY <2>6, <2>9, <2>10 DEF PInv
<1>2. ASSUME NEW j \in Jobs, Conclude(j) PROVE PInv'
  <2>1. /\ worker[j] = "build" /\ onDisk' = onDisk \cup {j}
        /\ log' = [log EXCEPT ![j] = Emitted(log[j])]
        /\ worker' = [worker EXCEPT ![j] = "concluded"]
        /\ UNCHANGED <<status, chosen, worldVars, poll, client>>
    BY <1>2 DEF Conclude, Emit, Goes
  <2>2. LogShape(log[j]) /\ Stage(worker[j], status[j], j \in onDisk, log[j].next)
        /\ ClientSound(client[j], log[j], status[j])
    BY <1>j DEF JobSound
  <2>3. status[j] = "running"
    BY <2>1, <2>2 DEF Stage
  <2>4. /\ LogShape(Emitted(log[j])) /\ Emitted(log[j]).next = log[j].next + 1
        /\ Emitted(log[j]) \in [kept : Seq(Nat), next : Nat]
    BY <1>c, <2>2, EmittedShape
  <2>5. ClientSound(client[j], Emitted(log[j]), status[j])
    BY <1>c, <2>2, <2>3, ClientAfterEmit
  <2>6. Types'
    BY <1>t, <2>1, <2>4 DEF Types, worldVars, WorkerStates
  <2>7. /\ log'[j] = Emitted(log[j]) /\ \A k \in Jobs \ {j} : log'[k] = log[k]
        /\ worker'[j] = "concluded" /\ \A k \in Jobs \ {j} : worker'[k] = worker[k]
    BY <1>t, <2>1 DEF Types
  <2>8. JobSound(j)'
    <3>1. Stage("concluded", status[j], j \in onDisk', log[j].next + 1)
      BY <1>c, <2>1, <2>2, <2>3 DEF Stage
    <3> QED BY <2>1, <2>4, <2>5, <2>7, <3>1 DEF JobSound
  <2>9. \A k \in Jobs : JobSound(k)'
    BY <1>j, <2>1, <2>7, <2>8, JobFrame
  <2>10. (PollSound /\ ActiveIsBuilt /\ CachesOfActiveWorld)'
    BY <1>w, <1>p, <2>1, WorldFrame DEF worldVars
  <2> QED BY <2>6, <2>9, <2>10 DEF PInv
<1>3. ASSUME NEW j \in Jobs, Finish(j) PROVE PInv'
  <2>1. /\ worker[j] = "concluded" /\ status' = [status EXCEPT ![j] = "done"]
        /\ worker' = [worker EXCEPT ![j] = "done"]
        /\ UNCHANGED <<log, onDisk, chosen, worldVars, poll, client>>
    BY <1>3 DEF Finish, Goes
  <2>2. LogShape(log[j]) /\ Stage(worker[j], status[j], j \in onDisk, log[j].next)
        /\ ClientSound(client[j], log[j], status[j])
    BY <1>j DEF JobSound
  <2>3. status[j] = "running"
    BY <2>1, <2>2 DEF Stage
  <2>4. Types'
    BY <1>t, <2>1 DEF Types, worldVars, WorkerStates, Statuses
  <2>5. /\ status'[j] = "done" /\ \A k \in Jobs \ {j} : status'[k] = status[k]
        /\ worker'[j] = "done" /\ \A k \in Jobs \ {j} : worker'[k] = worker[k]
    BY <1>t, <2>1 DEF Types
  <2>6. JobSound(j)'
    <3>1. Stage("done", "done", j \in onDisk, log[j].next)
      BY <2>1, <2>2 DEF Stage
    <3>2. ClientSound(client[j], log[j], "done")
      BY <2>2, <2>3 DEF ClientSound
    <3> QED BY <2>1, <2>2, <2>5, <3>1, <3>2 DEF JobSound
  <2>7. \A k \in Jobs : JobSound(k)'
    BY <1>j, <2>1, <2>5, <2>6, JobFrame
  <2>8. (PollSound /\ ActiveIsBuilt /\ CachesOfActiveWorld)'
    BY <1>w, <1>p, <2>1, <2>3, <2>5, WorldFrame DEF worldVars
  <2> QED BY <2>4, <2>7, <2>8 DEF PInv
<1>4. ASSUME NEW j \in Jobs, Activate(j) PROVE PInv'
  <2>1. /\ worker[j] = "done" /\ active' = j /\ handle' = None /\ answers' = {}
        /\ worker' = [worker EXCEPT ![j] = "over"]
        /\ UNCHANGED <<status, log, onDisk, chosen, selected, edition, poll, client>>
    BY <1>4 DEF Activate, DropHandles, Goes
  <2>2. JobSound(j) /\ Stage(worker[j], status[j], j \in onDisk, log[j].next)
    BY <1>j DEF JobSound
  <2>3. status[j] = "done" /\ j \in onDisk
    BY <2>1, <2>2 DEF Stage
  <2>4. Types'
    BY <1>t, <2>1 DEF Types, worldVars, WorkerStates, Worlds
  <2>5. worker'[j] = "over" /\ \A k \in Jobs \ {j} : worker'[k] = worker[k]
    BY <1>t, <2>1 DEF Types
  <2>6. JobSound(j)'
    <3>1. Stage("over", "done", j \in onDisk, log[j].next)
      BY <2>1, <2>2 DEF Stage
    <3> QED BY <2>1, <2>2, <2>3, <2>5, <3>1 DEF JobSound
  <2>7. \A k \in Jobs : JobSound(k)'
    BY <1>j, <2>1, <2>5, <2>6, JobFrame
  <2>8. (PollSound /\ ActiveIsBuilt /\ CachesOfActiveWorld)'
    BY <1>w, <2>1, <2>3 DEF PollSound, ActiveIsBuilt, CachesOfActiveWorld
  <2> QED BY <2>4, <2>7, <2>8 DEF PInv
<1>5. ASSUME NEW j \in Jobs, TellFailure(j) PROVE PInv'
  <2>1. /\ worker[j] = "failed"
        /\ log' = [log EXCEPT ![j] = Emitted(log[j])]
        /\ worker' = [worker EXCEPT ![j] = "over"]
        /\ UNCHANGED <<status, onDisk, chosen, worldVars, poll, client>>
    BY <1>5 DEF TellFailure, Emit, Goes
  <2>2. LogShape(log[j]) /\ Stage(worker[j], status[j], j \in onDisk, log[j].next)
        /\ ClientSound(client[j], log[j], status[j])
    BY <1>j DEF JobSound
  <2>3. status[j] = "error"
    BY <2>1, <2>2 DEF Stage
  <2>4. /\ LogShape(Emitted(log[j])) /\ Emitted(log[j]).next = log[j].next + 1
        /\ Emitted(log[j]) \in [kept : Seq(Nat), next : Nat]
    BY <1>c, <2>2, EmittedShape
  <2>5. ClientSound(client[j], Emitted(log[j]), status[j])
    BY <1>c, <2>2, <2>3, ClientAfterEmit
  <2>6. Types'
    BY <1>t, <2>1, <2>4 DEF Types, worldVars, WorkerStates
  <2>7. /\ log'[j] = Emitted(log[j]) /\ \A k \in Jobs \ {j} : log'[k] = log[k]
        /\ worker'[j] = "over" /\ \A k \in Jobs \ {j} : worker'[k] = worker[k]
    BY <1>t, <2>1 DEF Types
  <2>8. JobSound(j)'
    <3>1. Stage("over", status[j], j \in onDisk, log[j].next + 1)
      BY <1>c, <2>1, <2>2, <2>3 DEF Stage
    <3> QED BY <2>1, <2>4, <2>5, <2>7, <3>1 DEF JobSound
  <2>9. \A k \in Jobs : JobSound(k)'
    BY <1>j, <2>1, <2>7, <2>8, JobFrame
  <2>10. (PollSound /\ ActiveIsBuilt /\ CachesOfActiveWorld)'
    BY <1>w, <1>p, <2>1, WorldFrame DEF worldVars
  <2> QED BY <2>6, <2>9, <2>10 DEF PInv
<1>6. ASSUME NEW j \in Jobs, Fail(j) PROVE PInv'
  <2>1. /\ worker[j] = "build" /\ status' = [status EXCEPT ![j] = "error"]
        /\ worker' = [worker EXCEPT ![j] = "failed"]
        /\ UNCHANGED <<log, onDisk, chosen, worldVars, poll, client>>
    BY <1>6 DEF Fail, Goes
  <2>2. LogShape(log[j]) /\ Stage(worker[j], status[j], j \in onDisk, log[j].next)
        /\ ClientSound(client[j], log[j], status[j])
    BY <1>j DEF JobSound
  <2>3. status[j] = "running"
    BY <2>1, <2>2 DEF Stage
  <2>4. Types'
    BY <1>t, <2>1 DEF Types, worldVars, WorkerStates, Statuses
  <2>5. /\ status'[j] = "error" /\ \A k \in Jobs \ {j} : status'[k] = status[k]
        /\ worker'[j] = "failed" /\ \A k \in Jobs \ {j} : worker'[k] = worker[k]
    BY <1>t, <2>1 DEF Types
  <2>6. JobSound(j)'
    <3>1. Stage("failed", "error", j \in onDisk, log[j].next)
      BY <2>1, <2>2 DEF Stage
    <3>2. ClientSound(client[j], log[j], "error")
      BY <2>2, <2>3 DEF ClientSound
    <3> QED BY <2>1, <2>2, <2>5, <3>1, <3>2 DEF JobSound
  <2>7. \A k \in Jobs : JobSound(k)'
    BY <1>j, <2>1, <2>5, <2>6, JobFrame
  <2>8. (PollSound /\ ActiveIsBuilt /\ CachesOfActiveWorld)'
    BY <1>w, <1>p, <2>1, <2>3, <2>5, WorldFrame DEF worldVars
  <2> QED BY <2>4, <2>7, <2>8 DEF PInv
<1>7. ASSUME NEW j \in Jobs, PollStatus(j) PROVE PInv'
  <2>1. /\ client[j].at = "polling" /\ status[j] # "gone"
        /\ poll' = [job |-> j, shown |-> status[j]]
        /\ UNCHANGED <<worker, status, log, onDisk, chosen, worldVars, client>>
    BY <1>7 DEF PollStatus, buildVars
  <2>2. status[j] # "none"
    BY <1>j, <2>1 DEF JobSound, ClientSound
  <2>3. Types'
    BY <1>t, <1>c, <2>1 DEF Types, worldVars
  <2>4. \A k \in Jobs : JobSound(k)'
    BY <1>j, <2>1, JobFrame
  <2>5. PollSound'
    BY <2>1, <2>2 DEF PollSound
  <2>6. (ActiveIsBuilt /\ CachesOfActiveWorld)'
    BY <1>w, <2>1 DEF ActiveIsBuilt, CachesOfActiveWorld, worldVars
  <2> QED BY <2>3, <2>4, <2>5, <2>6 DEF PInv
<1>8. ASSUME NEW j \in Jobs, PollGone(j) PROVE PInv'
  <2>1. /\ client[j].at = "polling" /\ status[j] = "gone"
        /\ client' = [client EXCEPT ![j] = Over(client[j])]
        /\ UNCHANGED <<worker, status, log, onDisk, chosen, worldVars, poll>>
    BY <1>8 DEF PollGone, buildVars
  <2>2. client[j] \in Clients /\ ClientSound(client[j], log[j], status[j])
    BY <1>c, <1>j DEF JobSound
  <2>3. Over(client[j]) \in Clients /\ ClientSound(Over(client[j]), log[j], status[j])
    BY <2>1, <2>2, ClientAfterFinish
  <2> QED BY <2>1, <2>3, ClientStep
<1>9. ASSUME NEW j \in Jobs, Page(j) PROVE PInv'
  <2> DEFINE c == client[j]
  <2>2. c \in Clients /\ LogShape(log[j]) /\ status[j] \in Statuses
        /\ ClientSound(c, log[j], status[j])
    BY <1>c, <1>j DEF JobSound
  <2>3. CASE Receive(j)
    <3> DEFINE at == IF c.shown \in Terminal THEN "leaving" ELSE "polling"
               d == [Queued(c) EXCEPT !.events = <<>>, !.at = at]
    <3>1. /\ c.at = "replied" /\ client' = [client EXCEPT ![j] = d]
          /\ UNCHANGED <<worker, status, log, onDisk, chosen, worldVars, poll>>
      BY <2>3 DEF Receive, buildVars
    <3>2. at \in {"leaving", "polling"}
      OBVIOUS
    <3>3. d \in Clients /\ ClientSound(d, log[j], status[j])
      <4> HIDE DEF c, at
      <4> QED BY <2>2, <3>1, <3>2, ClientAfterReply
    <3> HIDE DEF d
    <3> QED BY <3>1, <3>3, ClientStep
  <2>4. CASE Leave(j) \/ Watchdog(j)
    <3> DEFINE d == IF c.at = "leaving" THEN Over(c) ELSE FinishBuild(c)
    <3>1. /\ c.at \in {"leaving", "polling", "replied"} /\ client' = [client EXCEPT ![j] = d]
          /\ UNCHANGED <<worker, status, log, onDisk, chosen, worldVars, poll>>
      BY <2>4 DEF Leave, Watchdog, buildVars
    <3>2. d \in Clients /\ ClientSound(d, log[j], status[j])
      <4> HIDE DEF c
      <4> QED BY <2>2, <3>1, ClientAfterFinish
    <3> HIDE DEF d
    <3> QED BY <3>1, <3>2, ClientStep
  <2>5. CASE Draw(j)
    <3>1. /\ c.frame = "asked" /\ client' = [client EXCEPT ![j] = Drawn(c)]
          /\ UNCHANGED <<worker, status, log, onDisk, chosen, worldVars, poll>>
      BY <2>5 DEF Draw, buildVars
    <3>2. Drawn(c) \in Clients /\ ClientSound(Drawn(c), log[j], status[j])
      <4> HIDE DEF c
      <4> QED BY <2>2, <3>1, ClientAfterDraw
    <3> QED BY <3>1, <3>2, ClientStep
  <2> QED BY <1>9, <2>3, <2>4, <2>5 DEF Page
<1>10. ASSUME NEW j \in Jobs, NEW ids \in SUBSET Datasets, NEW mode \in {"replace", "add"},
              StartBuild(j, ids, mode)
       PROVE PInv'
  <2>1. /\ status[j] = "none" /\ poll = None
        /\ selected' = ids \cup Kept(mode)
        /\ chosen' = [chosen EXCEPT ![j] = selected']
        /\ status' = [status EXCEPT ![j] = "running"]
        /\ worker' = [worker EXCEPT ![j] = "build"]
        /\ client' = IF j \in Watched THEN [client EXCEPT ![j].at = "polling"] ELSE client
        /\ UNCHANGED <<log, onDisk, active, handle, edition, answers, poll>>
    BY <1>10 DEF StartBuild, Goes, LoopFree
  <2>2. LogShape(log[j]) /\ Stage(worker[j], status[j], j \in onDisk, log[j].next)
        /\ ClientSound(client[j], log[j], status[j])
    BY <1>j DEF JobSound
  <2> DEFINE d == [client[j] EXCEPT !.at = "polling"]
  <2>3. /\ d \in Clients /\ d.at = "polling" /\ d.shown = client[j].shown
        /\ d.events = client[j].events /\ d.got = client[j].got
        /\ d.drawn = client[j].drawn /\ d.queue = client[j].queue /\ d.frame = client[j].frame
    BY <1>c DEF Clients
  <2>4. /\ client'[j] \in {client[j], d} /\ \A k \in Jobs \ {j} : client'[k] = client[k]
        /\ client' \in [Jobs -> Clients]
    BY <1>t, <2>1, <2>3 DEF Types
  <2> HIDE DEF d
  <2>5. selected' \in SUBSET Datasets
    BY <1>t, <2>1 DEF Types, Kept
  <2>6. Types'
    BY <1>t, <2>1, <2>4, <2>5 DEF Types, WorkerStates, Statuses
  <2>7. /\ status'[j] = "running" /\ \A k \in Jobs \ {j} : status'[k] = status[k]
        /\ worker'[j] = "build" /\ \A k \in Jobs \ {j} : worker'[k] = worker[k]
    BY <1>t, <2>1 DEF Types
  <2>8. JobSound(j)'
    <3>1. Stage("build", "running", j \in onDisk, log[j].next)
      BY <2>1, <2>2 DEF Stage
    <3>2. client[j].shown # "done"
      BY <2>1, <2>2 DEF ClientSound
    <3>4. PageSound(client'[j])
      BY <2>2, <2>3, <2>4 DEF ClientSound, PageSound, Comes
    <3>3. ClientSound(client'[j], log[j], "running")
      BY <2>1, <2>2, <2>3, <2>4, <3>2, <3>4 DEF ClientSound, LastSeen
    <3> QED BY <2>1, <2>2, <2>7, <3>1, <3>3 DEF JobSound
  <2>9. \A k \in Jobs : JobSound(k)'
    BY <1>j, <2>1, <2>4, <2>7, <2>8, JobFrame
  <2>10. (PollSound /\ ActiveIsBuilt /\ CachesOfActiveWorld)'
    BY <1>w, <1>p, <2>1, <2>7, WorldFrame
  <2> QED BY <2>6, <2>9, <2>10 DEF PInv
<1>11. ASSUME Ask \/ Edit \/ Reload PROVE PInv'
  <2>1. /\ UNCHANGED <<worker, status, log, onDisk, chosen, active, selected, poll, client>>
        /\ edition' = edition
           \/ (edition[active] < MaxEdits /\ edition' = [edition EXCEPT ![active] = @ + 1])
    BY <1>11 DEF Ask, Edit, Reload, buildVars
  <2>2. Types'
    <3>1. edition \in [Worlds -> 0 .. MaxEdits] /\ MaxEdits \in Nat
      BY <1>t DEF Types
    <3>2. edition' \in [Worlds -> 0 .. MaxEdits]
      <4>1. CASE edition' = edition
        BY <3>1, <4>1
      <4>2. CASE edition[active] < MaxEdits /\ edition' = [edition EXCEPT ![active] = @ + 1]
        <5>1. edition[active] + 1 \in 0 .. MaxEdits
          BY <1>p, <3>1, <4>2
        <5> QED BY <3>1, <4>2, <5>1
      <4> QED BY <2>1, <4>1, <4>2
    <3> QED BY <1>t, <2>1, <3>2 DEF Types
  <2>3. \A k \in Jobs : JobSound(k)'
    BY <1>j, <2>1, JobFrame
  <2>4. (PollSound /\ ActiveIsBuilt)'
    BY <1>w, <2>1 DEF PollSound, ActiveIsBuilt
  <2>5. CachesOfActiveWorld'
    <3>1. CASE Ask
      <4>1. handle' = active
        BY <1>w, <3>1 DEF Ask, Open, CachesOfActiveWorld
      <4> QED BY <1>w, <2>1, <3>1, <4>1 DEF Ask, CachesOfActiveWorld
    <3>2. CASE Edit
      BY <1>w, <2>1, <3>2 DEF Edit, Open, CachesOfActiveWorld
    <3>3. CASE Reload
      BY <2>1, <3>3 DEF Reload, DropHandles, CachesOfActiveWorld
    <3> QED BY <1>11, <3>1, <3>2, <3>3
  <2> QED BY <2>2, <2>3, <2>4, <2>5 DEF PInv
<1>12. ASSUME PollEvents PROVE PInv'
  <2> DEFINE j == poll.job
             c == client[j]
             d == [c EXCEPT !.at = "replied", !.shown = poll.shown,
                            !.events = EventsSince(log[j], 0)]
  <2>1. /\ poll # None /\ poll' = None /\ client' = [client EXCEPT ![j] = d]
        /\ UNCHANGED <<worker, status, log, onDisk, chosen, worldVars>>
    BY <1>12 DEF PollEvents, LoopFree, buildVars
  <2>2. j \in Jobs /\ poll.shown \in Statuses
    BY <1>p, <2>1
  <2>3. status[j] \in Statuses \ {"none"} /\ (poll.shown = "done" => status[j] = "done")
    BY <1>c, <1>w, <2>1, <2>2 DEF PollSound
  <2>4. c \in Clients /\ LogShape(log[j]) /\ ClientSound(c, log[j], status[j])
    BY <1>c, <1>j, <2>2 DEF JobSound
  <2>5. d \in Clients /\ ClientSound(d, log[j], status[j])
    <3> HIDE DEF j, c
    <3> QED BY <2>2, <2>3, <2>4, ClientAfterPoll
  <2> HIDE DEF d, j
  <2>6. Types' /\ client'[j] = d /\ \A k \in Jobs \ {j} : client'[k] = client[k]
    BY <1>t, <2>1, <2>2, <2>5 DEF Types, worldVars
  <2>7. ASSUME NEW k \in Jobs PROVE JobSound(k)'
    <3>1. CASE k = j
      BY <1>j, <2>1, <2>5, <2>6, <3>1 DEF JobSound
    <3>2. CASE k # j
      BY <1>j, <2>1, <2>6, <3>2, JobFrame
    <3> QED BY <3>1, <3>2
  <2>8. (PollSound /\ ActiveIsBuilt /\ CachesOfActiveWorld)'
    BY <1>w, <2>1 DEF PollSound, ActiveIsBuilt, CachesOfActiveWorld, worldVars
  <2> QED BY <2>6, <2>7, <2>8 DEF PInv
<1>13. ASSUME Restart PROVE PInv'
  <2>1. /\ worker' = [k \in Jobs |-> IF status[k] = "none" THEN "unborn" ELSE "over"]
        /\ status' = [k \in Jobs |-> IF status[k] = "none" THEN "none" ELSE "gone"]
        /\ log' = [k \in Jobs |-> EmptyLog]
        /\ active' = Demo /\ selected' = {} /\ handle' = None /\ answers' = {} /\ poll' = None
        /\ UNCHANGED <<onDisk, chosen, edition>>
    BY <1>13 DEF Restart
  <2>2. ASSUME NEW k \in Jobs
        PROVE  client'[k] = client[k] \/ (client'[k] = Over(client[k]) /\ status[k] # "none")
    <3>1. client' = [i \in Jobs |-> IF poll # None /\ poll.job = i
                                    THEN Over(client[i]) ELSE client[i]]
      BY <1>13 DEF Restart
    <3>2. poll # None => status[poll.job] # "none"
      BY <1>w DEF PollSound
    <3> QED BY <3>1, <3>2
  <2>3. ASSUME NEW k \in Jobs PROVE client'[k] \in Clients /\ JobSound(k)'
    <3>1. client[k] \in Clients /\ status[k] \in Statuses /\ ClientSound(client[k], log[k], status[k])
      BY <1>c, <1>j DEF JobSound
    <3>2. /\ client'[k] \in Clients
          /\ ClientSound(client'[k], EmptyLog, IF status[k] = "none" THEN "none" ELSE "gone")
      BY <2>2, <3>1, ClientAfterRestart
    <3>3. LogShape(EmptyLog)
      BY DEF LogShape, EmptyLog
    <3>4. Stage(IF status[k] = "none" THEN "unborn" ELSE "over",
                IF status[k] = "none" THEN "none" ELSE "gone", k \in onDisk, EmptyLog.next)
      BY DEF Stage, EmptyLog
    <3> QED BY <2>1, <3>2, <3>3, <3>4 DEF JobSound
  <2>4. client' \in [Jobs -> Clients]
    <3>1. client' = [i \in Jobs |-> client'[i]]
      BY <1>13 DEF Restart
    <3> QED BY <2>3, <3>1
  <2>5. Types'
    <3>1. EmptyLog \in [kept : Seq(Nat), next : Nat]
      BY DEF EmptyLog
    <3> QED BY <1>t, <2>1, <2>4, <3>1 DEF Types, WorkerStates, Statuses, Worlds
  <2>6. (PollSound /\ ActiveIsBuilt /\ CachesOfActiveWorld)'
    BY <2>1 DEF PollSound, ActiveIsBuilt, CachesOfActiveWorld
  <2> QED BY <2>3, <2>5, <2>6 DEF PInv
<1>14. CASE UNCHANGED vars
  <2>1. /\ UNCHANGED <<worker, status, log, onDisk, chosen, poll, client>>
        /\ UNCHANGED <<active, selected, handle, edition, answers>>
    BY <1>14 DEF vars, buildVars, worldVars
  <2>2. Types'
    BY <1>t, <2>1 DEF Types
  <2>3. \A k \in Jobs : JobSound(k)'
    BY <1>j, <2>1, JobFrame
  <2>4. (PollSound /\ ActiveIsBuilt /\ CachesOfActiveWorld)'
    BY <1>w, <1>p, <2>1, WorldFrame
  <2> QED BY <2>2, <2>3, <2>4 DEF PInv
<1> QED
  BY <1>1, <1>2, <1>3, <1>4, <1>5, <1>6, <1>7, <1>8, <1>9, <1>10, <1>11, <1>12, <1>13, <1>14
  DEF Next, Worker, Watch

-----------------------------------------------------------------------------
(* The theorems.                                                           *)

\* The jobs, their logs, their clients and the world stay consistent, whatever
\* threads, handlers, failures and restarts interleave (PlaygroundJob,
\* JobEventLog, ProjectWorld).
THEOREM BuildInvariance == Spec => []PInv
<1>1. Init => PInv
  BY InitPInv
<1>2. PInv /\ [Next]_vars => PInv'
  BY NextPInv
<1> QED BY <1>1, <1>2, PTL DEF Spec

\* Requests read a built world, and nothing opened or cached of another, for any
\* builds, datasets, bounds and order of finishing (start, activate_world,
\* _drop_handles).
THEOREM AlwaysReadsBuiltWorld == Spec => []ReadsBuiltWorld
<1>1. PInv => ReadsBuiltWorld
  <2> SUFFICES ASSUME PInv PROVE ReadsBuiltWorld
    OBVIOUS
  <2>1. Types
    BY DEF PInv
  <2>2. ASSUME NEW j \in Jobs
        PROVE  /\ log[j].next \in 1 .. MaxFinds + 2
               /\ log[j].kept \in Seq(1 .. log[j].next - 1) /\ Len(log[j].kept) <= MaxEvents
    <3>1. LogShape(log[j]) /\ Stage(worker[j], status[j], j \in onDisk, log[j].next)
      BY DEF PInv, JobSound
    <3>2. log[j].next \in Nat \ {0} /\ log[j].next <= MaxFinds + 2 /\ Len(log[j].kept) <= MaxEvents
      BY <3>1 DEF LogShape, Stage
    <3>3. log[j].next \in 1 .. MaxFinds + 2
      BY <3>2, BoundAssumption
    <3> QED BY <3>1, <3>2, <3>3, AllEvents
  <2>3. \A j \in Jobs : client[j].at \in {"idle", "polling", "replied", "leaving", "over"}
                        /\ client[j].frame \in {"none", "asked", "lost"}
                        /\ chosen[j] \subseteq Datasets
                        /\ worker[j] \in WorkerStates /\ status[j] \in Statuses
    BY <2>1 DEF Types, Clients
  <2>4. TypeOK
    BY <2>1, <2>2, <2>3 DEF TypeOK, Types, WorkerStates, Statuses
  <2> QED BY <2>4 DEF ReadsBuiltWorld, PInv
<1> QED BY <1>1, BuildInvariance, PTL

\* A client that was told "done" was given every event the log still holds; what
\* it draws and queues of what it was given comes once and in order, and is all
\* of it until a frame is cancelled (PlaygroundJob.snapshot, JobEventLog.since,
\* pollBuild, queueEvents, pumpEvents, finishBuild).
THEOREM WatcherAlwaysServed == Spec => []WatcherServed
<1>1. PInv => WatcherServed
  <2> SUFFICES ASSUME PInv, NEW j \in Watched
               PROVE  /\ client[j].at \in {"leaving", "over"} /\ client[j].shown = "done"
                         /\ status[j] # "gone" => Range(log[j].kept) \subseteq Range(client[j].got)
                      /\ \A m, n \in DOMAIN Comes(client[j]) :
                           m < n => Comes(client[j])[m] < Comes(client[j])[n]
                      /\ client[j].frame # "lost" =>
                           /\ Comes(client[j]) = client[j].got
                           /\ client[j].queue # <<>> <=> client[j].frame = "asked"
    BY DEF WatcherServed, DoneSeesTail, DrawnInOrder, NothingSkipped
  <2>1. ClientSound(client[j], log[j], status[j])
    BY JobsAssumption DEF PInv, JobSound
  <2> QED BY <2>1 DEF ClientSound, PageSound, Increasing
<1> QED BY <1>1, BuildInvariance, PTL
=============================================================================

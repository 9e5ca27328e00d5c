------------------------ MODULE IncrementalER_proofs ------------------------
(***************************************************************************)
(* Theorems about IncrementalER, for either kind, any mentions, names,     *)
(* aircraft, bucket index, window, pivot orders and deltas, whatever the   *)
(* judgements are and whichever calls raise.                               *)
(*                                                                         *)
(* The argument: a mention has one node, so a group belongs to one, and    *)
(* what a settling call takes up shares no mention with the clusters it leaves  *)
(* alone (RInv).  The pivot loop is a recursive function; that it exists   *)
(* and what each stage keeps is shown by the least stage at which it would *)
(* fail.  A pair that blocking proposes has been judged, or is pending, or *)
(* belongs to a call that raised and is not repeated yet.  More entries    *)
(* put two nodes never closer in the sorted keys, be they entries of new   *)
(* nodes or of one listed again, so what an earlier call had no reason to  *)
(* judge a later one, that touches neither, has none to.                   *)
(***************************************************************************)
EXTENDS IncrementalER, Subsequences_proofs

-----------------------------------------------------------------------------
(* The invariant.                                                          *)

\* A mention is in the group of its name, and in no other.
GroupsTyped ==
  /\ Registered \subseteq Nodes /\ DOMAIN tails = Registered
  /\ \A n \in Registered : group[n] # {} /\ \A m \in group[n] : m \in Mentions /\ NodeOf[m] = n

\* An entry of the sorted keys is of a registered node, and was made by a call.
\* The nodes of operators are listed once.
KeysTyped ==
  /\ cycles \in Nat /\ snmKeys \subseteq Registered \X (0 .. cycles)
  /\ kind = "operator" => snmKeys = Once(Registered)

PairsOver(ns) == {p \in ns \X ns : p[1] < p[2]}

PairsTyped == edges \subseteq decided /\ decided \subseteq PairsOver(Registered)

\* The call in progress has registered its mentions.  A batch run comes first.
CallTyped ==
  call # Idle =>
    /\ call = [state |-> call.state, delta |-> call.delta, touched |-> call.touched,
               pending |-> call.pending, same |-> call.same]
    /\ call.state \in {"run", "add"}
    /\ call.touched = {NodeOf[m] : m \in call.delta}
    /\ \A m \in call.delta : NodeOf[m] \in Registered /\ m \in group[NodeOf[m]]
    /\ call.pending \subseteq PairsOver(Registered) /\ call.same \subseteq edges
    /\ \A p \in call.pending : p[1] \in call.touched \/ p[2] \in call.touched
    /\ call.state = "run" => DOMAIN clusters = {} /\ DOMAIN nodeUri = {} /\ DOMAIN mentionUri = {}

Pivot(p, ns) == \A n \in ns \ {p} : Pair(p, n) \in edges

\* A cluster u, and what the lookup tables say of its nodes and mentions.  The
\* groups of its nodes may have grown since.
ClusterTyped(u) ==
  /\ clusters[u].anchor = u /\ u \in clusters[u].mentions
  /\ \A n \in clusters[u].nodes : n \in DOMAIN nodeUri /\ nodeUri[n] = u
  /\ \A m \in clusters[u].mentions :
       /\ m \in DOMAIN mentionUri /\ mentionUri[m] = u
       /\ NodeOf[m] \in clusters[u].nodes /\ m \in group[NodeOf[m]]
  /\ \E p \in clusters[u].nodes : Pivot(p, clusters[u].nodes)

ResolvedTyped ==
  /\ DOMAIN nodeUri \subseteq Registered
  /\ \A u \in DOMAIN clusters : ClusterTyped(u)
  /\ \A n \in DOMAIN nodeUri : nodeUri[n] \in DOMAIN clusters /\ n \in clusters[nodeUri[n]].nodes
  /\ \A m \in DOMAIN mentionUri : mentionUri[m] \in DOMAIN clusters /\ m \in clusters[mentionUri[m]].mentions

\* A mention that has no cluster is one of the call in progress, or of a call
\* that raised.
NothingLost ==
  \A n \in Registered : \A m \in group[n] :
    m \in DOMAIN mentionUri \/ m \in unfinished \/ (call # Idle /\ m \in call.delta)

\* A pair that nobody has judged yet is pending, or it was when a call raised,
\* whose mentions no call has taken up again.
Excused(p) == \E m \in unfinished : NodeOf[m] = p[1] \/ NodeOf[m] = p[2]
NothingMissed ==
  \A p \in CandidatePairs(Registered, tails, snmKeys) :
    \/ p \in decided
    \/ call # Idle /\ p \in call.pending
    \/ Excused(p) /\ (call # Idle => p[1] \notin call.touched /\ p[2] \notin call.touched)

RInv ==
  /\ order \in PivotOrders
  /\ GroupsTyped /\ KeysTyped /\ PairsTyped /\ CallTyped /\ ResolvedTyped
  /\ NothingLost /\ NothingMissed

-----------------------------------------------------------------------------
(* Pivot clustering.                                                       *)

\* The least of a set of numbers.
LEMMA LeastNumber ==
  ASSUME NEW S \in SUBSET Nat, S # {}
  PROVE  Min(S) \in S /\ \A s \in S : Min(S) <= s
<1>1. \E m \in S : \A s \in S : m <= s
  BY FirstPosition
<1> QED BY <1>1 DEF Min

\* The stages of kwikcluster are what its loop says.
LEMMA StagesAre ==
  ASSUME NEW ns \in SUBSET Nodes, NEW es, order \in PivotOrders
  PROVE  /\ Stages(ns, es)[0] = {}
         /\ \A i \in 1 .. Len(order) :
              Stages(ns, es)[i] = WithPivot(Stages(ns, es)[i - 1], order[i], ns, es)
<1> DEFINE n == Len(order)
           S == SUBSET SUBSET ns
           F == [i \in 1 .. n |-> [parts \in S |-> WithPivot(parts, order[i], ns, es)]]
           Body(g) == [i \in 0 .. n |-> IF i = 0 THEN {} ELSE WithPivot(g[i - 1], order[i], ns, es)]
<1>1. n \in Nat
  BY OrdersAssumption
<1>2. \A parts \in S : \A p : WithPivot(parts, p, ns, es) \in S
  BY DEF WithPivot
<1>3. \A i \in 1 .. n : \A parts \in S : F[i][parts] = WithPivot(parts, order[i], ns, es)
  OBVIOUS
<1>4. {} \in S
  OBVIOUS
<1> HIDE DEF F, n, S
<1>5. PICK g : Recorded(g, n, S, {}, F)
  <2>1. \A i \in 1 .. n : \A parts \in S : F[i][parts] \in S
    BY <1>2, <1>3
  <2> QED BY <1>1, <1>4, <2>1, StagesOf
<1>6. /\ g \in [0 .. n -> S] /\ g[0] = {}
      /\ \A i \in 1 .. n : g[i] = WithPivot(g[i - 1], order[i], ns, es)
  <2>1. g \in [0 .. n -> S] /\ g[0] = {} /\ \A i \in 1 .. n : g[i] = F[i][g[i - 1]]
    BY <1>5 DEF Recorded
  <2> SUFFICES ASSUME NEW i \in 1 .. n PROVE g[i] = WithPivot(g[i - 1], order[i], ns, es)
    BY <2>1
  <2>2. i - 1 \in 0 .. n
    BY <1>1
  <2>3. g[i - 1] \in S
    BY <2>1, <2>2
  <2> QED BY <1>3, <2>1, <2>3
<1>7. g = Body(g)
  <2>1. \A i \in 0 .. n : i # 0 => i \in 1 .. n
    BY <1>1
  <2>2. \A i \in 0 .. n : g[i] = IF i = 0 THEN {} ELSE WithPivot(g[i - 1], order[i], ns, es)
    BY <1>6, <2>1
  <2> QED BY <1>6, <2>2
<1>8. Stages(ns, es) = CHOOSE f : f = Body(f)
  BY DEF Stages, n
<1>9. Stages(ns, es) = Body(Stages(ns, es))
  BY <1>7, <1>8
<1> DEFINE P == Stages(ns, es)
<1> HIDE DEF P
<1>10. P = [i \in 0 .. n |-> IF i = 0 THEN {} ELSE WithPivot(P[i - 1], order[i], ns, es)]
  BY <1>9 DEF P
<1>11. 0 \in 0 .. n /\ \A i \in 1 .. n : i \in 0 .. n /\ i # 0
  BY <1>1
<1>12. P[0] = {}
  BY <1>10, <1>11
<1>13. \A i \in 1 .. n : P[i] = WithPivot(P[i - 1], order[i], ns, es)
  BY <1>10, <1>11
<1> QED BY <1>12, <1>13 DEF P, n

\* Parts of ns that overlap nowhere, each with a pivot.
Parting(parts, ns, es) ==
  /\ parts \in SUBSET SUBSET ns
  /\ \A a, b \in parts : \A n \in a : n \in b => a = b
  /\ \A a \in parts : \E p \in a : \A n \in a \ {p} : Pair(p, n) \in es

LEMMA PivotParts ==
  ASSUME NEW ns, NEW es, NEW parts, Parting(parts, ns, es), NEW p
  PROVE  /\ Parting(WithPivot(parts, p, ns, es), ns, es)
         /\ UNION parts \subseteq UNION WithPivot(parts, p, ns, es)
         /\ p \in ns => p \in UNION WithPivot(parts, p, ns, es)
<1> DEFINE more == WithPivot(parts, p, ns, es)
           new == {p} \cup {u \in ns \ UNION parts : Pair(p, u) \in es}
<1>1. CASE p \notin ns \/ p \in UNION parts
  BY <1>1 DEF WithPivot
<1>2. CASE p \in ns /\ p \notin UNION parts
  <2>1. more = parts \cup {new}
    BY <1>2 DEF WithPivot
  <2>2. new \subseteq ns \ UNION parts /\ p \in new
    BY <1>2
  <2>3. \A n \in new \ {p} : Pair(p, n) \in es
    OBVIOUS
  <2> HIDE DEF new, more
  <2>4. more \in SUBSET SUBSET ns
    BY <2>1, <2>2 DEF Parting
  <2>5. \A a, b \in more : \A n \in a : n \in b => a = b
    BY <2>1, <2>2 DEF Parting
  <2>6. \A a \in more : \E q \in a : \A n \in a \ {q} : Pair(q, n) \in es
    BY <2>1, <2>2, <2>3 DEF Parting
  <2> QED BY <2>1, <2>2, <2>4, <2>5, <2>6 DEF Parting, more
<1> QED BY <1>1, <1>2

\* kwikcluster divides the nodes it is given.
LEMMA KwikClusterParts ==
  ASSUME NEW ns \in SUBSET Nodes, NEW es, order \in PivotOrders
  PROVE  Parting(KwikCluster(ns, es), ns, es) /\ UNION KwikCluster(ns, es) = ns
<1> DEFINE n == Len(order)
           P == Stages(ns, es)
           Good == {i \in 0 .. n : /\ Parting(P[i], ns, es)
                                   /\ \A j \in 1 .. i : order[j] \in ns => order[j] \in UNION P[i]}
<1>1. /\ n \in Nat /\ Range(order) = Nodes
      /\ \A m \in Nodes : \E j \in 1 .. n : order[j] = m
  BY OrdersAssumption DEF Range
<1>2. P[0] = {} /\ \A i \in 1 .. n : P[i] = WithPivot(P[i - 1], order[i], ns, es)
  BY StagesAre
<1> HIDE DEF n, P
<1>3. 0 \in Good
  <2>1. Parting({}, ns, es)
    BY DEF Parting
  <2>2. 0 \in 0 .. n /\ \A j \in 1 .. 0 : FALSE
    BY <1>1
  <2> QED BY <1>2, <2>1, <2>2
<1>4. ASSUME NEW i \in 1 .. n, i - 1 \in Good PROVE i \in Good
  <2>1. /\ Parting(P[i - 1], ns, es) /\ i \in 0 .. n
        /\ \A j \in 1 .. (i - 1) : order[j] \in ns => order[j] \in UNION P[i - 1]
    BY <1>1, <1>4
  <2>2. /\ Parting(P[i], ns, es) /\ UNION P[i - 1] \subseteq UNION P[i]
        /\ order[i] \in ns => order[i] \in UNION P[i]
    BY <1>2, <2>1, PivotParts
  <2>3. ASSUME NEW j \in 1 .. i, order[j] \in ns PROVE order[j] \in UNION P[i]
    <3>1. j = i \/ j \in 1 .. (i - 1)
      OBVIOUS
    <3> QED BY <2>1, <2>2, <2>3, <3>1
  <2> QED BY <2>1, <2>2, <2>3
<1> HIDE DEF Good
<1>5. n \in Good
  BY <1>1, <1>3, <1>4, StageInduction
<1>6. Parting(P[n], ns, es) /\ \A j \in 1 .. n : order[j] \in ns => order[j] \in UNION P[n]
  BY <1>5 DEF Good
<1>7. UNION P[n] = ns
  <2>1. UNION P[n] \subseteq ns
    BY <1>6 DEF Parting
  <2>2. ns \subseteq UNION P[n]
    BY <1>1, <1>6
  <2> QED BY <2>1, <2>2
<1> QED BY <1>6, <1>7 DEF KwikCluster, n, P

-----------------------------------------------------------------------------
(* URIs.                                                                   *)

MentionsIn(part) == UNION {group[n] : n \in part}
AnchorIn(part, prior) == Anchor(MentionsIn(part), prior)

\* The mentions of nodes tell the nodes.
LEMMA MentionsOfNodes ==
  ASSUME GroupsTyped, NEW ns \in SUBSET Registered
  PROVE  /\ MentionsIn(ns) \in SUBSET Mentions
         /\ \A m \in MentionsIn(ns) : NodeOf[m] \in ns /\ m \in group[NodeOf[m]]
         /\ \A n \in ns : group[n] \subseteq MentionsIn(ns)
         /\ ns # {} => MentionsIn(ns) # {}
BY DEF GroupsTyped, MentionsIn

\* The anchor is a mention of the cluster, and an earlier one if there is any.
LEMMA AnchorOfPart ==
  ASSUME NEW ms \in SUBSET Nat, ms # {}, NEW prior, \A u \in DOMAIN prior : prior[u].anchor = u
  PROVE  /\ Anchor(ms, prior) \in ms
         /\ \A u \in DOMAIN prior \cap ms :
              Anchor(ms, prior) \in DOMAIN prior /\ Anchor(ms, prior) <= u
<1> DEFINE here == {prior[u].anchor : u \in DOMAIN prior} \cap ms
<1>1. here = DOMAIN prior \cap ms
  OBVIOUS
<1>2. Anchor(ms, prior) = IF here # {} THEN Min(here) ELSE Min(ms)
  BY DEF Anchor
<1> HIDE DEF here
<1>3. here \in SUBSET Nat
  BY <1>1
<1>4. here # {} => Min(here) \in here /\ \A s \in here : Min(here) <= s
  BY <1>3, LeastNumber
<1>5. Min(ms) \in ms
  BY LeastNumber
<1> QED BY <1>1, <1>2, <1>4, <1>5

\* What assign_uris makes of the parts: clusters, each with the URI of its
\* anchor, which tells the part.
Anchored(next, parts, prior) ==
  /\ \A u \in DOMAIN next :
       /\ next[u].anchor = u /\ next[u].nodes \in parts
       /\ next[u].mentions = MentionsIn(next[u].nodes) /\ u \in next[u].mentions
       /\ \A v \in DOMAIN prior \cap next[u].mentions : u \in DOMAIN prior /\ u <= v
  /\ \A part \in parts : \E u \in DOMAIN next : next[u].nodes = part
  /\ \A u, v \in DOMAIN next : next[u].nodes = next[v].nodes => u = v

LEMMA AssignedClusters ==
  ASSUME GroupsTyped, NEW ns \in SUBSET Registered, NEW es, NEW parts, Parting(parts, ns, es),
         NEW prior, \A u \in DOMAIN prior : prior[u].anchor = u,
         NEW next, next = Assigned(parts, group, prior)
  PROVE  Anchored(next, parts, prior)
<1> DEFINE A(part) == AnchorIn(part, prior)
           U == {A(part) : part \in parts}
           Part(a) == CHOOSE q \in parts : A(q) = a
<1>1. \A part \in parts : part \in SUBSET Registered /\ part # {} /\ part \subseteq ns
  BY DEF Parting
<1>2. \A part \in parts : MentionsIn(part) \in SUBSET Nat /\ MentionsIn(part) # {}
  BY <1>1, MentionsOfNodes, MentionsAssumption
<1>3. \A part \in parts :
        /\ A(part) \in MentionsIn(part)
        /\ \A v \in DOMAIN prior \cap MentionsIn(part) : A(part) \in DOMAIN prior /\ A(part) <= v
  BY <1>2, AnchorOfPart DEF AnchorIn
<1>4. \A a, b \in parts : A(a) = A(b) => a = b
  <2> SUFFICES ASSUME NEW a \in parts, NEW b \in parts, A(a) = A(b) PROVE a = b
    OBVIOUS
  <2>1. A(a) \in MentionsIn(a) /\ A(a) \in MentionsIn(b)
    BY <1>3
  <2>2. NodeOf[A(a)] \in a /\ NodeOf[A(a)] \in b
    BY <1>1, <2>1, MentionsOfNodes
  <2> QED BY <2>2 DEF Parting
<1>5. next = [a \in U |-> [anchor |-> a, nodes |-> Part(a), mentions |-> MentionsIn(Part(a))]]
  BY DEF Assigned, AnchorIn, MentionsIn
<1>6. \A part \in parts : A(part) \in U
  OBVIOUS
<1>7. \A a \in U : Part(a) \in parts /\ A(Part(a)) = a
  OBVIOUS
<1> HIDE DEF A, U, Part
<1>8. DOMAIN next = U /\ \A a \in U : /\ next[a].anchor = a /\ next[a].nodes = Part(a)
                                      /\ next[a].mentions = MentionsIn(Part(a))
  BY <1>5
<1>9. \A part \in parts : next[A(part)].nodes = part
  BY <1>4, <1>6, <1>7, <1>8
<1>10. \A u \in DOMAIN next :
         /\ next[u].anchor = u /\ next[u].nodes \in parts
         /\ next[u].mentions = MentionsIn(next[u].nodes) /\ u \in next[u].mentions
         /\ \A v \in DOMAIN prior \cap next[u].mentions : u \in DOMAIN prior /\ u <= v
  BY <1>3, <1>7, <1>8
<1>11. \A part \in parts : \E u \in DOMAIN next : next[u].nodes = part
  BY <1>6, <1>8, <1>9
<1>12. \A u, v \in DOMAIN next : next[u].nodes = next[v].nodes => u = v
  BY <1>7, <1>8
<1> QED BY <1>10, <1>11, <1>12 DEF Anchored

\* Every node of ns and every mention of theirs is in one cluster.
Found(next, ns) ==
  /\ \A n \in ns : \E u \in DOMAIN next : n \in next[u].nodes
  /\ \A u \in DOMAIN next : next[u].nodes \subseteq ns
  /\ \A u, v \in DOMAIN next : \A n \in next[u].nodes : n \in next[v].nodes => u = v
  /\ \A m \in MentionsIn(ns) : \E u \in DOMAIN next : m \in next[u].mentions
  /\ \A u \in DOMAIN next : \A m \in next[u].mentions :
       m \in MentionsIn(ns) /\ NodeOf[m] \in next[u].nodes /\ m \in group[NodeOf[m]]
  /\ \A u, v \in DOMAIN next : \A m \in next[u].mentions : m \in next[v].mentions => u = v

LEMMA AssignedLookups ==
  ASSUME GroupsTyped, NEW ns \in SUBSET Registered, NEW es, NEW parts, Parting(parts, ns, es),
         UNION parts = ns, NEW prior, NEW next, Anchored(next, parts, prior)
  PROVE  Found(next, ns)
<1>1. /\ \A u \in DOMAIN next : next[u].nodes \in parts /\ next[u].mentions = MentionsIn(next[u].nodes)
      /\ \A part \in parts : \E u \in DOMAIN next : next[u].nodes = part
      /\ \A u, v \in DOMAIN next : next[u].nodes = next[v].nodes => u = v
  BY DEF Anchored
<1>2. \A n \in ns : \E u \in DOMAIN next : n \in next[u].nodes
  BY <1>1
<1>3. \A u \in DOMAIN next : next[u].nodes \subseteq ns /\ next[u].nodes \in SUBSET Registered
  BY <1>1
<1>4. \A u, v \in DOMAIN next : \A n \in next[u].nodes : n \in next[v].nodes => u = v
  BY <1>1 DEF Parting
<1>5. \A u \in DOMAIN next : \A m \in next[u].mentions : NodeOf[m] \in next[u].nodes /\ m \in group[NodeOf[m]]
  BY <1>1, <1>3, MentionsOfNodes
<1>6. \A u, v \in DOMAIN next : \A m \in next[u].mentions : m \in next[v].mentions => u = v
  BY <1>4, <1>5
<1>7. \A u \in DOMAIN next : \A m \in next[u].mentions : m \in MentionsIn(ns)
  BY <1>3, <1>5 DEF MentionsIn
<1>8. \A m \in MentionsIn(ns) : \E u \in DOMAIN next : m \in next[u].mentions
  <2> SUFFICES ASSUME NEW m \in MentionsIn(ns) PROVE \E u \in DOMAIN next : m \in next[u].mentions
    OBVIOUS
  <2>1. PICK n \in ns : m \in group[n]
    BY DEF MentionsIn
  <2>2. PICK u \in DOMAIN next : n \in next[u].nodes
    BY <1>2
  <2>3. m \in MentionsIn(next[u].nodes)
    BY <2>1, <2>2 DEF MentionsIn
  <2> QED BY <1>1, <2>2, <2>3
<1> QED BY <1>2, <1>3, <1>4, <1>5, <1>6, <1>7, <1>8 DEF Found

-----------------------------------------------------------------------------
(* Clustering again.                                                       *)

\* The scope of a call: nodes without a cluster, and those of the clusters it
\* takes up.
Scope(scope, touched) ==
  /\ scope \subseteq Registered /\ touched \subseteq DOMAIN clusters
  /\ \A u \in touched : clusters[u].nodes \subseteq scope
  /\ \A n \in scope \cap DOMAIN nodeUri : nodeUri[n] \in touched

\* What clustering again leaves: the new clusters next, and the others.
Replaced(next, scope, touched) ==
  /\ \A u \in DOMAIN next :
       /\ next[u].anchor = u /\ u \in next[u].mentions
       /\ \A n \in next[u].nodes : n \in scope /\ nodeUri'[n] = u
       /\ \A m \in next[u].mentions :
            /\ m \in MentionsIn(scope) /\ mentionUri'[m] = u
            /\ NodeOf[m] \in next[u].nodes /\ m \in group[NodeOf[m]]
       /\ \E p \in next[u].nodes : Pivot(p, next[u].nodes)
       /\ \A v \in touched \cap next[u].mentions : u \in touched /\ u <= v
  /\ DOMAIN clusters' = (DOMAIN clusters \ touched) \cup DOMAIN next
  /\ \A u \in DOMAIN next : clusters'[u] = next[u]
  /\ \A u \in DOMAIN clusters \ touched : u \notin DOMAIN next /\ clusters'[u] = clusters[u]
  /\ DOMAIN nodeUri' = DOMAIN nodeUri \cup scope
  /\ DOMAIN mentionUri' = DOMAIN mentionUri \cup MentionsIn(scope)
  /\ \A n \in scope : nodeUri'[n] \in DOMAIN next /\ n \in next[nodeUri'[n]].nodes
  /\ \A m \in MentionsIn(scope) : mentionUri'[m] \in DOMAIN next /\ m \in next[mentionUri'[m]].mentions
  /\ \A n \in DOMAIN nodeUri \ scope : nodeUri'[n] = nodeUri[n]
  /\ \A m \in DOMAIN mentionUri \ MentionsIn(scope) : mentionUri'[m] = mentionUri[m]

\* Clusters that are not taken up stay, and no new one takes the URI of one.
LEMMA ReclusteredTables ==
  ASSUME order \in PivotOrders, GroupsTyped, ResolvedTyped, NEW scope, NEW touched,
         Scope(scope, touched), Reclustered(scope, Restrict(clusters, touched))
  PROVE  \E next : Replaced(next, scope, touched)
<1> DEFINE within == {e \in edges : e[1] \in scope /\ e[2] \in scope}
           prior == Restrict(clusters, touched)
           K == KwikCluster(scope, within)
           next == Assigned(K, group, prior)
           UriOfNode(n) == CHOOSE u \in DOMAIN next : n \in next[u].nodes
           UriOfMention(m) == CHOOSE u \in DOMAIN next : m \in next[u].mentions
           M == MentionsIn(scope)
<1>1. DOMAIN prior = touched /\ \A u \in touched : prior[u] = clusters[u] /\ prior[u].anchor = u
  BY DEF Restrict, Scope, ResolvedTyped, ClusterTyped
<1>2. scope \in SUBSET Registered /\ scope \in SUBSET Nodes
  BY DEF Scope, GroupsTyped
<1>3. Parting(K, scope, within) /\ UNION K = scope
  BY <1>2, KwikClusterParts
<1>4. /\ clusters' = Updated(Restrict(clusters, DOMAIN clusters \ DOMAIN prior), next)
      /\ nodeUri' = Updated(nodeUri, [n \in scope |-> UriOfNode(n)])
      /\ mentionUri' = Updated(mentionUri, [m \in M |-> UriOfMention(m)])
  BY DEF Reclustered, MentionsIn
<1> HIDE DEF prior, K
<1>5. Anchored(next, K, prior)
  <2>1. \A u \in DOMAIN prior : prior[u].anchor = u
    BY <1>1
  <2> QED BY <1>2, <1>3, <2>1, AssignedClusters
<1>6. Found(next, scope)
  BY <1>2, <1>3, <1>5, AssignedLookups
<1> HIDE DEF next
<1>7. \A n \in scope : UriOfNode(n) \in DOMAIN next /\ n \in next[UriOfNode(n)].nodes
  BY <1>6 DEF Found
<1>8. \A m \in M : UriOfMention(m) \in DOMAIN next /\ m \in next[UriOfMention(m)].mentions
  BY <1>6 DEF Found, M
<1> HIDE DEF UriOfNode, UriOfMention, M
<1>9. \A u \in DOMAIN next : \A n \in next[u].nodes : n \in scope /\ UriOfNode(n) = u
  BY <1>6, <1>7 DEF Found
<1>10. \A u \in DOMAIN next : \A m \in next[u].mentions : m \in M /\ UriOfMention(m) = u
  BY <1>6, <1>8 DEF Found, M
<1>11. /\ DOMAIN nodeUri' = DOMAIN nodeUri \cup scope
       /\ \A n \in scope : nodeUri'[n] = UriOfNode(n)
       /\ \A n \in DOMAIN nodeUri \ scope : nodeUri'[n] = nodeUri[n]
  BY <1>4 DEF Updated
<1>12. /\ DOMAIN mentionUri' = DOMAIN mentionUri \cup M
       /\ \A m \in M : mentionUri'[m] = UriOfMention(m)
       /\ \A m \in DOMAIN mentionUri \ M : mentionUri'[m] = mentionUri[m]
  BY <1>4 DEF Updated
<1>13. \A u \in DOMAIN clusters \ touched : u \notin DOMAIN next
  <2> SUFFICES ASSUME NEW u \in DOMAIN clusters \ touched, u \in DOMAIN next PROVE FALSE
    OBVIOUS
  <2>1. NodeOf[u] \in scope
    BY <1>5, <1>6 DEF Anchored, Found
  <2>2. u \in clusters[u].mentions /\ NodeOf[u] \in DOMAIN nodeUri /\ nodeUri[NodeOf[u]] = u
    BY DEF ResolvedTyped, ClusterTyped
  <2> QED BY <2>1, <2>2 DEF Scope
<1>14. /\ DOMAIN clusters' = (DOMAIN clusters \ touched) \cup DOMAIN next
       /\ \A u \in DOMAIN next : clusters'[u] = next[u]
       /\ \A u \in DOMAIN clusters \ touched : clusters'[u] = clusters[u]
  <2>1. clusters' = Updated([u \in DOMAIN clusters \ touched |-> clusters[u]], next)
    BY <1>1, <1>4 DEF Restrict
  <2> QED BY <1>13, <2>1 DEF Updated
<1>15. \A u \in DOMAIN next : \E p \in next[u].nodes : Pivot(p, next[u].nodes)
  BY <1>3, <1>5 DEF Parting, Pivot, Anchored
<1>16. \A u \in DOMAIN next :
         /\ next[u].anchor = u /\ u \in next[u].mentions
         /\ \A n \in next[u].nodes : n \in scope /\ nodeUri'[n] = u
         /\ \A m \in next[u].mentions :
              /\ m \in M /\ mentionUri'[m] = u
              /\ NodeOf[m] \in next[u].nodes /\ m \in group[NodeOf[m]]
         /\ \A v \in touched \cap next[u].mentions : u \in touched /\ u <= v
  BY <1>1, <1>5, <1>6, <1>9, <1>10, <1>11, <1>12 DEF Anchored, Found
<1>17. /\ \A n \in scope : nodeUri'[n] \in DOMAIN next /\ n \in next[nodeUri'[n]].nodes
       /\ \A m \in M : mentionUri'[m] \in DOMAIN next /\ m \in next[mentionUri'[m]].mentions
  BY <1>7, <1>8, <1>11, <1>12
<1>18. Replaced(next, scope, touched)
  BY <1>11, <1>12, <1>13, <1>14, <1>15, <1>16, <1>17 DEF M, Replaced
<1> QED BY <1>18

\* The tables agree again.
LEMMA ReclusteredResolved ==
  ASSUME GroupsTyped, ResolvedTyped, NEW scope, NEW touched, Scope(scope, touched),
         NEW next, Replaced(next, scope, touched), edges' = edges, group' = group, NodeOf' = NodeOf
  PROVE  ResolvedTyped'
<1>1. \A u \in DOMAIN clusters \ touched :
        /\ \A n \in clusters[u].nodes : n \in DOMAIN nodeUri /\ nodeUri[n] = u /\ n \notin scope
        /\ \A m \in clusters[u].mentions :
             /\ m \in DOMAIN mentionUri /\ mentionUri[m] = u
             /\ NodeOf[m] \in clusters[u].nodes /\ m \in group[NodeOf[m]]
  BY DEF ResolvedTyped, ClusterTyped, Scope
<1>2. \A m \in MentionsIn(scope) : NodeOf[m] \in scope
  BY MentionsOfNodes DEF Scope
<1>3. ASSUME NEW u \in DOMAIN clusters' PROVE ClusterTyped(u)'
  <2>1. CASE u \in DOMAIN next
    <3>1. clusters'[u] = next[u]
      BY <2>1 DEF Replaced
    <3>2. /\ next[u].anchor = u /\ u \in next[u].mentions
          /\ \A n \in next[u].nodes : n \in DOMAIN nodeUri' /\ nodeUri'[n] = u
          /\ \A m \in next[u].mentions :
               /\ m \in DOMAIN mentionUri' /\ mentionUri'[m] = u
               /\ NodeOf[m] \in next[u].nodes /\ m \in group[NodeOf[m]]
          /\ \E p \in next[u].nodes : Pivot(p, next[u].nodes)
      BY <2>1 DEF Replaced
    <3> QED BY <3>1, <3>2 DEF ClusterTyped, Pivot
  <2>2. CASE u \notin DOMAIN next
    <3>1. u \in DOMAIN clusters \ touched /\ clusters'[u] = clusters[u]
      BY <2>2 DEF Replaced
    <3>2. \A n \in clusters[u].nodes : n \in DOMAIN nodeUri' /\ nodeUri'[n] = u
      BY <1>1, <3>1 DEF Replaced
    <3>3. \A m \in clusters[u].mentions : m \in DOMAIN mentionUri' /\ mentionUri'[m] = u
      BY <1>1, <1>2, <3>1 DEF Replaced
    <3>4. /\ clusters[u].anchor = u /\ u \in clusters[u].mentions
          /\ \E p \in clusters[u].nodes : Pivot(p, clusters[u].nodes)
      BY <3>1 DEF ResolvedTyped, ClusterTyped
    <3> QED BY <1>1, <3>1, <3>2, <3>3, <3>4 DEF ClusterTyped, Pivot
  <2> QED BY <2>1, <2>2
<1>4. ASSUME NEW n \in DOMAIN nodeUri'
      PROVE  nodeUri'[n] \in DOMAIN clusters' /\ n \in clusters'[nodeUri'[n]].nodes
  <2>1. CASE n \in scope
    BY <2>1 DEF Replaced
  <2>2. CASE n \notin scope
    <3>1. n \in DOMAIN nodeUri /\ nodeUri'[n] = nodeUri[n]
      BY <2>2 DEF Replaced
    <3>2. nodeUri[n] \in DOMAIN clusters /\ n \in clusters[nodeUri[n]].nodes
      BY <3>1 DEF ResolvedTyped
    <3>3. nodeUri[n] \notin touched
      BY <2>2, <3>2 DEF Scope
    <3> QED BY <3>1, <3>2, <3>3 DEF Replaced
  <2> QED BY <2>1, <2>2
<1>5. ASSUME NEW m \in DOMAIN mentionUri'
      PROVE  mentionUri'[m] \in DOMAIN clusters' /\ m \in clusters'[mentionUri'[m]].mentions
  <2>1. CASE m \in MentionsIn(scope)
    BY <2>1 DEF Replaced
  <2>2. CASE m \notin MentionsIn(scope)
    <3>1. m \in DOMAIN mentionUri /\ mentionUri'[m] = mentionUri[m]
      BY <2>2 DEF Replaced
    <3>2. mentionUri[m] \in DOMAIN clusters /\ m \in clusters[mentionUri[m]].mentions
      BY <3>1 DEF ResolvedTyped
    <3>3. NodeOf[m] \in clusters[mentionUri[m]].nodes /\ m \in group[NodeOf[m]]
      BY <3>2 DEF ResolvedTyped, ClusterTyped
    <3>4. mentionUri[m] \notin touched
      BY <2>2, <3>3 DEF Scope, MentionsIn
    <3> QED BY <3>1, <3>2, <3>4 DEF Replaced
  <2> QED BY <2>1, <2>2
<1>6. DOMAIN nodeUri' \subseteq DOMAIN group'
  BY DEF Replaced, Scope, Registered, ResolvedTyped
<1> QED BY <1>3, <1>4, <1>5, <1>6 DEF ResolvedTyped, Registered

-----------------------------------------------------------------------------
(* Blocking.                                                               *)

\* Fewer entries, fewer between two nodes.
LEMMA FewerBetween ==
  ASSUME NEW c \in Nat, NEW more \in SUBSET (Nat \X (0 .. c)), NEW keys \in SUBSET more,
         NEW a \in Nat, NEW b \in Nat
  PROVE  /\ Cardinality(Between(keys, a, b)) \in Nat
         /\ Cardinality(Between(more, a, b)) \in Nat
         /\ Cardinality(Between(keys, a, b)) <= Cardinality(Between(more, a, b))
<1> DEFINE F == Between(keys, a, b)
           G == Between(more, a, b)
<1>1. IsFiniteSet((a .. b) \X (0 .. c))
  <2>1. IsFiniteSet(a .. b) /\ IsFiniteSet(0 .. c)
    BY FS_Interval
  <2> QED BY <2>1, FS_Product
<1>2. G \subseteq (a .. b) \X (0 .. c)
  <2> SUFFICES ASSUME NEW e \in more, a < e[1], e[1] < b PROVE e \in (a .. b) \X (0 .. c)
    BY DEF Between
  <2>1. e = <<e[1], e[2]>> /\ e[1] \in Nat /\ e[2] \in 0 .. c
    OBVIOUS
  <2>2. e[1] \in a .. b
    BY <2>1
  <2> QED BY <2>1, <2>2
<1>3. F \subseteq G
  BY DEF Between
<1> HIDE DEF F, G
<1>4. IsFiniteSet(G)
  BY <1>1, <1>2, FS_Subset
<1>5. IsFiniteSet(F) /\ Cardinality(F) <= Cardinality(G)
  BY <1>3, <1>4, FS_Subset
<1>6. Cardinality(F) \in Nat /\ Cardinality(G) \in Nat
  BY <1>4, <1>5, FS_CardinalityType
<1> QED BY <1>5, <1>6 DEF F, G

\* What a batch run would judge after a delta, of nodes the delta did not touch,
\* it would have judged before.
LEMMA OldCandidates ==
  ASSUME NEW more \in SUBSET Nat, NEW ns \in SUBSET more, NEW seen, NEW later,
         NEW c \in Nat, NEW grown \in SUBSET (Nat \X (0 .. c)), NEW keys \in SUBSET grown,
         NEW p \in CandidatePairs(more, later, grown), p[1] \in ns, p[2] \in ns,
         later[p[1]] = seen[p[1]], later[p[2]] = seen[p[2]]
  PROVE  p \in CandidatePairs(ns, seen, keys)
<1> DEFINE F == Cardinality(Between(keys, p[1], p[2]))
           G == Cardinality(Between(grown, p[1], p[2]))
<1>1. p \in ns \X ns /\ p[1] < p[2]
  BY DEF CandidatePairs
<1>2. \/ seen[p[1]] \cap seen[p[2]] # {} \/ p \in Similar \/ G < Window - 1
  BY DEF CandidatePairs
<1>3. F \in Nat /\ G \in Nat /\ F <= G
  <2>1. p[1] \in Nat /\ p[2] \in Nat
    BY <1>1
  <2> QED BY <2>1, FewerBetween, Zenon
<1>4. Window - 1 \in Nat
  BY MentionsAssumption
<1> HIDE DEF F, G
<1>5. G < Window - 1 => F < Window - 1
  BY <1>3, <1>4
<1> QED BY <1>1, <1>2, <1>5 DEF CandidatePairs, F

\* The delta passes make every pair a batch run would judge that they touch, and
\* no others.
LEMMA DeltaCandidates ==
  ASSUME NEW ns \in SUBSET Nat, NEW seen, NEW keys, NEW touched \in SUBSET ns
  PROVE  /\ \A p \in CandidatePairsFor(touched, ns, seen, keys) :
              p \in PairsOver(ns) /\ (p[1] \in touched \/ p[2] \in touched)
         /\ \A p \in CandidatePairs(ns, seen, keys) :
              p[1] \in touched \/ p[2] \in touched => p \in CandidatePairsFor(touched, ns, seen, keys)
<1>1. \A a, b \in Nat :
        a # b => (Pair(a, b) = <<a, b>> /\ a < b) \/ (Pair(a, b) = <<b, a>> /\ b < a)
  BY DEF Pair
<1>2. ASSUME NEW p \in CandidatePairsFor(touched, ns, seen, keys)
      PROVE  p \in PairsOver(ns) /\ (p[1] \in touched \/ p[2] \in touched)
  <2>1. PICK t \in touched : \E n \in ns \ {t} : p = Pair(t, n)
    BY DEF CandidatePairsFor
  <2>2. PICK n \in ns \ {t} : p = Pair(t, n)
    BY <2>1
  <2>3. t \in ns /\ t \in Nat /\ n \in Nat /\ t # n
    OBVIOUS
  <2>4. (p = <<t, n>> /\ t < n) \/ (p = <<n, t>> /\ n < t)
    BY <1>1, <2>2, <2>3
  <2> QED BY <2>4 DEF PairsOver
<1>3. ASSUME NEW p \in CandidatePairs(ns, seen, keys), NEW t, NEW n,
             (t = p[1] /\ n = p[2]) \/ (t = p[2] /\ n = p[1]), t \in touched
      PROVE  p \in CandidatePairsFor(touched, ns, seen, keys)
  <2>1. /\ p = <<p[1], p[2]>> /\ p[1] \in ns /\ p[2] \in ns /\ p[1] < p[2]
        /\ \/ seen[p[1]] \cap seen[p[2]] # {} \/ p \in Similar
           \/ Cardinality(Between(keys, p[1], p[2])) < Window - 1
    BY DEF CandidatePairs
  <2>2. t \in ns /\ n \in ns /\ t # n
    BY <1>3, <2>1
  <2>3. Pair(t, n) = p
    BY <1>3, <2>1 DEF Pair
  <2>4. \/ seen[t] \cap seen[n] # {} \/ Pair(t, n) \in Similar \/ Close(keys, t, n)
    BY <1>3, <2>1, <2>2, <2>3 DEF Close
  <2>5. Pair(t, n) \in {Pair(t, x) : x \in {y \in ns \ {t} : \/ seen[t] \cap seen[y] # {}
                                                           \/ Pair(t, y) \in Similar
                                                           \/ Close(keys, t, y)}}
    BY <2>2, <2>4
  <2> QED BY <1>3, <2>3, <2>5 DEF CandidatePairsFor
<1>4. \A p \in CandidatePairs(ns, seen, keys) :
        p[1] \in touched \/ p[2] \in touched => p \in CandidatePairsFor(touched, ns, seen, keys)
  BY <1>3
<1> QED BY <1>2, <1>4

-----------------------------------------------------------------------------
(* The invariant is inductive.                                             *)

\* The nodes of the mentions of a call.
TouchedBy(delta) == {NodeOf[m] : m \in delta}

LEMMA TouchedNodes ==
  ASSUME NEW delta \in SUBSET Mentions
  PROVE  TouchedBy(delta) \in SUBSET Nodes
BY DEF TouchedBy, NodeOf, Nodes

\* The nodes of a call are listed, those of operators once.
LEMMA ListedKeys ==
  ASSUME GroupsTyped, KeysTyped, NEW delta \in SUBSET Mentions,
         NEW touched, touched = TouchedBy(delta), NEW ns, ns = Registered \cup touched,
         NEW i \in Nat, cycles <= i, NEW keys, keys = Listed(delta, i)
  PROVE  /\ keys \subseteq ns \X (0 .. i) /\ snmKeys \subseteq keys
         /\ kind = "operator" => keys = Once(ns)
<1>1. keys = snmKeys \cup Once(touched \ Registered)
               \cup (IF kind = "aircraft" THEN (touched \cap Registered) \X {i} ELSE {})
  BY DEF Listed, TouchedBy
<1>2. cycles \in Nat /\ snmKeys \subseteq Registered \X (0 .. cycles)
  BY DEF KeysTyped
<1>3. 0 .. cycles \subseteq 0 .. i /\ i \in 0 .. i /\ 0 \in 0 .. i
  BY <1>2
<1>4. keys \subseteq ns \X (0 .. i)
  BY <1>1, <1>2, <1>3 DEF Once
<1>5. kind = "operator" => keys = Once(ns)
  <2> SUFFICES ASSUME kind = "operator" PROVE keys = Once(ns)
    OBVIOUS
  <2>1. keys = Once(Registered) \cup Once(touched \ Registered)
    BY <1>1 DEF KeysTyped
  <2> QED BY <2>1 DEF Once
<1> QED BY <1>1, <1>4, <1>5

\* The mentions of a call are registered, and its pairs are to be judged.
LEMMA BeginStep ==
  ASSUME RInv, call = Idle, NEW delta \in SUBSET Mentions, NEW pairs,
         NEW state \in {"run", "add"}, NEW keys, Begin(delta, keys, pairs, state),
         cycles' \in Nat, cycles <= cycles', keys = Listed(delta, cycles'),
         NEW ns, ns = DOMAIN Grouped(delta), NEW later, later = Seen(delta),
         NEW touched, touched = TouchedBy(delta),
         \A p \in pairs : p \in PairsOver(ns) /\ (p[1] \in touched \/ p[2] \in touched),
         \A p \in CandidatePairs(ns, later, keys) :
           p[1] \in touched \/ p[2] \in touched => p \in pairs,
         state = "run" => DOMAIN clusters = {} /\ DOMAIN nodeUri = {} /\ DOMAIN mentionUri = {}
  PROVE  RInv'
<1>0. touched = {NodeOf[m] : m \in delta} /\ touched \in SUBSET Nodes
  BY TouchedNodes DEF TouchedBy
<1>1. /\ group' = Grouped(delta) /\ tails' = later /\ DOMAIN group' = ns /\ snmKeys' = keys
      /\ call' = [state |-> state, delta |-> delta, touched |-> touched,
                  pending |-> pairs \ decided, same |-> {}]
      /\ UNCHANGED <<kind, order, decided, edges, clusters, nodeUri, mentionUri, unfinished>>
      /\ NodeOf' = NodeOf
  <2>1. /\ UNCHANGED <<kind, order, decided, edges, clusters, nodeUri, mentionUri, unfinished>>
        /\ group' = Grouped(delta) /\ tails' = later /\ DOMAIN group' = ns /\ snmKeys' = keys
    BY DEF Begin, resolved, fixed
  <2>2. NodeOf' = NodeOf
    BY <2>1 DEF NodeOf
  <2>3. call' = [state |-> state, delta |-> delta, touched |-> touched,
                 pending |-> pairs \ decided, same |-> {}]
    BY DEF Begin, TouchedBy
  <2> QED BY <2>1, <2>2, <2>3
<1>2. /\ ns = Registered \cup touched
      /\ DOMAIN later = ns
      /\ \A n \in ns : group'[n] = {m \in delta : NodeOf[m] = n}
                                     \cup (IF n \in Registered THEN group[n] ELSE {})
      /\ \A n \in ns \ touched : later[n] = tails[n]
  <2>1. ns = Registered \cup touched /\ DOMAIN later = ns
    BY <1>0 DEF Grouped, Seen
  <2>2. \A n \in ns : group'[n] = {m \in delta : NodeOf[m] = n}
                                    \cup (IF n \in Registered THEN group[n] ELSE {})
    BY <1>1, <2>1 DEF Grouped
  <2>3. \A n \in ns \ touched : later[n] = tails[n]
    <3> SUFFICES ASSUME NEW n \in ns \ touched PROVE later[n] = tails[n]
      OBVIOUS
    <3>1. n \in Registered /\ {m \in delta : NodeOf[m] = n} = {}
      BY <1>0, <2>1
    <3>2. later[n] = {TailOf[m] : m \in {x \in delta : NodeOf[x] = n}} \cup tails[n]
      BY <2>1, <3>1 DEF Seen
    <3> QED BY <3>1, <3>2
  <2> QED BY <2>1, <2>2, <2>3
<1>3. /\ GroupsTyped /\ KeysTyped /\ PairsTyped /\ ResolvedTyped /\ NothingLost /\ NothingMissed
      /\ order \in PivotOrders
  BY DEF RInv
<1>4. \A n \in Registered : n \in ns /\ group[n] \subseteq group'[n]
  BY <1>2
<1>5. \A m \in delta : NodeOf[m] \in ns /\ m \in group'[NodeOf[m]]
  BY <1>0, <1>2
<1>6. GroupsTyped'
  <2>1. ns \subseteq Nodes /\ DOMAIN tails' = ns
    BY <1>0, <1>1, <1>2, <1>3 DEF GroupsTyped
  <2>2. ASSUME NEW n \in ns
        PROVE  group'[n] # {} /\ \A m \in group'[n] : m \in Mentions /\ NodeOf[m] = n
    BY <1>0, <1>2, <1>3 DEF GroupsTyped
  <2> QED BY <1>1, <2>1, <2>2 DEF GroupsTyped, Registered
<1>7. PairsTyped'
  BY <1>1, <1>3, <1>4 DEF PairsTyped, PairsOver, Registered
<1>8. CallTyped'
  <2>1. /\ call'.state = state /\ call'.delta = delta /\ call'.touched = touched
        /\ call'.pending = pairs \ decided /\ call'.same = {}
    BY <1>1
  <2> QED BY <1>0, <1>1, <1>5, <2>1 DEF CallTyped, Registered
<1>9. ResolvedTyped'
  <2>1. ASSUME NEW u \in DOMAIN clusters PROVE ClusterTyped(u)'
    <3>1. ClusterTyped(u) /\ \A n \in clusters[u].nodes : n \in Registered
      BY <1>3 DEF ResolvedTyped, ClusterTyped
    <3>2. \A m \in clusters[u].mentions : NodeOf[m] \in clusters[u].nodes /\ m \in group'[NodeOf[m]]
      BY <1>4, <3>1 DEF ClusterTyped
    <3> QED BY <1>1, <3>1, <3>2 DEF ClusterTyped, Pivot
  <2> QED BY <1>1, <1>3, <1>4, <2>1 DEF ResolvedTyped, Registered
<1>10. NothingLost'
  <2> SUFFICES ASSUME NEW n \in ns, NEW m \in group'[n]
               PROVE  m \in DOMAIN mentionUri \/ m \in unfinished \/ m \in delta
    <3>1. call' # Idle /\ call'.delta = delta
      BY <1>1 DEF Idle
    <3> QED BY <1>1, <3>1 DEF NothingLost, Registered
  <2> QED BY <1>2, <1>3 DEF NothingLost
<1>11. /\ keys \subseteq ns \X (0 .. cycles') /\ snmKeys \subseteq keys
       /\ kind = "operator" => keys = Once(ns)
  <2>1. PICK i \in Nat : i = cycles'
    OBVIOUS
  <2>2. PICK all : all = Registered \cup touched
    OBVIOUS
  <2>3. all = ns
    BY <1>2, <2>2
  <2>4. cycles <= i /\ keys = Listed(delta, i)
    BY <2>1
  <2>5. /\ keys \subseteq all \X (0 .. i) /\ snmKeys \subseteq keys
        /\ kind = "operator" => keys = Once(all)
    BY <1>3, <2>2, <2>4, ListedKeys
  <2> QED BY <2>1, <2>3, <2>5
<1>12. KeysTyped'
  BY <1>1, <1>11 DEF KeysTyped, Registered
<1>13. NothingMissed'
  <2>1. call' # Idle /\ call'.pending = pairs \ decided /\ call'.touched = touched
    BY <1>1 DEF Idle
  <2> SUFFICES ASSUME NEW p \in CandidatePairs(ns, later, keys)
               PROVE  \/ p \in decided \/ p \in pairs
                      \/ Excused(p) /\ p[1] \notin touched /\ p[2] \notin touched
    BY <1>1, <2>1 DEF NothingMissed, Excused, Registered
  <2>2. CASE p[1] \in touched \/ p[2] \in touched
    BY <2>2
  <2>3. CASE p[1] \notin touched /\ p[2] \notin touched
    <3>1. p[1] \in ns /\ p[2] \in ns
      BY DEF CandidatePairs
    <3>2. p[1] \in Registered /\ p[2] \in Registered /\ later[p[1]] = tails[p[1]] /\ later[p[2]] = tails[p[2]]
      BY <1>2, <2>3, <3>1
    <3>3. ns \in SUBSET Nat /\ Registered \in SUBSET ns
      BY <1>0, <1>2, <1>3, MentionsAssumption DEF GroupsTyped
    <3>4. /\ keys \in SUBSET (Nat \X (0 .. cycles')) /\ snmKeys \in SUBSET keys
      BY <1>11, <3>3
    <3>5. p \in CandidatePairs(Registered, tails, snmKeys)
      BY <3>2, <3>3, <3>4, OldCandidates
    <3> QED BY <1>3, <2>3, <3>5 DEF NothingMissed
  <2> QED BY <2>2, <2>3
<1> QED BY <1>1, <1>3, <1>6, <1>7, <1>8, <1>9, <1>10, <1>12, <1>13 DEF RInv

LEMMA RunStep ==
  ASSUME RInv, NEW ms \in Batches, Run(ms)
  PROVE  RInv'
<1>1. PICK touched, later, keys :
        touched = TouchedBy(ms) /\ later = Seen(ms) /\ keys = Listed(ms, 0)
  OBVIOUS
<1>2. PICK pairs : pairs = CandidatePairs(touched, later, keys)
  OBVIOUS
<1>3. /\ call = Idle /\ Registered = {} /\ ms \in SUBSET Mentions
      /\ Begin(ms, keys, pairs, "run") /\ cycles' = cycles
  BY <1>1, <1>2, InputsAssumption DEF Run, TouchedBy
<1>4. PICK ns : ns = DOMAIN Grouped(ms)
  OBVIOUS
<1>5. ns = touched
  BY <1>1, <1>3, <1>4 DEF Grouped, TouchedBy
<1>6. DOMAIN nodeUri = {} /\ DOMAIN clusters = {} /\ DOMAIN mentionUri = {}
  <2>1. ResolvedTyped
    BY DEF RInv
  <2>2. DOMAIN nodeUri = {}
    BY <1>3, <2>1 DEF ResolvedTyped
  <2>3. DOMAIN clusters = {}
    BY <2>1, <2>2 DEF ResolvedTyped, ClusterTyped
  <2> QED BY <2>1, <2>2, <2>3 DEF ResolvedTyped
<1>7. \A p \in pairs : p \in PairsOver(ns) /\ (p[1] \in touched \/ p[2] \in touched)
  BY <1>2, <1>5 DEF CandidatePairs, PairsOver
<1>8. keys = Listed(ms, cycles')
  BY <1>1, <1>3 DEF Listed
<1>9. cycles' \in Nat /\ cycles <= cycles'
  BY <1>3 DEF RInv, KeysTyped
<1>10. "run" \in {"run", "add"}
  OBVIOUS
<1>11. \A p \in CandidatePairs(ns, later, keys) :
         p[1] \in touched \/ p[2] \in touched => p \in pairs
  BY <1>2, <1>5
<1> QED BY <1>1, <1>3, <1>4, <1>6, <1>7, <1>8, <1>9, <1>10, <1>11, BeginStep

LEMMA AddStep ==
  ASSUME RInv, NEW delta \in Deltas, AddMentions(delta)
  PROVE  RInv'
<1>1. PICK touched, ns, later, keys :
        /\ touched = TouchedBy(delta) /\ ns = DOMAIN Grouped(delta)
        /\ later = Seen(delta) /\ keys = Listed(delta, cycles + 1)
  OBVIOUS
<1>2. PICK pairs : pairs = CandidatePairsFor(touched, ns, later, keys)
  OBVIOUS
<1>3. /\ call = Idle /\ delta \in SUBSET Mentions /\ cycles' = cycles + 1
      /\ Begin(delta, keys, pairs, "add")
  BY <1>1, <1>2, InputsAssumption DEF AddMentions, TouchedBy
<1>4. ns \in SUBSET Nat /\ touched \in SUBSET ns
  <2>1. Nodes \subseteq Nat /\ Registered \subseteq Nodes
    BY MentionsAssumption DEF RInv, GroupsTyped
  <2>2. touched \subseteq Nodes
    BY <1>1, <1>3, TouchedNodes
  <2>3. ns = Registered \cup touched
    BY <1>1 DEF Grouped, TouchedBy
  <2> QED BY <2>1, <2>2, <2>3
<1>5. /\ \A p \in pairs : p \in PairsOver(ns) /\ (p[1] \in touched \/ p[2] \in touched)
      /\ \A p \in CandidatePairs(ns, later, keys) : p[1] \in touched \/ p[2] \in touched => p \in pairs
  BY <1>2, <1>4, DeltaCandidates
<1>6. cycles' \in Nat /\ cycles <= cycles'
  BY <1>3 DEF RInv, KeysTyped
<1>7. keys = Listed(delta, cycles')
  BY <1>1, <1>3
<1>8. "add" \in {"run", "add"} /\ "add" # "run"
  OBVIOUS
<1> QED BY <1>1, <1>3, <1>5, <1>6, <1>7, <1>8, BeginStep

\* There is a first pair to be judged.
LEMMA NextPairPending ==
  ASSUME RInv, call # Idle, call.pending # {}
  PROVE  NextPair \in call.pending
<1> DEFINE Q == call.pending
           A == {p[1] : p \in Q}
           B == {p[2] : p \in {q \in Q : q[1] = Min(A)}}
<1>1. Q \subseteq Nat \X Nat
  BY MentionsAssumption DEF RInv, GroupsTyped, CallTyped, PairsOver
<1> HIDE DEF Q
<1>2. A \in SUBSET Nat /\ A # {}
  BY <1>1 DEF Q
<1>3. Min(A) \in A /\ \A a \in A : Min(A) <= a
  BY <1>2, LeastNumber
<1>4. \E q \in Q : q[1] = Min(A)
  BY <1>3
<1>5. \A q \in Q : Min(A) <= q[1] /\ q[1] \in Nat /\ q[2] \in Nat
  BY <1>1, <1>3
<1> DEFINE a == Min(A)
<1> HIDE DEF A
<1>6. B \in SUBSET Nat /\ B # {}
  BY <1>1, <1>4
<1>7. Min(B) \in B /\ \A b \in B : Min(B) <= b
  BY <1>6, LeastNumber
<1>8. PICK p \in Q : p[1] = Min(A) /\ p[2] = Min(B)
  BY <1>7
<1>9. \A q \in Q : q[1] = Min(A) => Min(B) <= q[2]
  BY <1>7
<1> HIDE DEF B
<1>10. \A q \in Q : p[1] < q[1] \/ (p[1] = q[1] /\ p[2] <= q[2])
  <2> SUFFICES ASSUME NEW q \in Q PROVE p[1] < q[1] \/ (p[1] = q[1] /\ p[2] <= q[2])
    OBVIOUS
  <2>1. p[1] \in Nat /\ q[1] \in Nat /\ p[1] <= q[1]
    BY <1>5, <1>8
  <2>2. p[1] < q[1] \/ p[1] = q[1]
    BY <2>1
  <2> QED BY <1>8, <1>9, <2>2
<1> QED BY <1>10 DEF NextPair, Q

LEMMA JudgeStep ==
  ASSUME RInv, NEW same \in BOOLEAN, Judge(same)
  PROVE  RInv'
<1>1. /\ call # Idle /\ call.pending # {} /\ NextPair \in call.pending
      /\ decided' = decided \cup {NextPair}
      /\ edges' = (IF same THEN edges \cup {NextPair} ELSE edges)
      /\ UNCHANGED <<kind, order, group, tails, snmKeys, clusters, nodeUri, mentionUri, cycles, unfinished>>
      /\ NodeOf' = NodeOf
  BY NextPairPending DEF Judge, blocker, resolved, fixed, NodeOf
<1>2. /\ GroupsTyped /\ KeysTyped /\ PairsTyped /\ CallTyped /\ ResolvedTyped /\ NothingLost /\ NothingMissed
      /\ order \in PivotOrders
  BY DEF RInv
<1>3. call = [state |-> call.state, delta |-> call.delta, touched |-> call.touched,
              pending |-> call.pending, same |-> call.same]
  BY <1>1, <1>2 DEF CallTyped
<1>4. call' = [state |-> call.state, delta |-> call.delta, touched |-> call.touched,
               pending |-> call.pending \ {NextPair},
               same |-> IF same THEN call.same \cup {NextPair} ELSE call.same]
  <2>1. PICK c : c = [call EXCEPT !.pending = @ \ {NextPair}, !.same = IF same THEN @ \cup {NextPair} ELSE @]
    OBVIOUS
  <2>2. c = [state |-> call.state, delta |-> call.delta, touched |-> call.touched,
             pending |-> call.pending \ {NextPair},
             same |-> IF same THEN call.same \cup {NextPair} ELSE call.same]
    BY <1>3, <2>1
  <2> QED BY <2>1, <2>2 DEF Judge
<1>5. /\ call' # Idle /\ call'.state = call.state /\ call'.delta = call.delta
      /\ call'.touched = call.touched /\ call'.pending = call.pending \ {NextPair}
      /\ call'.same \subseteq call.same \cup (IF same THEN {NextPair} ELSE {})
  BY <1>1, <1>2, <1>4 DEF Idle, CallTyped
<1>6. PairsTyped'
  BY <1>1, <1>2 DEF PairsTyped, CallTyped, Registered
<1>7. CallTyped'
  <2>1. call' = [state |-> call'.state, delta |-> call'.delta, touched |-> call'.touched,
                 pending |-> call'.pending, same |-> call'.same]
    BY <1>4
  <2>2. call'.same \subseteq edges'
    BY <1>1, <1>2, <1>5 DEF CallTyped
  <2> QED BY <1>1, <1>2, <1>5, <2>1, <2>2 DEF CallTyped, Registered
<1>8. ResolvedTyped'
  <2>1. ASSUME NEW u \in DOMAIN clusters PROVE ClusterTyped(u)'
    BY <1>1, <1>2 DEF ResolvedTyped, ClusterTyped, Pivot
  <2> QED BY <1>1, <1>2, <2>1 DEF ResolvedTyped, Registered
<1>9. NothingLost'
  BY <1>1, <1>2, <1>5 DEF NothingLost, Registered
<1>10. NothingMissed'
  BY <1>1, <1>2, <1>5 DEF NothingMissed, Excused, Registered
<1>11. GroupsTyped' /\ KeysTyped'
  BY <1>1, <1>2 DEF GroupsTyped, KeysTyped, Registered
<1> QED BY <1>1, <1>2, <1>6, <1>7, <1>8, <1>9, <1>10, <1>11 DEF RInv

\* A call that raises leaves its mentions and its judgements.
LEMMA RaiseStep ==
  ASSUME RInv, JudgeRaises
  PROVE  RInv'
<1>1. /\ call # Idle /\ call' = Idle /\ unfinished' = unfinished \cup call.delta
      /\ UNCHANGED <<kind, order, group, tails, snmKeys, decided, edges, clusters, nodeUri, mentionUri, cycles>>
      /\ NodeOf' = NodeOf
  BY DEF JudgeRaises, blocker, resolved, fixed, NodeOf
<1>2. /\ GroupsTyped /\ KeysTyped /\ PairsTyped /\ CallTyped /\ ResolvedTyped /\ NothingLost /\ NothingMissed
      /\ order \in PivotOrders
  BY DEF RInv
<1>3. GroupsTyped' /\ KeysTyped' /\ PairsTyped' /\ CallTyped' /\ ResolvedTyped'
  BY <1>1, <1>2 DEF GroupsTyped, KeysTyped, PairsTyped, CallTyped, ResolvedTyped, ClusterTyped, Pivot, Registered
<1>4. NothingLost'
  BY <1>1, <1>2 DEF NothingLost, Registered
<1>5. \A p \in call.pending : \E m \in call.delta : NodeOf[m] = p[1] \/ NodeOf[m] = p[2]
  BY <1>1, <1>2 DEF CallTyped
<1>6. NothingMissed'
  BY <1>1, <1>2, <1>5 DEF NothingMissed, Excused, Registered
<1> QED BY <1>1, <1>2, <1>3, <1>4, <1>6 DEF RInv

\* The clusters a call takes up, and the nodes it clusters again.
TakenUp == IF call.state = "run" THEN {} ELSE TouchedUris
InScope == (call.touched \ DOMAIN nodeUri) \cup UNION {clusters[u].nodes : u \in TakenUp}

LEMMA SettleScope ==
  ASSUME RInv, Settle
  PROVE  /\ call # Idle /\ call.pending = {} /\ call' = Idle /\ unfinished' = unfinished \ call.delta
         /\ UNCHANGED <<kind, order, group, tails, snmKeys, decided, edges, cycles>> /\ NodeOf' = NodeOf
         /\ Reclustered(InScope, Restrict(clusters, TakenUp))
         /\ Scope(InScope, TakenUp) /\ call.touched \subseteq InScope
<1>1. /\ call # Idle /\ call.pending = {} /\ call' = Idle /\ unfinished' = unfinished \ call.delta
      /\ UNCHANGED <<kind, order, group, tails, snmKeys, decided, edges, cycles>> /\ NodeOf' = NodeOf
      /\ Reclustered(InScope, Restrict(clusters, TakenUp))
  BY DEF Settle, blocker, fixed, NodeOf, InScope, TakenUp
<1>2. CallTyped /\ ResolvedTyped
  BY DEF RInv
<1>3. call.touched \subseteq Registered
  BY <1>1, <1>2 DEF CallTyped
<1>4. TakenUp \subseteq DOMAIN clusters
  BY <1>2 DEF TakenUp, TouchedUris, ResolvedTyped
<1>5. \A u \in TakenUp : \A n \in clusters[u].nodes : n \in DOMAIN nodeUri /\ nodeUri[n] = u
  BY <1>2, <1>4 DEF ResolvedTyped, ClusterTyped
<1>6. \A n \in call.touched \cap DOMAIN nodeUri : nodeUri[n] \in TakenUp
  BY <1>1, <1>2 DEF TakenUp, TouchedUris, CallTyped
<1>7. call.touched \subseteq InScope
  BY <1>2, <1>6 DEF InScope, ResolvedTyped
<1>8. InScope \subseteq Registered
  BY <1>2, <1>3, <1>5 DEF InScope, ResolvedTyped
<1>9. \A n \in InScope \cap DOMAIN nodeUri : nodeUri[n] \in TakenUp
  BY <1>5 DEF InScope
<1>10. \A u \in TakenUp : clusters[u].nodes \subseteq InScope
  BY DEF InScope
<1> QED BY <1>1, <1>4, <1>7, <1>8, <1>9, <1>10 DEF Scope

LEMMA SettleStep ==
  ASSUME RInv, Settle
  PROVE  RInv'
<1>1. /\ call # Idle /\ call.pending = {} /\ call' = Idle /\ unfinished' = unfinished \ call.delta
      /\ UNCHANGED <<kind, order, group, tails, snmKeys, decided, edges, cycles>> /\ NodeOf' = NodeOf
      /\ Reclustered(InScope, Restrict(clusters, TakenUp))
      /\ Scope(InScope, TakenUp) /\ call.touched \subseteq InScope
  BY SettleScope
<1>2. /\ GroupsTyped /\ KeysTyped /\ PairsTyped /\ CallTyped /\ ResolvedTyped /\ NothingLost /\ NothingMissed
      /\ order \in PivotOrders
  BY DEF RInv
<1>3. PICK next : Replaced(next, InScope, TakenUp)
  BY <1>1, <1>2, ReclusteredTables
<1>4. ResolvedTyped'
  BY <1>1, <1>2, <1>3, ReclusteredResolved
<1>5. GroupsTyped' /\ KeysTyped' /\ PairsTyped' /\ CallTyped'
  BY <1>1, <1>2 DEF GroupsTyped, KeysTyped, PairsTyped, CallTyped, Registered
<1>6. DOMAIN mentionUri' = DOMAIN mentionUri \cup MentionsIn(InScope)
  BY <1>3 DEF Replaced
<1>7. NothingLost'
  <2> SUFFICES ASSUME NEW n \in Registered, NEW m \in group[n], m \notin unfinished \ call.delta
               PROVE  m \in DOMAIN mentionUri'
    BY <1>1 DEF NothingLost, Registered
  <2>1. m \in DOMAIN mentionUri \/ m \in call.delta
    BY <1>2 DEF NothingLost
  <2>2. m \in call.delta => NodeOf[m] \in InScope /\ m \in group[NodeOf[m]]
    BY <1>1, <1>2 DEF CallTyped
  <2> QED BY <1>6, <2>1, <2>2 DEF MentionsIn
<1>8. NothingMissed'
  <2> SUFFICES ASSUME NEW p \in CandidatePairs(Registered, tails, snmKeys), p \notin decided
               PROVE  \E m \in unfinished \ call.delta : NodeOf[m] = p[1] \/ NodeOf[m] = p[2]
    BY <1>1 DEF NothingMissed, Excused, Registered
  <2>1. Excused(p) /\ p[1] \notin call.touched /\ p[2] \notin call.touched
    BY <1>1, <1>2 DEF NothingMissed
  <2>2. \A m \in call.delta : NodeOf[m] \in call.touched
    BY <1>1, <1>2 DEF CallTyped
  <2> QED BY <2>1, <2>2 DEF Excused
<1> QED BY <1>1, <1>2, <1>4, <1>5, <1>7, <1>8 DEF RInv

LEMMA InitRInv == Init => RInv
<1> SUFFICES ASSUME Init PROVE RInv
  OBVIOUS
<1>1. /\ DOMAIN group = {} /\ DOMAIN tails = {} /\ DOMAIN clusters = {} /\ DOMAIN nodeUri = {}
      /\ DOMAIN mentionUri = {} /\ decided = {} /\ edges = {} /\ call = Idle /\ order \in PivotOrders
      /\ snmKeys = {} /\ cycles = 0
  BY DEF Init
<1>2. CandidatePairs(Registered, tails, snmKeys) = {} /\ snmKeys = Once(Registered)
  BY <1>1 DEF CandidatePairs, Once, Registered
<1> QED BY <1>1, <1>2 DEF RInv, GroupsTyped, KeysTyped, PairsTyped, CallTyped, ResolvedTyped, NothingLost,
                        NothingMissed, Registered

LEMMA NextRInv == RInv /\ [Next]_vars => RInv'
<1> SUFFICES ASSUME RInv, [Next]_vars PROVE RInv'
  OBVIOUS
<1>1. ASSUME NEW ms \in Batches, Run(ms) PROVE RInv'
  BY <1>1, RunStep
<1>2. ASSUME NEW ms \in Deltas, AddMentions(ms) PROVE RInv'
  BY <1>2, AddStep
<1>3. ASSUME NEW same \in BOOLEAN, Judge(same) PROVE RInv'
  BY <1>3, JudgeStep
<1>4. CASE JudgeRaises
  BY <1>4, RaiseStep
<1>5. CASE Settle
  BY <1>5, SettleStep
<1>6. CASE UNCHANGED vars
  <2>1. /\ UNCHANGED <<kind, order, group, tails, snmKeys, decided, edges, clusters, nodeUri, mentionUri>>
        /\ UNCHANGED <<call, cycles, unfinished>> /\ NodeOf' = NodeOf
    BY <1>6 DEF vars, blocker, resolved, fixed, NodeOf
  <2> QED BY <2>1 DEF RInv, GroupsTyped, KeysTyped, PairsTyped, CallTyped, ResolvedTyped, ClusterTyped, Pivot,
                     NothingLost, NothingMissed, Excused, Registered
<1> QED BY <1>1, <1>2, <1>3, <1>4, <1>5, <1>6 DEF Next

-----------------------------------------------------------------------------
(* The theorems.                                                           *)

\* Through runs, calls, judgements and calls that raise, the blocker, the
\* judgements, the clusters and the lookup tables fit together
\* (IncrementalER._add_kind).
THEOREM ResolutionInvariance == Spec => []RInv
BY InitRInv, NextRInv, PTL DEF Spec

\* Every resolved node and mention is in exactly one cluster, whose URI is minted
\* from a mention it has, and no mention is left out once the calls that raised
\* have been repeated (assign_uris, IncrementalER._add_kind).
THEOREM ClustersAlwaysPartition == Spec => []ClustersPartition
<1>1. RInv => ClustersPartition
  <2> SUFFICES ASSUME RInv PROVE ClustersPartition
    OBVIOUS
  <2>1. GroupsTyped /\ PairsTyped /\ ResolvedTyped /\ NothingLost
    BY DEF RInv
  <2>2. \A u \in DOMAIN clusters :
          /\ clusters[u].anchor = u /\ u \in clusters[u].mentions
          /\ \A n \in clusters[u].nodes : nodeUri[n] = u
          /\ \A m \in clusters[u].mentions :
               mentionUri[m] = u /\ NodeOf[m] \in Registered /\ m \in group[NodeOf[m]]
    BY <2>1 DEF ResolvedTyped, ClusterTyped
  <2>3. DOMAIN clusters \subseteq Mentions
    BY <2>1, <2>2 DEF GroupsTyped
  <2>4. TypeOK
    BY <2>1, <2>2, <2>3 DEF TypeOK, GroupsTyped, PairsTyped, PairsOver, ResolvedTyped
  <2>5. Range(group) = {group[n] : n \in Registered}
    BY DEF Range, Registered
  <2>6. DOMAIN mentionUri \subseteq UNION Range(group)
    BY <2>1, <2>2, <2>5 DEF ResolvedTyped
  <2>7. call = Idle /\ unfinished = {} => UNION Range(group) \subseteq DOMAIN mentionUri
    BY <2>1, <2>5 DEF NothingLost
  <2> QED BY <2>1, <2>2, <2>4, <2>6, <2>7 DEF ClustersPartition, ResolvedTyped
<1> QED BY <1>1, ResolutionInvariance, PTL

\* A cluster of several nodes has a pivot that an accepted judgement joins to
\* each of the others (kwikcluster).
THEOREM PivotAlwaysJoinsAll == Spec => []PivotJoinsAll
<1>1. RInv => PivotJoinsAll
  BY DEF RInv, PivotJoinsAll, ResolvedTyped, ClusterTyped, Pivot
<1> QED BY <1>1, ResolutionInvariance, PTL

\* In any sequence of deltas, new mentions or known ones, the delta passes miss no
\* pair that the blocker would put before a batch run as it stands
\* (Blocker.candidate_pairs_for): none that a batch run over all the mentions
\* would have judged, where no aircraft mention was given twice.
THEOREM BlockingAlwaysCovers == Spec => []BlockingCovers
<1>1. RInv => BlockingCovers
  <2> SUFFICES ASSUME RInv, call = Idle, unfinished = {}
               PROVE  /\ CandidatePairs(Registered, tails, snmKeys) \subseteq decided
                      /\ kind = "operator" => snmKeys = Once(Registered)
    BY DEF BlockingCovers
  <2>1. \A p \in CandidatePairs(Registered, tails, snmKeys) : p \in decided
    BY DEF RInv, NothingMissed, Excused
  <2> QED BY <2>1 DEF RInv, KeysTyped
<1> QED BY <1>1, ResolutionInvariance, PTL

\* Only what a call touched is clustered again: every other cluster stays as it
\* is, URI, nodes and mentions (IncrementalER._add_kind, the scope).
THEOREM OthersStayUntouched == Spec => OthersUntouched
<1>1. ASSUME RInv, Settle, NEW u \in DOMAIN clusters,
             clusters[u].nodes \cap (call.touched \cup UNION {{p[1], p[2]} : p \in call.same}) = {}
      PROVE  u \in DOMAIN clusters' /\ clusters'[u] = clusters[u]
  <2>1. /\ Reclustered(InScope, Restrict(clusters, TakenUp)) /\ Scope(InScope, TakenUp)
        /\ order \in PivotOrders /\ GroupsTyped /\ ResolvedTyped
    BY <1>1, SettleScope DEF RInv
  <2>2. PICK next : Replaced(next, InScope, TakenUp)
    BY <2>1, ReclusteredTables
  <2>3. u \notin TakenUp
    BY <1>1, <2>1 DEF TakenUp, TouchedUris, ResolvedTyped
  <2> QED BY <2>2, <2>3 DEF Replaced
<1>2. RInv /\ [Next]_vars =>
        [call # Idle => \A u \in DOMAIN clusters :
           clusters[u].nodes \cap (call.touched \cup UNION {{p[1], p[2]} : p \in call.same}) = {}
             => u \in DOMAIN clusters' /\ clusters'[u] = clusters[u]]_resolved
  <2> SUFFICES ASSUME RInv, [Next]_vars, ~UNCHANGED resolved PROVE Settle
    BY <1>1
  <2>1. \A ms : Run(ms) => UNCHANGED resolved
    BY DEF Run, Begin
  <2>2. \A ms : AddMentions(ms) => UNCHANGED resolved
    BY DEF AddMentions, Begin
  <2>3. \A same : Judge(same) => UNCHANGED resolved
    BY DEF Judge
  <2>4. JudgeRaises \/ UNCHANGED vars => UNCHANGED resolved
    BY DEF JudgeRaises, vars
  <2> QED BY <2>1, <2>2, <2>3, <2>4 DEF Next
<1> QED BY <1>2, ResolutionInvariance, PTL DEF Spec, OthersUntouched

\* Hysteresis: mentions that stay with the anchor of their cluster keep its URI,
\* unless a cluster with a smaller anchor has joined them (assign_uris).
THEOREM UrisStayHeld == Spec => UrisHeld
<1> DEFINE Held(m) ==
      LET u == mentionUri[m]
          now == mentionUri'[m]
      IN now # u => \/ m \notin clusters'[mentionUri'[u]].mentions
                    \/ now < u /\ now \in DOMAIN clusters
<1>1. ASSUME RInv, RInv', Settle, NEW m \in DOMAIN mentionUri PROVE Held(m)
  <2>1. /\ Reclustered(InScope, Restrict(clusters, TakenUp)) /\ Scope(InScope, TakenUp)
        /\ order \in PivotOrders /\ GroupsTyped /\ ResolvedTyped
    BY <1>1, SettleScope DEF RInv
  <2>2. PICK next : Replaced(next, InScope, TakenUp)
    BY <2>1, ReclusteredTables
  <2> DEFINE u == mentionUri[m]
             now == mentionUri'[m]
  <2> SUFFICES ASSUME now # u, m \in clusters'[mentionUri'[u]].mentions
               PROVE  now < u /\ now \in DOMAIN clusters
    OBVIOUS
  <2>3. /\ u \in DOMAIN clusters /\ m \in clusters[u].mentions /\ u \in clusters[u].mentions
        /\ NodeOf[m] \in clusters[u].nodes /\ m \in group[NodeOf[m]]
        /\ NodeOf[u] \in clusters[u].nodes /\ u \in group[NodeOf[u]]
        /\ mentionUri[u] = u /\ u \in DOMAIN mentionUri /\ NodeOf[u] \in Registered
    BY <2>1 DEF ResolvedTyped, ClusterTyped
  <2>4. u \in TakenUp
    <3> SUFFICES ASSUME u \notin TakenUp PROVE FALSE
      OBVIOUS
    <3>1. clusters'[u] = clusters[u] /\ u \in DOMAIN clusters'
      BY <2>2, <2>3 DEF Replaced
    <3>2. mentionUri'[m] = u
      BY <1>1, <2>3, <3>1 DEF RInv, ResolvedTyped, ClusterTyped
    <3> QED BY <3>2
  <2>5. NodeOf[u] \in InScope /\ u \in MentionsIn(InScope)
    BY <2>1, <2>3, <2>4 DEF Scope, MentionsIn
  <2>6. mentionUri'[u] \in DOMAIN next /\ u \in next[mentionUri'[u]].mentions
    BY <2>2, <2>5 DEF Replaced
  <2>7. mentionUri'[m] = mentionUri'[u]
    BY <2>2, <2>6 DEF Replaced
  <2>8. now \in TakenUp /\ now <= u
    BY <2>2, <2>4, <2>6, <2>7 DEF Replaced
  <2>9. now \in DOMAIN clusters
    BY <2>1, <2>8 DEF Scope
  <2>10. now \in Nat /\ u \in Nat
    <3>1. \A v \in DOMAIN clusters : v \in Mentions
      BY <2>1 DEF ResolvedTyped, ClusterTyped, GroupsTyped
    <3> QED BY <2>3, <2>9, <3>1, MentionsAssumption
  <2> QED BY <2>8, <2>9, <2>10
<1>2. RInv /\ RInv' /\ [Next]_vars => [\A m \in DOMAIN mentionUri : Held(m)]_vars
  <2> SUFFICES ASSUME RInv, RInv', Next, NEW m \in DOMAIN mentionUri, mentionUri' # mentionUri PROVE Held(m)
    OBVIOUS
  <2>1. \A ms : Run(ms) => UNCHANGED resolved
    BY DEF Run, Begin
  <2>2. \A ms : AddMentions(ms) => UNCHANGED resolved
    BY DEF AddMentions, Begin
  <2>3. \A same : Judge(same) => UNCHANGED resolved
    BY DEF Judge
  <2>4. JudgeRaises => UNCHANGED resolved
    BY DEF JudgeRaises
  <2>5. Settle
    BY <2>1, <2>2, <2>3, <2>4 DEF Next, resolved
  <2> QED BY <1>1, <2>5
<1> QED BY <1>2, ResolutionInvariance, PTL DEF Spec, UrisHeld
=============================================================================

---------------------------- MODULE IncrementalER ----------------------------
(***************************************************************************)
(* Entity resolution of one kind: the batch run (er/cascade.py), and the   *)
(* linking of later mentions into its result (er/incremental.py), over the *)
(* blocking passes (er/blocking.py), pivot clustering and the anchor       *)
(* protocol of URIs (er/clustering.py).                                    *)
(*                                                                         *)
(* Mentions, and the nodes they are grouped into, are numbers in the order *)
(* of their ids; the order of the nodes is that of the sorted              *)
(* neighbourhood too.  The mentions of operators are grouped by name, and  *)
(* a name is listed there once; every mention of an aircraft is a node, and *)
(* each call that is given it lists it again.  The hash of a node id, which *)
(* is the pivot order, is any order of the nodes.  mint_uri is injective:  *)
(* a URI is the mention it was minted from.  The judgement on a pair is    *)
(* any outcome, made once.                                                 *)
(***************************************************************************)
EXTENDS Naturals, FiniteSets, Sequences, FiniteSetsExt, Functions

CONSTANTS
  Mentions,   \* mention ids
  Kinds,      \* of entities that may be resolved
  NameOf,     \* the node of an operator mention's normalized name
  TailOf,     \* the aircraft a mention names
  Similar,    \* pairs of nodes that share a bucket of the LSH index
  Window,     \* of the sorted neighbourhood
  PivotOrders,\* orders of the nodes, as sequences, that the hash may give
  Batches,    \* the mentions a batch run may be given
  Deltas,     \* and a call of add_mentions, new ones and known ones
  MaxCycles,  \* calls of add_mentions
  MaxFailures \* calls of it that raise

Nodes == Mentions \cup {NameOf[m] : m \in Mentions}

ASSUME KindsAssumption == Kinds \subseteq {"operator", "aircraft"}
ASSUME MentionsAssumption == Mentions \subseteq Nat /\ Nodes \subseteq Nat /\ Window \in Nat \ {0}
ASSUME InputsAssumption == \A ms \in Batches \cup Deltas : ms # {} /\ ms \subseteq Mentions
ASSUME OrdersAssumption == \A o \in PivotOrders : o \in Seq(Nodes) /\ IsInjective(o) /\ Range(o) = Nodes

VARIABLES
  kind,       \* Blocker.kind
  order,      \* pivot_order_key
  group,      \* Blocker.nodes: node -> its mentions
  tails,      \* node -> the tails it has been seen with
  snmKeys,    \* _snm_keys: <<node, i>>, an entry for each time it was listed
  decided,    \* the pairs that have been judged
  edges,      \* accepted_edges: those judged the same
  clusters,   \* IncrementalER.clusters: URI -> Cluster
  nodeUri,    \* _node_to_uri
  mentionUri, \* mention_to_uri
  call,       \* the call of run or add_mentions in progress
  cycles, failures,
  unfinished, \* history: mentions of calls that raised and were not repeated
  churn       \* history: churn_by_entity of the last call

fixed == <<kind, order>>
blocker == <<group, tails, snmKeys>>
resolved == <<clusters, nodeUri, mentionUri>>
vars == <<fixed, blocker, decided, edges, resolved, call, cycles, failures, unfinished, churn>>

Idle == [state |-> "idle"]
Pair(a, b) == IF a < b THEN <<a, b>> ELSE <<b, a>>
Registered == DOMAIN group

-----------------------------------------------------------------------------
(* Blocking.                                                               *)

\* build_nodes: the node of a mention.
NodeOf == [m \in Mentions |-> IF kind = "operator" THEN NameOf[m] ELSE m]
\* The group of every mention's node is created or extended.
Grouped(delta) ==
  [n \in Registered \cup {NodeOf[m] : m \in delta} |->
     {m \in delta : NodeOf[m] = n} \cup (IF n \in Registered THEN group[n] ELSE {})]
Seen(delta) ==
  [n \in Registered \cup {NodeOf[m] : m \in delta} |->
     {TailOf[m] : m \in {x \in delta : NodeOf[x] = n}} \cup (IF n \in Registered THEN tails[n] ELSE {})]

\* _register_new_node: a new node is listed; an aircraft's is at every call that
\* is given its mention, the i-th of them say.
Once(ns) == ns \X {0}
Listed(delta, i) ==
  LET nodes == {NodeOf[m] : m \in delta}
  IN  snmKeys \cup Once(nodes \ Registered)
              \cup (IF kind = "aircraft" THEN (nodes \cap Registered) \X {i} ELSE {})

\* The entries between two nodes in the sorted keys.
Between(keys, a, b) == {e \in keys : a < e[1] /\ e[1] < b}
\* (a bug: the neighbourhood looks ahead only)
CloseAhead(keys, a, b) == a < b /\ Cardinality(Between(keys, a, b)) < Window - 1
\* Entries of a and b are less than Window positions apart.
Close(keys, a, b) ==
  a # b /\ Cardinality(Between(keys, Pair(a, b)[1], Pair(a, b)[2])) < Window - 1

\* candidate_pairs: the shared tails, the buckets and the neighbourhoods of all.
CandidatePairs(ns, seen, keys) ==
  {p \in ns \X ns : /\ p[1] < p[2]
                    /\ \/ seen[p[1]] \cap seen[p[2]] # {}
                       \/ p \in Similar
                       \/ Cardinality(Between(keys, p[1], p[2])) < Window - 1}
\* candidate_pairs_for: the same passes, around the nodes the delta touches.
CandidatePairsFor(touched, ns, seen, keys) ==
  UNION {{Pair(t, n) : n \in {x \in ns \ {t} : \/ seen[t] \cap seen[x] # {}
                                               \/ Pair(t, x) \in Similar
                                               \/ Close(keys, t, x)}} : t \in touched}

-----------------------------------------------------------------------------
(* Clustering.                                                             *)

\* (a bug: a cluster absorbs the neighbours of its members too)
WithPivotLinked(parts, p, ns, es) ==
  LET open == ns \ UNION parts
      near == {p} \cup {u \in open : Pair(p, u) \in es}
  IN IF p \notin open THEN parts
     ELSE parts \cup {{u \in open : \E v \in near : u = v \/ Pair(u, v) \in es}}
\* An unclustered node and its unclustered neighbours are a cluster.
WithPivot(parts, p, ns, es) ==
  IF p \notin ns \/ p \in UNION parts THEN parts
  ELSE parts \cup {{p} \cup {u \in ns \ UNION parts : Pair(p, u) \in es}}

\* kwikcluster: the clusters after each node, in pivot order, and after all.
Stages(ns, es) ==
  LET parts[i \in 0 .. Len(order)] ==
        IF i = 0 THEN {} ELSE WithPivot(parts[i - 1], order[i], ns, es)
  IN  parts
KwikCluster(ns, es) == Stages(ns, es)[Len(order)]

\* (a bug: the smallest mention names the cluster)
AnchorSmallest(ms, prior) == Min(ms)
\* The anchor of a cluster of mentions ms: the smallest prior anchor among
\* them, or else the smallest mention.
Anchor(ms, prior) ==
  LET here == {prior[u].anchor : u \in DOMAIN prior} \cap ms
  IN IF here # {} THEN Min(here) ELSE Min(ms)

\* assign_uris: the clusters of the parts, given the prior clusters in scope.
Assigned(parts, grouping, prior) ==
  LET MentionsOf(part) == UNION {grouping[n] : n \in part}
      AnchorOf(part) == Anchor(MentionsOf(part), prior)
  IN [a \in {AnchorOf(part) : part \in parts} |->
        LET part == CHOOSE q \in parts : AnchorOf(q) = a
        IN [anchor |-> a, nodes |-> part, mentions |-> MentionsOf(part)]]

\* Prior URIs that a cluster's mentions lose to its own.
Churned(clustering, uriOf) ==
  [u \in DOMAIN clustering |->
     Cardinality({uriOf[m] : m \in clustering[u].mentions \cap DOMAIN uriOf} \ {u})]

-----------------------------------------------------------------------------
(* The batch run, and a call of add_mentions.                              *)

Init ==
  /\ kind \in Kinds /\ order \in PivotOrders
  /\ group = <<>> /\ tails = <<>> /\ snmKeys = {} /\ decided = {} /\ edges = {}
  /\ clusters = <<>> /\ nodeUri = <<>> /\ mentionUri = <<>>
  /\ call = Idle /\ cycles = 0 /\ failures = 0 /\ unfinished = {} /\ churn = <<>>

\* The mentions are in the blocker, and the pairs to be judged are known.
Begin(delta, keys, pairs, state) ==
  /\ group' = Grouped(delta) /\ tails' = Seen(delta) /\ snmKeys' = keys
  /\ call' = [state |-> state, delta |-> delta, touched |-> {NodeOf[m] : m \in delta},
              pending |-> pairs \ decided, same |-> {}]
  /\ UNCHANGED <<fixed, decided, edges, resolved, failures, unfinished, churn>>

\* ERCascade.run.
Run(ms) ==
  /\ call = Idle /\ Registered = {}
  /\ LET keys == Listed(ms, 0)
     IN  Begin(ms, keys, CandidatePairs({NodeOf[m] : m \in ms}, Seen(ms), keys), "run")
  /\ UNCHANGED cycles

AddMentions(delta) ==
  /\ call = Idle /\ DOMAIN clusters # {} /\ cycles < MaxCycles
  /\ cycles' = cycles + 1
  /\ LET keys == Listed(delta, cycles + 1)
         touched == {NodeOf[m] : m \in delta}
     IN  Begin(delta, keys, CandidatePairsFor(touched, DOMAIN Grouped(delta), Seen(delta), keys), "add")

\* The pending pairs are judged in the order of their ids.
NextPair ==
  CHOOSE p \in call.pending : \A q \in call.pending :
    p[1] < q[1] \/ (p[1] = q[1] /\ p[2] <= q[2])

\* decide_pair, and its outcome in decided and accepted_edges.
Judge(same) ==
  /\ call # Idle /\ call.pending # {}
  /\ decided' = decided \cup {NextPair}
  /\ edges' = IF same THEN edges \cup {NextPair} ELSE edges
  /\ call' = [call EXCEPT !.pending = @ \ {NextPair},
                         !.same = IF same THEN @ \cup {NextPair} ELSE @]
  /\ UNCHANGED <<fixed, blocker, resolved, cycles, failures, unfinished, churn>>

\* decide_pair raises: the mentions stay in the blocker, and the pairs decided.
JudgeRaises ==
  /\ call # Idle /\ call.state = "add" /\ call.pending # {} /\ failures < MaxFailures
  /\ failures' = failures + 1
  /\ unfinished' = unfinished \cup call.delta
  /\ call' = Idle
  /\ UNCHANGED <<fixed, blocker, decided, edges, resolved, cycles, churn>>

\* (a bug: a group that has grown is not in the scope)
TouchedUrisOfEdges ==
  {nodeUri[n] : n \in DOMAIN nodeUri \cap UNION {{p[1], p[2]} : p \in call.same}}
\* (a bug: everything is clustered again)
EveryUri == DOMAIN clusters
\* Clusters that have grown, or gained an accepted edge.
TouchedUris ==
  {nodeUri[n] : n \in DOMAIN nodeUri \cap
                      (call.touched \cup UNION {{p[1], p[2]} : p \in call.same})}

\* dict.update.
Updated(f, g) == [x \in DOMAIN f \cup DOMAIN g |-> IF x \in DOMAIN g THEN g[x] ELSE f[x]]

\* The nodes in scope are clustered again, and what they were is replaced.
Reclustered(scope, prior) ==
  LET within == {e \in edges : e[1] \in scope /\ e[2] \in scope}
      next == Assigned(KwikCluster(scope, within), group, prior)
      were == Restrict(mentionUri, UNION {prior[u].mentions : u \in DOMAIN prior})
      UriOfNode(n) == CHOOSE u \in DOMAIN next : n \in next[u].nodes
      UriOfMention(m) == CHOOSE u \in DOMAIN next : m \in next[u].mentions
  IN /\ clusters' = Updated(Restrict(clusters, DOMAIN clusters \ DOMAIN prior), next)
     /\ nodeUri' = Updated(nodeUri, [n \in scope |-> UriOfNode(n)])
     /\ mentionUri' = Updated(mentionUri, [m \in UNION {group[n] : n \in scope} |-> UriOfMention(m)])
     /\ churn' = Churned(next, were)

Settle ==
  /\ call # Idle /\ call.pending = {}
  /\ LET touched == IF call.state = "run" THEN {} ELSE TouchedUris
         scope == (call.touched \ DOMAIN nodeUri) \cup UNION {clusters[u].nodes : u \in touched}
     IN Reclustered(scope, Restrict(clusters, touched))
  /\ call' = Idle
  /\ unfinished' = unfinished \ call.delta
  /\ UNCHANGED <<fixed, blocker, decided, edges, cycles, failures>>

Next ==
  \/ \E ms \in Batches : Run(ms)
  \/ \E ms \in Deltas : AddMentions(ms)
  \/ \E same \in BOOLEAN : Judge(same)
  \/ JudgeRaises
  \/ Settle

Spec == Init /\ [][Next]_vars

-----------------------------------------------------------------------------
(* Properties.                                                             *)

\* A cluster has mentions; only registered nodes are judged or clustered.
TypeOK ==
  /\ Registered \subseteq Nodes /\ DOMAIN nodeUri \subseteq Registered
  /\ \A n \in Registered : group[n] # {} /\ group[n] \subseteq Mentions
  /\ edges \subseteq decided /\ decided \subseteq {p \in Registered \X Registered : p[1] < p[2]}
  /\ DOMAIN clusters \subseteq Mentions
  /\ \A u \in DOMAIN clusters : clusters[u].mentions # {}

\* Whatever was merged and split, and whichever calls raised: every resolved
\* node is in exactly one cluster, the two lookup tables agree with the
\* clusters, a cluster's URI is minted from a mention it has, and no mention is
\* left out once the calls that raised have been repeated.
ClustersPartition ==
  /\ TypeOK
  /\ \A u \in DOMAIN clusters :
       /\ clusters[u].anchor = u /\ u \in clusters[u].mentions
       /\ \A n \in clusters[u].nodes : nodeUri[n] = u
       /\ \A m \in clusters[u].mentions : mentionUri[m] = u
  /\ \A n \in DOMAIN nodeUri : n \in clusters[nodeUri[n]].nodes
  /\ \A m \in DOMAIN mentionUri : m \in clusters[mentionUri[m]].mentions
  /\ call = Idle /\ unfinished = {} => DOMAIN mentionUri = UNION Range(group)

\* A cluster of several nodes has a pivot, which an accepted judgement joins to
\* each of the others: no node is in a cluster by hearsay.
PivotJoinsAll ==
  \A u \in DOMAIN clusters :
    \E p \in clusters[u].nodes : \A n \in clusters[u].nodes \ {p} : Pair(p, n) \in edges

\* The delta passes miss no pair of those that the blocker, as it stands, would
\* put before a batch run, once the calls that raised have been repeated.  For
\* operators, and for aircraft whose mentions came once each, these are the pairs
\* that a batch run over all the mentions would have judged.
BlockingCovers ==
  call = Idle /\ unfinished = {} =>
    /\ CandidatePairs(Registered, tails, snmKeys) \subseteq decided
    /\ kind = "operator" \/ snmKeys = Once(Registered) =>
         CandidatePairs(Registered, tails, Once(Registered)) \subseteq decided

\* Hysteresis: mentions that stay with the anchor of their cluster keep its
\* URI, unless a cluster with a smaller anchor has joined them.
UrisHeld ==
  [][\A m \in DOMAIN mentionUri :
       LET u == mentionUri[m]
           now == mentionUri'[m]
       IN now # u => \/ m \notin clusters'[mentionUri'[u]].mentions
                     \/ now < u /\ now \in DOMAIN clusters]_vars

\* A call leaves alone every cluster that has no node it touched, and none that
\* it judged the same as another.
OthersUntouched ==
  [][call # Idle => \A u \in DOMAIN clusters :
       clusters[u].nodes \cap (call.touched \cup UNION {{p[1], p[2]} : p \in call.same}) = {}
         => u \in DOMAIN clusters' /\ clusters'[u] = clusters[u]]_resolved

-----------------------------------------------------------------------------
(* Claims of the repository that the code does not meet: TLC refutes each     *)
(* when it is added to the module's configuration (README, known limits).     *)

\* "the gate is <= 1 URI change per affected entity per cycle".
ChurnGate == \A u \in DOMAIN churn : churn[u] <= 1

\* "the SAME blocking structures the batch run built ... all support incremental
\* add": an aircraft whose mention was given again stands twice in the sorted
\* keys, and keeps nodes on either side of it apart that a batch run over the
\* same mentions would have compared.
AsTheBatchWould ==
  call = Idle /\ unfinished = {} => CandidatePairs(Registered, tails, Once(Registered)) \subseteq decided

=============================================================================

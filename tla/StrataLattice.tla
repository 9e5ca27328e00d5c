---------------------------- MODULE StrataLattice ----------------------------
(***************************************************************************)
(* The iceberg concept lattice of STRATA: the formal context of candidate  *)
(* types and their attributes (strata/context.py), the lattice induced     *)
(* from all candidates at once (strata/lattice.py), and the insertion of   *)
(* one candidate into it (strata/incremental.py).                          *)
(*                                                                         *)
(* A candidate is given by its id, the attributes its columns give it, and *)
(* whether it is a hub, whose own concept is kept however small it is.     *)
(* Candidates the hub review discards never reach the context.             *)
(***************************************************************************)
EXTENDS Naturals, FiniteSets

CONSTANTS
  Candidates,   \* ids of type candidates
  Attributes,   \* attributes, numbered in the order of their names
  Sigmas        \* the support thresholds a Strata may be built with

ASSUME CandidatesAssumption == IsFiniteSet(Candidates)
ASSUME AttributesAssumption == Attributes \subseteq Nat
\* The thresholds for which strata/incremental.py claims to be complete.
ASSUME SigmasAssumption == Sigmas \subseteq {1, 2}

VARIABLES
  sigma,     \* ConceptLattice.sigma
  induced,   \* Strata.induce has run
  objects,   \* FormalContext.objects: candidate -> its attributes
  hubs,      \* the candidates in the context that bypass sigma
  lattice    \* ConceptLattice.concepts, at most one for each intent

vars == <<sigma, induced, objects, hubs, lattice>>

-----------------------------------------------------------------------------
(* The formal context ctx: a function from candidates to attribute sets.   *)

AttributeSets == (SUBSET Attributes) \ {{}}
Contexts == UNION {[S -> AttributeSets] : S \in SUBSET Candidates}

\* FormalContext.add_object
WithObject(ctx, g, attrs) ==
  [h \in DOMAIN ctx \cup {g} |-> IF h = g THEN attrs ELSE ctx[h]]

AllAttributes(ctx) == UNION {ctx[g] : g \in DOMAIN ctx}
AttrExtent(ctx, a) == {g \in DOMAIN ctx : a \in ctx[g]}

\* X': the attributes common to every object of X.
PrimeObjects(ctx, X) == {a \in AllAttributes(ctx) : \A g \in X : a \in ctx[g]}
\* Y': the objects that have every attribute of Y.
PrimeAttrs(ctx, Y) == {g \in DOMAIN ctx : Y \subseteq ctx[g]}

\* stability: how many subsets of the extent have the concept's intent, to be
\* divided by 2^|A| (exact for the extents of up to 12 objects).
Hits(ctx, A, B) == Cardinality({S \in SUBSET A : PrimeObjects(ctx, S) = B})

\* The Concept of an extent, its intent read from the whole context.
ConceptOf(ctx, A) ==
  [extent |-> A, intent |-> PrimeObjects(ctx, A),
   stability |-> Hits(ctx, A, PrimeObjects(ctx, A))]

-----------------------------------------------------------------------------
(* Induction of all candidates at once (build_lattice).                    *)

\* What _enumerate_closed_extents finds: see StrataEnumeration.
ClosedExtents(ctx, s) ==
  {A \in SUBSET DOMAIN ctx :
     Cardinality(A) >= s /\ PrimeAttrs(ctx, PrimeObjects(ctx, A)) = A}

\* The extents of the hubs' own concepts, forced into the lattice.
HubExtents(ctx, hubsIn) == {PrimeAttrs(ctx, ctx[h]) : h \in hubsIn}

BuildLattice(ctx, s, hubsIn) ==
  {ConceptOf(ctx, A) : A \in ClosedExtents(ctx, s) \cup HubExtents(ctx, hubsIn)}

-----------------------------------------------------------------------------
(* Insertion of one candidate (insert_object); ctx already has it.         *)

Touched(attrs) == {c \in lattice : c.intent \subseteq attrs}

Grown(ctx, g, attrs) ==
  {[extent |-> c.extent \cup {g}, intent |-> c.intent,
    stability |-> Hits(ctx, c.extent \cup {g}, c.intent)] : c \in Touched(attrs)}

\* (a bug: intersections with other candidates are not tried)
CandidateIntentsOfConcepts(ctx, g, attrs) ==
  {attrs} \cup {c.intent \cap attrs : c \in lattice}
\* Where a new concept may appear.
CandidateIntents(ctx, g, attrs) ==
  {attrs} \cup {c.intent \cap attrs : c \in lattice}
          \cup {ctx[h] \cap attrs : h \in DOMAIN ctx \ {g}}

\* New concepts that reach the threshold, or are of the inserted hub.
Created(ctx, g, attrs, hub) ==
  {c \in {ConceptOf(ctx, PrimeAttrs(ctx, Y)) : Y \in CandidateIntents(ctx, g, attrs)} :
     /\ \A d \in lattice : d.intent # c.intent
     /\ \/ Cardinality(c.extent) >= sigma
        \/ hub /\ g \in c.extent}

-----------------------------------------------------------------------------
Init ==
  /\ sigma \in Sigmas
  /\ induced = FALSE
  /\ objects = [g \in {} |-> {}]
  /\ hubs = {} /\ lattice = {}

\* Strata.induce: once for each object here; a second call replaces the
\* context and the lattice, and reaches the same states.
Induce(ctx, hubsIn) ==
  /\ ~induced
  /\ induced' = TRUE
  /\ objects' = ctx
  /\ hubs' = hubsIn
  /\ lattice' = BuildLattice(ctx, sigma, hubsIn)
  /\ UNCHANGED sigma

\* Strata.insert_delta, one candidate of it: a known id is refused.
Insert(g, attrs, hub) ==
  /\ induced
  /\ g \notin DOMAIN objects
  /\ objects' = WithObject(objects, g, attrs)
  /\ hubs' = IF hub THEN hubs \cup {g} ELSE hubs
  /\ lattice' = (lattice \ Touched(attrs)) \cup Grown(objects', g, attrs)
                  \cup Created(objects', g, attrs, hub)
  /\ UNCHANGED <<sigma, induced>>

Next ==
  \/ \E ctx \in Contexts : \E hubsIn \in SUBSET DOMAIN ctx : Induce(ctx, hubsIn)
  \/ \E g \in Candidates, attrs \in AttributeSets, hub \in BOOLEAN : Insert(g, attrs, hub)

Spec == Init /\ [][Next]_vars

-----------------------------------------------------------------------------
(* Properties.                                                             *)

\* Type invariant: a context of known candidates, and concepts over it.
TypeOK ==
  /\ sigma \in Sigmas /\ induced \in BOOLEAN
  /\ objects \in Contexts
  /\ hubs \subseteq DOMAIN objects
  /\ lattice \subseteq [extent : SUBSET DOMAIN objects, intent : SUBSET Attributes, stability : Nat]

\* A closed extent that is large enough, or a hub's own.
Kept(ctx, s, hs, A) ==
  /\ PrimeAttrs(ctx, PrimeObjects(ctx, A)) = A
  /\ \/ Cardinality(A) >= s
     \/ \E h \in hs : A = PrimeAttrs(ctx, ctx[h])

\* Inserting candidates one by one, in any order, keeps exactly the concepts
\* that reach the threshold and those of the hubs: none is missed, none is
\* stale, as if the lattice had been induced from all of them at once.
LatticeIsIceberg ==
  {<<c.extent, c.intent>> : c \in lattice}
    = {<<A, PrimeObjects(objects, A)>> :
         A \in {E \in SUBSET DOMAIN objects : Kept(objects, sigma, hubs, E)}}

-----------------------------------------------------------------------------
(* A claim of the repository that the code does not meet: TLC refutes it     *)
(* when it is added to the module's configuration (README, known limits).     *)

\* The stability of every concept is the one a new induction would give:
\* strata/incremental.py recomputes it only where the extent grew.
StabilityIsFresh ==
  \A c \in lattice : c.stability = Hits(objects, c.extent, c.intent)
=============================================================================

--------------------------- MODULE Ontology_proofs ---------------------------
(***************************************************************************)
(* Theorems about how an ontology is found and how it evolves.             *)
(*                                                                         *)
(* StrataLattice, the admission above it and the enumeration below it, for *)
(* any number of candidates and attributes, any starts and deltas, and the *)
(* support thresholds 1 and 2; Temper, for any menu of operators and any   *)
(* populated ontologies.                                                   *)
(*                                                                         *)
(* First part, the claim of strata/incremental.py: inserting candidates    *)
(* one by one keeps the iceberg lattice complete and sound.  A concept of  *)
(* the grown context that holds the new object g has the extent S \cup {g}.*)
(* Where S reaches the threshold by itself, its intent is that of an old   *)
(* concept cut down to the attributes of g; where it does not, S is empty  *)
(* or one object, and the intent is that of g alone or of the two.  Both   *)
(* are among the candidate intents tried.                                  *)
(*                                                                         *)
(* Second part, the facade.  It only ever takes steps of the lattice, so   *)
(* what the first part shows holds below the admission.  An admission pass *)
(* goes from the top down, so the ancestors of a concept are decided       *)
(* before it is, and what it was decided from stays as it was until the    *)
(* pass is complete.                                                       *)
(*                                                                         *)
(* Third part, Close-by-One.  That the recursive function exists is shown  *)
(* by the greatest relation its equation supports; what it finds, by the   *)
(* smallest extent at which it would go wrong.  A closed extent A inside E *)
(* is found by way of the first attribute that A has and E lacks: cutting  *)
(* E by it passes the threshold, since A does, and the canonicity test,    *)
(* since all that newly appears is of A and so comes no earlier.           *)
(*                                                                         *)
(* Fourth part, TEMPER.  What each operator makes of an ontology is shown  *)
(* to be one again, whatever it was before; the rest is done once for all  *)
(* operators, for an application that is recorded, one that is cut short   *)
(* and one that is not recorded (TemperInv).  A failed application is not  *)
(* seen because its commits write to classes that are not in the ontology  *)
(* yet, or add a mark to entities that are there already (Harmless).       *)
(***************************************************************************)
EXTENDS StrataAdmission, StrataEnumeration, Temper, Subsequences_proofs, FiniteSetTheorems,
        WellFoundedInduction, TLAPS

-----------------------------------------------------------------------------
(* The two prime operators on one context.                                 *)

\* A context is a function from known candidates to sets of attributes.
LEMMA ContextShape ==
  ASSUME NEW ctx \in Contexts
  PROVE  /\ DOMAIN ctx \subseteq Candidates
         /\ IsFiniteSet(DOMAIN ctx)
         /\ \A h \in DOMAIN ctx : ctx[h] \in SUBSET Attributes /\ ctx[h] # {}
         /\ ctx \in [DOMAIN ctx -> AttributeSets]
<1>1. PICK S \in SUBSET Candidates : ctx \in [S -> AttributeSets]
  <2>1. PICK F \in {[S -> AttributeSets] : S \in SUBSET Candidates} : ctx \in F
    BY DEF Contexts
  <2>2. PICK S \in SUBSET Candidates : F = [S -> AttributeSets]
    BY <2>1
  <2>. QED BY <2>1, <2>2
<1>2. IsFiniteSet(S)
  BY <1>1, CandidatesAssumption, FS_Subset
<1>. QED BY <1>1, <1>2 DEF AttributeSets

\* The attributes common to some objects, read off any one of them.
LEMMA CommonAttributes ==
  ASSUME NEW ctx \in Contexts, NEW X \in SUBSET DOMAIN ctx, X # {}
  PROVE  \A a : a \in PrimeObjects(ctx, X) <=> \A h \in X : a \in ctx[h]
BY DEF PrimeObjects, AllAttributes

\* Some objects lie in the closed extent that their common attributes span,
\* and closing does not change those.
LEMMA Closure ==
  ASSUME NEW ctx \in Contexts, NEW X \in SUBSET DOMAIN ctx, X # {}
  PROVE  /\ X \subseteq PrimeAttrs(ctx, PrimeObjects(ctx, X))
         /\ PrimeObjects(ctx, PrimeAttrs(ctx, PrimeObjects(ctx, X))) = PrimeObjects(ctx, X)
<1>. DEFINE A == PrimeAttrs(ctx, PrimeObjects(ctx, X))
<1>1. X \subseteq A
  BY CommonAttributes DEF PrimeAttrs
<1>2. A \in SUBSET DOMAIN ctx /\ A # {}
  BY <1>1 DEF PrimeAttrs
<1>3. \A a : a \in PrimeObjects(ctx, A) <=> \A h \in A : a \in ctx[h]
  BY <1>2, CommonAttributes
<1>4. \A a : a \in PrimeObjects(ctx, X) <=> \A h \in X : a \in ctx[h]
  BY CommonAttributes
<1>5. \A h \in A : PrimeObjects(ctx, X) \subseteq ctx[h]
  BY DEF PrimeAttrs
<1>. QED BY <1>1, <1>3, <1>4, <1>5

\* The objects that have some of the attributes of an object form a closed extent.
LEMMA ClosedAttributes ==
  ASSUME NEW ctx \in Contexts, NEW g \in DOMAIN ctx, NEW Y \in SUBSET ctx[g]
  PROVE  /\ g \in PrimeAttrs(ctx, Y)
         /\ Y \subseteq PrimeObjects(ctx, PrimeAttrs(ctx, Y))
         /\ PrimeAttrs(ctx, PrimeObjects(ctx, PrimeAttrs(ctx, Y))) = PrimeAttrs(ctx, Y)
<1>. DEFINE A == PrimeAttrs(ctx, Y)
<1>1. g \in A /\ A \in SUBSET DOMAIN ctx
  BY DEF PrimeAttrs
<1>2. \A a : a \in PrimeObjects(ctx, A) <=> \A h \in A : a \in ctx[h]
  BY <1>1, CommonAttributes
<1>3. Y \subseteq PrimeObjects(ctx, A)
  BY <1>2 DEF PrimeAttrs
<1>4. PrimeAttrs(ctx, PrimeObjects(ctx, A)) \subseteq A
  BY <1>3 DEF PrimeAttrs
<1>5. A \subseteq PrimeAttrs(ctx, PrimeObjects(ctx, A))
  BY <1>1, Closure
<1>. QED BY <1>1, <1>3, <1>4, <1>5

\* The intent of an object's own concept is its attributes.
LEMMA ObjectIntent ==
  ASSUME NEW ctx \in Contexts, NEW h \in DOMAIN ctx
  PROVE  /\ h \in PrimeAttrs(ctx, ctx[h])
         /\ PrimeObjects(ctx, {h}) = ctx[h]
         /\ PrimeObjects(ctx, PrimeAttrs(ctx, ctx[h])) = ctx[h]
<1>1. PrimeObjects(ctx, {h}) = ctx[h]
  BY CommonAttributes
<1>2. h \in PrimeAttrs(ctx, ctx[h])
  BY DEF PrimeAttrs
<1>. QED BY <1>1, <1>2, Closure

\* A kept extent is not empty, and finite.
LEMMA KeptNonempty ==
  ASSUME NEW ctx \in Contexts, NEW s \in Sigmas, NEW hs \in SUBSET DOMAIN ctx,
         NEW A \in SUBSET DOMAIN ctx, Kept(ctx, s, hs, A)
  PROVE  A # {} /\ IsFiniteSet(A)
<1>1. IsFiniteSet(A)
  BY ContextShape, FS_Subset
<1>2. CASE Cardinality(A) >= s
  BY <1>1, <1>2, FS_EmptySet, SigmasAssumption
<1>3. CASE \E h \in hs : A = PrimeAttrs(ctx, ctx[h])
  BY <1>1, <1>3, ObjectIntent
<1>. QED BY <1>1, <1>2, <1>3 DEF Kept

-----------------------------------------------------------------------------
(* The two prime operators when one object is added.                       *)

\* ctx2 is ctx with one more object.
Grows(ctx, g, attrs, ctx2) ==
  /\ ctx \in Contexts /\ g \in Candidates \ DOMAIN ctx /\ attrs \in AttributeSets
  /\ ctx2 \in Contexts
  /\ DOMAIN ctx2 = DOMAIN ctx \cup {g}
  /\ ctx2[g] = attrs
  /\ \A h \in DOMAIN ctx : ctx2[h] = ctx[h]

\* That is what add_object makes of it.
LEMMA GrownContext ==
  ASSUME NEW ctx \in Contexts, NEW g \in Candidates \ DOMAIN ctx, NEW attrs \in AttributeSets
  PROVE  Grows(ctx, g, attrs, WithObject(ctx, g, attrs))
<1>. DEFINE S == DOMAIN ctx \cup {g}
<1>1. S \in SUBSET Candidates
  BY ContextShape
<1>2. WithObject(ctx, g, attrs) \in [S -> AttributeSets]
  BY ContextShape DEF WithObject
<1>. QED BY <1>1, <1>2 DEF Contexts, WithObject, Grows

\* The common attributes of old objects stay.
LEMMA OldIntents ==
  ASSUME NEW ctx, NEW g, NEW attrs, NEW ctx2, Grows(ctx, g, attrs, ctx2),
         NEW X, X \subseteq DOMAIN ctx, X # {}
  PROVE  PrimeObjects(ctx2, X) = PrimeObjects(ctx, X)
<1>1. \A a : a \in PrimeObjects(ctx, X) <=> \A h \in X : a \in ctx[h]
  BY CommonAttributes DEF Grows
<1>2. \A a : a \in PrimeObjects(ctx2, X) <=> \A h \in X : a \in ctx2[h]
  BY CommonAttributes DEF Grows
<1>. QED BY <1>1, <1>2 DEF Grows

\* Together with the new object they are cut down to its attributes.
LEMMA GrownIntents ==
  ASSUME NEW ctx, NEW g, NEW attrs, NEW ctx2, Grows(ctx, g, attrs, ctx2),
         NEW X, X \subseteq DOMAIN ctx, X # {}
  PROVE  PrimeObjects(ctx2, X \cup {g}) = PrimeObjects(ctx, X) \cap attrs
<1>1. \A a : a \in PrimeObjects(ctx, X) <=> \A h \in X : a \in ctx[h]
  BY CommonAttributes DEF Grows
<1>2. \A a : a \in PrimeObjects(ctx2, X \cup {g}) <=> \A h \in X \cup {g} : a \in ctx2[h]
  <2>1. X \cup {g} \in SUBSET DOMAIN ctx2 /\ X \cup {g} # {}
    BY DEF Grows
  <2>. QED BY <2>1, CommonAttributes DEF Grows
<1>. QED BY <1>1, <1>2 DEF Grows

\* How extents change.
LEMMA GrownExtents ==
  ASSUME NEW ctx, NEW g, NEW attrs, NEW ctx2, Grows(ctx, g, attrs, ctx2),
         NEW Y
  PROVE  /\ Y \subseteq attrs => PrimeAttrs(ctx2, Y) = PrimeAttrs(ctx, Y) \cup {g}
         /\ ~(Y \subseteq attrs) => PrimeAttrs(ctx2, Y) = PrimeAttrs(ctx, Y)
BY DEF PrimeAttrs, Grows

-----------------------------------------------------------------------------
(* The invariant, as two halves about a set of concepts.                   *)

Sound(lat, ctx, s, hs) ==
  \A c \in lat : /\ c.extent \in SUBSET DOMAIN ctx
                  /\ c.intent = PrimeObjects(ctx, c.extent)
                  /\ Kept(ctx, s, hs, c.extent)

Complete(lat, ctx, s, hs) ==
  \A A \in SUBSET DOMAIN ctx : Kept(ctx, s, hs, A) =>
    \E c \in lat : c.extent = A /\ c.intent = PrimeObjects(ctx, A)

\* What LatticeIsIceberg says of any lattice.
Iceberg(lat, ctx, s, hs) ==
  {<<c.extent, c.intent>> : c \in lat}
    = {<<A, PrimeObjects(ctx, A)>> : A \in {E \in SUBSET DOMAIN ctx : Kept(ctx, s, hs, E)}}

LEMMA IcebergHalves ==
  ASSUME NEW lat, NEW ctx, NEW s, NEW hs
  PROVE  Iceberg(lat, ctx, s, hs) <=> Sound(lat, ctx, s, hs) /\ Complete(lat, ctx, s, hs)
<1>. DEFINE K == {E \in SUBSET DOMAIN ctx : Kept(ctx, s, hs, E)}
            L == {<<c.extent, c.intent>> : c \in lat}
            R == {<<A, PrimeObjects(ctx, A)>> : A \in K}
<1>1. ASSUME Sound(lat, ctx, s, hs), NEW c \in lat
      PROVE  <<c.extent, c.intent>> \in R
  BY <1>1 DEF Sound
<1>2. ASSUME L \subseteq R, NEW c \in lat
      PROVE  c.extent \in K /\ c.intent = PrimeObjects(ctx, c.extent)
  <2>1. <<c.extent, c.intent>> \in R
    BY <1>2
  <2>. QED BY <2>1
<1>3. ASSUME Complete(lat, ctx, s, hs), NEW A \in K
      PROVE  <<A, PrimeObjects(ctx, A)>> \in L
  BY <1>3 DEF Complete
<1>4. ASSUME R \subseteq L, NEW A \in K
      PROVE  \E c \in lat : c.extent = A /\ c.intent = PrimeObjects(ctx, A)
  <2>1. <<A, PrimeObjects(ctx, A)>> \in L
    BY <1>4
  <2>. QED BY <2>1
<1>5. Sound(lat, ctx, s, hs) <=> L \subseteq R
  BY <1>1, <1>2 DEF Sound
<1>6. Complete(lat, ctx, s, hs) <=> R \subseteq L
  BY <1>3, <1>4 DEF Complete
<1>. QED BY <1>5, <1>6 DEF Iceberg

\* One candidate g is inserted into ctx and, perhaps, among its hubs.
Insertion(ctx, s, hs, g, attrs, ctx2, hs2) ==
  /\ ctx \in Contexts /\ s \in Sigmas /\ hs \in SUBSET DOMAIN ctx
  /\ g \in Candidates \ DOMAIN ctx /\ attrs \in AttributeSets
  /\ Grows(ctx, g, attrs, ctx2)
  /\ hs \subseteq hs2 /\ hs2 \subseteq hs \cup {g}

\* The kept extents of the grown context, from those of the old one.
LEMMA OldKept ==
  ASSUME NEW ctx, NEW s, NEW hs, NEW g, NEW attrs, NEW ctx2, NEW hs2,
         Insertion(ctx, s, hs, g, attrs, ctx2, hs2),
         NEW A \in SUBSET DOMAIN ctx, Kept(ctx, s, hs, A)
  PROVE  /\ PrimeObjects(ctx, A) \subseteq attrs =>
              /\ Kept(ctx2, s, hs2, A \cup {g})
              /\ PrimeObjects(ctx2, A \cup {g}) = PrimeObjects(ctx, A)
         /\ ~(PrimeObjects(ctx, A) \subseteq attrs) =>
              /\ Kept(ctx2, s, hs2, A)
              /\ PrimeObjects(ctx2, A) = PrimeObjects(ctx, A)
<1>. DEFINE B == PrimeObjects(ctx, A)
<1>. /\ ctx \in Contexts /\ s \in Sigmas /\ hs \in SUBSET DOMAIN ctx
     /\ g \in Candidates \ DOMAIN ctx /\ attrs \in AttributeSets
     /\ Grows(ctx, g, attrs, ctx2)
     /\ hs \subseteq hs2 /\ hs2 \subseteq hs \cup {g}
  BY DEF Insertion
<1>1. A # {} /\ IsFiniteSet(A)
  BY KeptNonempty
<1>2. /\ PrimeObjects(ctx2, A) = B
      /\ PrimeObjects(ctx2, A \cup {g}) = B \cap attrs
      /\ B \subseteq attrs => PrimeAttrs(ctx2, B) = PrimeAttrs(ctx, B) \cup {g}
      /\ ~(B \subseteq attrs) => PrimeAttrs(ctx2, B) = PrimeAttrs(ctx, B)
  <2>1. /\ PrimeObjects(ctx2, A) = PrimeObjects(ctx, A)
        /\ PrimeObjects(ctx2, A \cup {g}) = PrimeObjects(ctx, A) \cap attrs
    BY <1>1, OldIntents, GrownIntents
  <2>2. /\ B \subseteq attrs => PrimeAttrs(ctx2, B) = PrimeAttrs(ctx, B) \cup {g}
        /\ ~(B \subseteq attrs) => PrimeAttrs(ctx2, B) = PrimeAttrs(ctx, B)
    BY GrownExtents
  <2>. QED BY <2>1, <2>2
<1>3. PrimeAttrs(ctx, B) = A
  BY DEF Kept
<1>4. CASE B \subseteq attrs
  <2>1. PrimeObjects(ctx2, A \cup {g}) = B /\ PrimeAttrs(ctx2, B) = A \cup {g}
    BY <1>2, <1>3, <1>4
  <2>2. CASE Cardinality(A) >= s
    <3>1. IsFiniteSet(A \cup {g}) /\ Cardinality(A \cup {g}) \in Nat /\ Cardinality(A) \in Nat
      BY <1>1, FS_AddElement, FS_CardinalityType
    <3>2. Cardinality(A) <= Cardinality(A \cup {g})
      BY <3>1, FS_Subset
    <3>. QED BY <1>4, <2>1, <2>2, <3>1, <3>2, SigmasAssumption DEF Kept
  <2>3. CASE \E h \in hs : A = PrimeAttrs(ctx, ctx[h])
    <3>1. PICK h \in hs : A = PrimeAttrs(ctx, ctx[h])
      BY <2>3
    <3>2. h \in DOMAIN ctx /\ B = ctx[h]
      BY <3>1, ObjectIntent
    <3>3. ctx2[h] = ctx[h]
      BY <3>2 DEF Grows
    <3>. QED BY <1>4, <2>1, <3>1, <3>2, <3>3 DEF Kept
  <2>. QED BY <2>2, <2>3 DEF Kept
<1>5. CASE ~(B \subseteq attrs)
  <2>1. PrimeAttrs(ctx2, PrimeObjects(ctx2, A)) = A
    BY <1>2, <1>3, <1>5
  <2>2. ASSUME NEW h \in hs, A = PrimeAttrs(ctx, ctx[h])
        PROVE  A = PrimeAttrs(ctx2, ctx2[h])
    <3>1. h \in DOMAIN ctx /\ B = ctx[h]
      BY <2>2, ObjectIntent
    <3>2. ctx2[h] = ctx[h]
      BY <3>1 DEF Grows
    <3>. QED BY <1>2, <1>3, <1>5, <3>1, <3>2
  <2>. QED BY <1>2, <1>5, <2>1, <2>2 DEF Kept
<1>. QED BY <1>4, <1>5

\* A finite set that holds g and falls below a threshold of at most 2 is {g};
\* without g, one below it is empty or a singleton.
LEMMA BelowThreshold ==
  ASSUME NEW s \in Sigmas, NEW A, IsFiniteSet(A), ~(Cardinality(A) >= s)
  PROVE  A = {} \/ \E h : A = {h}
<1>1. Cardinality(A) \in Nat
  BY FS_CardinalityType
<1>2. Cardinality(A) = 0 \/ Cardinality(A) = 1
  BY <1>1, SigmasAssumption
<1>. QED BY <1>2, FS_EmptySet, FS_Singleton

-----------------------------------------------------------------------------
(* One insertion.                                                          *)

\* What insert_object leaves of the old concepts is sound.
LEMMA OldConceptsSound ==
  ASSUME Sound(lattice, objects, sigma, hubs), NEW g, NEW attrs, NEW ctx2, NEW hs2,
         Insertion(objects, sigma, hubs, g, attrs, ctx2, hs2)
  PROVE  Sound((lattice \ Touched(attrs)) \cup Grown(ctx2, g, attrs), ctx2, sigma, hs2)
<1>0. DOMAIN ctx2 = DOMAIN objects \cup {g}
  BY DEF Insertion, Grows
<1>1. ASSUME NEW c \in lattice
      PROVE  /\ c.extent \in SUBSET DOMAIN objects
             /\ c.intent \subseteq attrs =>
                  /\ Kept(ctx2, sigma, hs2, c.extent \cup {g})
                  /\ PrimeObjects(ctx2, c.extent \cup {g}) = c.intent
             /\ ~(c.intent \subseteq attrs) =>
                  /\ Kept(ctx2, sigma, hs2, c.extent)
                  /\ PrimeObjects(ctx2, c.extent) = c.intent
  <2>1. /\ c.extent \in SUBSET DOMAIN objects
        /\ c.intent = PrimeObjects(objects, c.extent)
        /\ Kept(objects, sigma, hubs, c.extent)
    BY DEF Sound
  <2>. QED BY <2>1, OldKept
<1>2. ASSUME NEW d \in lattice \ Touched(attrs)
      PROVE  /\ d.extent \in SUBSET DOMAIN ctx2
             /\ d.intent = PrimeObjects(ctx2, d.extent)
             /\ Kept(ctx2, sigma, hs2, d.extent)
  BY <1>0, <1>1 DEF Touched
<1>3. ASSUME NEW d \in Grown(ctx2, g, attrs)
      PROVE  /\ d.extent \in SUBSET DOMAIN ctx2
             /\ d.intent = PrimeObjects(ctx2, d.extent)
             /\ Kept(ctx2, sigma, hs2, d.extent)
  <2>1. PICK c \in Touched(attrs) :
          d = [extent |-> c.extent \cup {g}, intent |-> c.intent,
               stability |-> Hits(ctx2, c.extent \cup {g}, c.intent)]
    BY Zenon DEF Grown
  <2>2. c \in lattice /\ c.intent \subseteq attrs
    BY DEF Touched
  <2>. QED BY <1>0, <1>1, <2>1, <2>2
<1>. QED BY <1>2, <1>3 DEF Sound

\* The concepts that insert_object creates are sound: below the threshold
\* there is only the object's own concept.
LEMMA NewConceptsSound ==
  ASSUME sigma \in Sigmas,
         NEW g \in Candidates, NEW attrs, NEW hub \in BOOLEAN,
         NEW ctx2 \in Contexts, g \in DOMAIN ctx2, ctx2[g] = attrs,
         \A Y \in CandidateIntents(ctx2, g, attrs) : Y \subseteq attrs,
         NEW hs2, hub => g \in hs2
  PROVE  Sound(Created(ctx2, g, attrs, hub), ctx2, sigma, hs2)
<1>. SUFFICES ASSUME NEW c \in Created(ctx2, g, attrs, hub)
              PROVE  /\ c.extent \in SUBSET DOMAIN ctx2
                     /\ c.intent = PrimeObjects(ctx2, c.extent)
                     /\ Kept(ctx2, sigma, hs2, c.extent)
  BY DEF Sound
<1>1. PICK Y \in CandidateIntents(ctx2, g, attrs) : c = ConceptOf(ctx2, PrimeAttrs(ctx2, Y))
  BY DEF Created
<1>. DEFINE A == PrimeAttrs(ctx2, Y)
<1>2. c.extent = A /\ c.intent = PrimeObjects(ctx2, A)
  BY <1>1 DEF ConceptOf
<1>3. A \in SUBSET DOMAIN ctx2
  BY DEF PrimeAttrs
<1>4. g \in A /\ PrimeAttrs(ctx2, PrimeObjects(ctx2, A)) = A
  BY ClosedAttributes
<1>5. Cardinality(A) >= sigma \/ (hub /\ ~(Cardinality(A) >= sigma))
  BY <1>2 DEF Created
<1>6. CASE Cardinality(A) >= sigma
  BY <1>2, <1>3, <1>4, <1>6 DEF Kept
<1>7. CASE hub /\ ~(Cardinality(A) >= sigma)
  <2>1. IsFiniteSet(A)
    BY <1>3, ContextShape, FS_Subset
  <2>2. A = {g}
    BY <1>4, <1>7, <2>1, BelowThreshold
  <2>3. PrimeAttrs(ctx2, ctx2[g]) \subseteq A /\ g \in PrimeAttrs(ctx2, ctx2[g])
    BY ObjectIntent DEF PrimeAttrs
  <2>. QED BY <1>2, <1>3, <1>4, <1>7, <2>2, <2>3 DEF Kept
<1>. QED BY <1>5, <1>6, <1>7

After(ctx2, g, attrs, hub) ==
  (lattice \ Touched(attrs)) \cup Grown(ctx2, g, attrs) \cup Created(ctx2, g, attrs, hub)

\* A kept extent without the new object was kept before, and its concept is
\* left alone.
LEMMA UntouchedComplete ==
  ASSUME Complete(lattice, objects, sigma, hubs), NEW g, NEW attrs, NEW ctx2, NEW hs2,
         Insertion(objects, sigma, hubs, g, attrs, ctx2, hs2), NEW hub,
         NEW A \in SUBSET DOMAIN ctx2, Kept(ctx2, sigma, hs2, A), g \notin A
  PROVE  \E c \in After(ctx2, g, attrs, hub) : c.extent = A /\ c.intent = PrimeObjects(ctx2, A)
<1>. DEFINE B == PrimeObjects(ctx2, A)
<1>. /\ objects \in Contexts /\ sigma \in Sigmas /\ hubs \in SUBSET DOMAIN objects
     /\ g \in Candidates \ DOMAIN objects /\ attrs \in AttributeSets
     /\ Grows(objects, g, attrs, ctx2)
     /\ hubs \subseteq hs2 /\ hs2 \subseteq hubs \cup {g}
  BY DEF Insertion
<1>1. /\ ctx2 \in Contexts /\ DOMAIN ctx2 = DOMAIN objects \cup {g} /\ ctx2[g] = attrs
      /\ \A h \in DOMAIN objects : ctx2[h] = objects[h]
  BY DEF Grows
<1>2. A # {} /\ A \in SUBSET DOMAIN objects
  BY <1>1, KeptNonempty
<1>3. B = PrimeObjects(objects, A)
  BY <1>2, OldIntents
<1>4. PrimeAttrs(ctx2, B) = A
  BY DEF Kept
<1>5. ~(B \subseteq attrs)
  BY <1>1, <1>4 DEF PrimeAttrs
<1>6. PrimeAttrs(objects, B) = A
  BY <1>4, <1>5, GrownExtents
<1>7. ASSUME NEW h \in hs2, A = PrimeAttrs(ctx2, ctx2[h])
      PROVE  h \in hubs /\ A = PrimeAttrs(objects, objects[h])
  <2>1. h \in A /\ B = ctx2[h]
    BY <1>1, <1>7, ObjectIntent
  <2>. QED BY <1>1, <1>2, <1>6, <2>1
<1>8. Kept(objects, sigma, hubs, A)
  BY <1>3, <1>6, <1>7 DEF Kept
<1>9. PICK c \in lattice : c.extent = A /\ c.intent = PrimeObjects(objects, A)
  BY <1>2, <1>8 DEF Complete
<1>. QED BY <1>3, <1>5, <1>9 DEF Touched, After

\* A kept extent with the new object is the extent of one of the intents tried.
LEMMA IntentTried ==
  ASSUME Complete(lattice, objects, sigma, hubs), NEW g, NEW attrs, NEW ctx2, NEW hs2,
         Insertion(objects, sigma, hubs, g, attrs, ctx2, hs2),
         NEW A \in SUBSET DOMAIN ctx2, g \in A
  PROVE  PrimeObjects(ctx2, A) \in CandidateIntents(ctx2, g, attrs)
<1>. DEFINE B == PrimeObjects(ctx2, A)
            S == A \ {g}
            D == PrimeObjects(objects, S)
            E == PrimeAttrs(objects, D)
<1>. /\ objects \in Contexts /\ sigma \in Sigmas /\ hubs \in SUBSET DOMAIN objects
     /\ g \in Candidates \ DOMAIN objects /\ attrs \in AttributeSets
     /\ Grows(objects, g, attrs, ctx2)
  BY DEF Insertion
<1>1. /\ ctx2 \in Contexts /\ DOMAIN ctx2 = DOMAIN objects \cup {g} /\ ctx2[g] = attrs
      /\ \A h \in DOMAIN objects : ctx2[h] = objects[h]
  BY DEF Grows
<1>2. S \in SUBSET DOMAIN objects /\ A = S \cup {g} /\ IsFiniteSet(S)
  <2>1. S \in SUBSET DOMAIN objects
    BY <1>1
  <2>. QED BY <2>1, ContextShape, FS_Subset
<1>3. S # {} => B = D \cap attrs
  BY <1>2, GrownIntents
<1>4. CASE S = {}
  <2>1. A = {g}
    BY <1>2, <1>4
  <2>2. B = attrs
    BY <1>1, <2>1, ObjectIntent
  <2>. QED BY <2>2 DEF CandidateIntents
<1>5. ASSUME NEW h, S = {h}
      PROVE  B \in CandidateIntents(ctx2, g, attrs)
  <2>1. h \in DOMAIN objects /\ h \in DOMAIN ctx2 \ {g} /\ ctx2[h] = objects[h]
    BY <1>1, <1>2, <1>5
  <2>2. D = objects[h]
    BY <1>5, <2>1, ObjectIntent
  <2>3. B = ctx2[h] \cap attrs
    BY <1>3, <1>5, <2>1, <2>2
  <2>. QED BY <2>1, <2>3 DEF CandidateIntents
<1>6. CASE Cardinality(S) >= sigma
  <2>1. S # {}
    BY <1>6, SigmasAssumption, FS_EmptySet
  <2>2. S \subseteq E /\ PrimeObjects(objects, E) = D
    BY <1>2, <2>1, Closure
  <2>3. E \in SUBSET DOMAIN objects /\ IsFiniteSet(E)
    <3>1. E \in SUBSET DOMAIN objects
      BY DEF PrimeAttrs
    <3>. QED BY <3>1, ContextShape, FS_Subset
  <2>4. Cardinality(E) >= sigma
    <3>1. Cardinality(S) <= Cardinality(E)
      BY <2>2, <2>3, FS_Subset
    <3>. QED BY <1>2, <1>6, <2>3, <3>1, FS_CardinalityType, SigmasAssumption
  <2>5. Kept(objects, sigma, hubs, E)
    BY <2>2, <2>4 DEF Kept
  <2>6. PICK c \in lattice : c.extent = E /\ c.intent = PrimeObjects(objects, E)
    BY <2>3, <2>5 DEF Complete
  <2>7. B = c.intent \cap attrs
    BY <1>3, <2>1, <2>2, <2>6
  <2>. QED BY <2>7 DEF CandidateIntents
<1>7. Cardinality(S) >= sigma \/ S = {} \/ \E h : S = {h}
  BY <1>2, BelowThreshold
<1>. QED BY <1>4, <1>5, <1>6, <1>7

\* Of a kept extent with the new object there is a concept after the step: an
\* old one that has grown to it, or a new one.
LEMMA TouchedComplete ==
  ASSUME Sound(lattice, objects, sigma, hubs), Complete(lattice, objects, sigma, hubs),
         NEW g, NEW attrs, NEW ctx2, NEW hs2,
         Insertion(objects, sigma, hubs, g, attrs, ctx2, hs2), NEW hub, g \in hs2 => hub,
         NEW A \in SUBSET DOMAIN ctx2, Kept(ctx2, sigma, hs2, A), g \in A
  PROVE  \E c \in After(ctx2, g, attrs, hub) : c.extent = A /\ c.intent = PrimeObjects(ctx2, A)
<1>. DEFINE B == PrimeObjects(ctx2, A)
<1>. /\ objects \in Contexts /\ sigma \in Sigmas /\ hubs \in SUBSET DOMAIN objects
     /\ g \in Candidates \ DOMAIN objects /\ attrs \in AttributeSets
     /\ Grows(objects, g, attrs, ctx2)
     /\ hubs \subseteq hs2 /\ hs2 \subseteq hubs \cup {g}
  BY DEF Insertion
<1>1. /\ ctx2 \in Contexts /\ DOMAIN ctx2 = DOMAIN objects \cup {g} /\ ctx2[g] = attrs
      /\ \A h \in DOMAIN objects : ctx2[h] = objects[h]
  BY DEF Grows
<1>2. PrimeAttrs(ctx2, B) = A
  BY DEF Kept
<1>3. B \subseteq attrs
  BY <1>1, <1>2 DEF PrimeAttrs
<1>4. CASE \E d \in lattice : d.intent = B
  <2>1. PICK d \in lattice : d.intent = B
    BY <1>4
  <2>2. PrimeAttrs(objects, d.intent) = d.extent
    BY DEF Sound, Kept
  <2>3. A = d.extent \cup {g}
    BY <1>2, <1>3, <2>1, <2>2, GrownExtents
  <2>. DEFINE c == [extent |-> d.extent \cup {g}, intent |-> d.intent,
                    stability |-> Hits(ctx2, d.extent \cup {g}, d.intent)]
  <2>4. c \in Grown(ctx2, g, attrs)
    BY <1>3, <2>1 DEF Grown, Touched
  <2>5. c.extent = A /\ c.intent = B
    BY <2>1, <2>3
  <2>. QED BY <2>4, <2>5 DEF After
<1>5. CASE \A d \in lattice : d.intent # B
  <2>. DEFINE c == ConceptOf(ctx2, PrimeAttrs(ctx2, B))
  <2>1. c.extent = A /\ c.intent = B
    BY <1>2 DEF ConceptOf
  <2>2. B \in CandidateIntents(ctx2, g, attrs)
    BY IntentTried
  <2>3. Cardinality(A) >= sigma \/ hub
    <3>1. SUFFICES ASSUME ~(Cardinality(A) >= sigma)
                   PROVE  g \in hs2
      OBVIOUS
    <3>2. PICK h \in hs2 : A = PrimeAttrs(ctx2, ctx2[h])
      BY <3>1 DEF Kept
    <3>3. IsFiniteSet(A)
      BY <1>1, ContextShape, FS_Subset
    <3>4. A = {g}
      BY <3>1, <3>3, BelowThreshold
    <3>5. h \in DOMAIN ctx2
      BY <1>1
    <3>6. h \in A
      BY <1>1, <3>2, <3>5, ObjectIntent
    <3>. QED BY <3>4, <3>6
  <2>4. c \in Created(ctx2, g, attrs, hub)
    BY <1>5, <2>1, <2>2, <2>3 DEF Created
  <2>. QED BY <2>1, <2>4 DEF After
<1>. QED BY <1>4, <1>5

-----------------------------------------------------------------------------
(* The theorems.                                                           *)

\* The part of the type invariant that the lattice lemmas need.
Shape ==
  /\ sigma \in Sigmas
  /\ objects \in Contexts
  /\ hubs \in SUBSET DOMAIN objects

IInv ==
  /\ Shape
  /\ Sound(lattice, objects, sigma, hubs)
  /\ Complete(lattice, objects, sigma, hubs)

LEMMA EmptyContext ==
  /\ [g \in {} |-> {}] \in Contexts
  /\ DOMAIN [g \in {} |-> {}] = {}
<1>1. [g \in {} |-> {}] \in [{} -> AttributeSets]
  OBVIOUS
<1>2. {} \in SUBSET Candidates
  OBVIOUS
<1>. QED BY <1>1, <1>2 DEF Contexts

LEMMA IcebergInit == Init => IInv
<1>. SUFFICES ASSUME Init PROVE IInv
  OBVIOUS
<1>1. Shape /\ DOMAIN objects = {}
  BY EmptyContext DEF Init, Shape
<1>2. ASSUME NEW A \in SUBSET DOMAIN objects, Kept(objects, sigma, hubs, A)
      PROVE  FALSE
  BY <1>1, <1>2, KeptNonempty DEF Shape
<1>3. lattice = {}
  BY DEF Init
<1>4. Sound(lattice, objects, sigma, hubs) /\ Complete(lattice, objects, sigma, hubs)
  BY <1>2, <1>3 DEF Sound, Complete
<1>. QED BY <1>1, <1>4 DEF IInv

\* Induction builds the iceberg by definition.
LEMMA IcebergInduce ==
  ASSUME Shape, NEW ctx \in Contexts, NEW hubsIn \in SUBSET DOMAIN ctx, Induce(ctx, hubsIn)
  PROVE  /\ Shape'
         /\ Sound(lattice', objects', sigma', hubs')
         /\ Complete(lattice', objects', sigma', hubs')
<1>. DEFINE Es == ClosedExtents(ctx, sigma) \cup HubExtents(ctx, hubsIn)
<1>1. /\ objects' = ctx /\ hubs' = hubsIn /\ sigma' = sigma
      /\ lattice' = {ConceptOf(ctx, A) : A \in Es}
  BY DEF Induce, BuildLattice
<1>2. ASSUME NEW A \in Es
      PROVE  A \in SUBSET DOMAIN ctx /\ Kept(ctx, sigma, hubsIn, A)
  <2>1. CASE A \in ClosedExtents(ctx, sigma)
    BY <2>1 DEF ClosedExtents, Kept
  <2>2. CASE A \in HubExtents(ctx, hubsIn)
    <3>1. PICK h \in hubsIn : A = PrimeAttrs(ctx, ctx[h])
      BY <2>2 DEF HubExtents
    <3>2. h \in DOMAIN ctx
      OBVIOUS
    <3>3. PrimeAttrs(ctx, PrimeObjects(ctx, A)) = A
      BY <3>1, <3>2, ObjectIntent
    <3>4. A \in SUBSET DOMAIN ctx
      BY <3>1 DEF PrimeAttrs
    <3>. QED BY <3>1, <3>3, <3>4 DEF Kept
  <2>. QED BY <2>1, <2>2
<1>3. ASSUME NEW A \in SUBSET DOMAIN ctx, Kept(ctx, sigma, hubsIn, A)
      PROVE  A \in Es
  BY <1>3 DEF Kept, ClosedExtents, HubExtents
<1>4. \A A : ConceptOf(ctx, A).extent = A /\ ConceptOf(ctx, A).intent = PrimeObjects(ctx, A)
  BY DEF ConceptOf
<1>. HIDE DEF Es
<1>5. Sound(lattice', ctx, sigma, hubsIn)
  BY <1>1, <1>2, <1>4 DEF Sound
<1>6. Complete(lattice', ctx, sigma, hubsIn)
  BY <1>1, <1>3, <1>4 DEF Complete
<1>. QED BY <1>1, <1>5, <1>6 DEF Shape

LEMMA IcebergInsert ==
  ASSUME Shape, Sound(lattice, objects, sigma, hubs), Complete(lattice, objects, sigma, hubs),
         NEW g \in Candidates, NEW attrs \in AttributeSets, NEW hub \in BOOLEAN,
         Insert(g, attrs, hub)
  PROVE  /\ Shape'
         /\ Sound(lattice', objects', sigma', hubs')
         /\ Complete(lattice', objects', sigma', hubs')
<1>. DEFINE ctx2 == WithObject(objects, g, attrs)
            hs2 == IF hub THEN hubs \cup {g} ELSE hubs
<1>1. /\ g \notin DOMAIN objects
      /\ objects' = ctx2 /\ hubs' = hs2 /\ sigma' = sigma
      /\ lattice' = After(ctx2, g, attrs, hub)
  BY DEF Insert, After
<1>2. Grows(objects, g, attrs, ctx2)
  BY <1>1, GrownContext DEF Shape
<1>3. hubs \subseteq hs2 /\ hs2 \subseteq hubs \cup {g} /\ (g \in hs2 <=> hub)
  BY <1>1 DEF Shape
<1>. HIDE DEF ctx2, hs2
<1>4. Insertion(objects, sigma, hubs, g, attrs, ctx2, hs2)
  BY <1>1, <1>2, <1>3 DEF Insertion, Shape
<1>5. ctx2 \in Contexts /\ g \in DOMAIN ctx2 /\ ctx2[g] = attrs /\ hs2 \in SUBSET DOMAIN ctx2
  BY <1>2, <1>3 DEF Grows, Shape
<1>6. Sound((lattice \ Touched(attrs)) \cup Grown(ctx2, g, attrs), ctx2, sigma, hs2)
  BY <1>4, OldConceptsSound
<1>7. Sound(Created(ctx2, g, attrs, hub), ctx2, sigma, hs2)
  <2>1. \A Y \in CandidateIntents(ctx2, g, attrs) : Y \subseteq attrs
    BY DEF CandidateIntents
  <2>2. sigma \in Sigmas
    BY DEF Shape
  <2>. QED BY <1>3, <1>5, <2>1, <2>2, NewConceptsSound
<1>8. Sound(After(ctx2, g, attrs, hub), ctx2, sigma, hs2)
  BY <1>6, <1>7 DEF Sound, After
<1>9. ASSUME NEW A \in SUBSET DOMAIN ctx2, Kept(ctx2, sigma, hs2, A)
      PROVE  \E c \in After(ctx2, g, attrs, hub) : c.extent = A /\ c.intent = PrimeObjects(ctx2, A)
  <2>1. CASE g \in A
    BY <1>3, <1>4, <1>9, <2>1, TouchedComplete
  <2>2. CASE g \notin A
    BY <1>4, <1>9, <2>2, UntouchedComplete
  <2>. QED BY <2>1, <2>2
<1>10. Complete(After(ctx2, g, attrs, hub), ctx2, sigma, hs2)
  BY <1>9 DEF Complete
<1>. QED BY <1>1, <1>5, <1>8, <1>10 DEF Shape

LEMMA IcebergNext == IInv /\ [Next]_vars => IInv'
<1>. SUFFICES ASSUME IInv, [Next]_vars PROVE IInv'
  OBVIOUS
<1>1. Shape /\ Sound(lattice, objects, sigma, hubs) /\ Complete(lattice, objects, sigma, hubs)
  BY DEF IInv
<1>2. ASSUME NEW ctx \in Contexts, NEW hubsIn \in SUBSET DOMAIN ctx, Induce(ctx, hubsIn)
      PROVE  IInv'
  BY <1>1, <1>2, IcebergInduce DEF IInv
<1>3. ASSUME NEW g \in Candidates, NEW attrs \in AttributeSets, NEW hub \in BOOLEAN,
             Insert(g, attrs, hub)
      PROVE  IInv'
  BY <1>1, <1>3, IcebergInsert DEF IInv
<1>4. CASE UNCHANGED vars
  BY <1>1, <1>4 DEF vars, IInv, Shape
<1>. QED BY <1>2, <1>3, <1>4 DEF Next

\* The lattice is the iceberg lattice of the candidates it was given, however
\* they came: what insert_object leaves is what build_lattice would build.
THEOREM LatticeStaysIceberg == Spec => []LatticeIsIceberg
<1>1. IInv => LatticeIsIceberg
  BY IcebergHalves DEF IInv, Iceberg, LatticeIsIceberg
<1>. QED BY <1>1, IcebergInit, IcebergNext, PTL DEF Spec

-----------------------------------------------------------------------------
(* Type correctness.                                                       *)

ConceptsOver(ctx) == [extent : SUBSET DOMAIN ctx, intent : SUBSET Attributes, stability : Nat]

\* A finite extent has finitely many subsets to count.
LEMMA HitsNatural ==
  ASSUME NEW ctx, NEW A, NEW B, IsFiniteSet(A)
  PROVE  Hits(ctx, A, B) \in Nat
<1>. DEFINE T == {S \in SUBSET A : PrimeObjects(ctx, S) = B}
<1>1. IsFiniteSet(SUBSET A)
  BY FS_SUBSET
<1>2. T \subseteq SUBSET A
  OBVIOUS
<1>3. IsFiniteSet(T)
  BY <1>1, <1>2, FS_Subset
<1>4. Cardinality(T) \in Nat
  BY <1>3, FS_CardinalityType
<1>. QED BY <1>4 DEF Hits

LEMMA ConceptTyped ==
  ASSUME NEW ctx \in Contexts, NEW A \in SUBSET DOMAIN ctx
  PROVE  ConceptOf(ctx, A) \in ConceptsOver(ctx)
<1>1. IsFiniteSet(A)
  BY ContextShape, FS_Subset
<1>2. PrimeObjects(ctx, A) \in SUBSET Attributes
  BY ContextShape DEF PrimeObjects, AllAttributes
<1>3. Hits(ctx, A, PrimeObjects(ctx, A)) \in Nat
  BY <1>1, HitsNatural
<1>. QED BY <1>2, <1>3 DEF ConceptOf, ConceptsOver

LEMMA InsertTyped ==
  ASSUME TypeOK, NEW g \in Candidates, NEW attrs \in AttributeSets, NEW hub \in BOOLEAN,
         Insert(g, attrs, hub)
  PROVE  TypeOK'
<1>. DEFINE ctx2 == WithObject(objects, g, attrs)
<1>1. /\ g \notin DOMAIN objects /\ objects' = ctx2
      /\ hubs' = IF hub THEN hubs \cup {g} ELSE hubs
      /\ lattice' = (lattice \ Touched(attrs)) \cup Grown(ctx2, g, attrs)
                      \cup Created(ctx2, g, attrs, hub)
  BY DEF Insert
<1>2. Grows(objects, g, attrs, ctx2)
  BY <1>1, GrownContext DEF TypeOK
<1>3. /\ lattice \subseteq ConceptsOver(objects)
      /\ sigma \in Sigmas /\ induced \in BOOLEAN /\ hubs \subseteq DOMAIN objects
      /\ sigma' = sigma /\ induced' = induced
  BY DEF TypeOK, ConceptsOver, Insert
<1>. HIDE DEF ctx2
<1>4. ctx2 \in Contexts /\ DOMAIN ctx2 = DOMAIN objects \cup {g}
  BY <1>2 DEF Grows
<1>5. lattice \ Touched(attrs) \subseteq ConceptsOver(ctx2)
  BY <1>3, <1>4 DEF ConceptsOver
<1>6. Grown(ctx2, g, attrs) \subseteq ConceptsOver(ctx2)
  <2>1. SUFFICES ASSUME NEW c \in lattice
        PROVE  [extent |-> c.extent \cup {g}, intent |-> c.intent,
                stability |-> Hits(ctx2, c.extent \cup {g}, c.intent)] \in ConceptsOver(ctx2)
    BY DEF Grown, Touched
  <2>2. c.extent \cup {g} \in SUBSET DOMAIN ctx2 /\ c.intent \in SUBSET Attributes
    BY <1>3, <1>4 DEF ConceptsOver
  <2>3. IsFiniteSet(c.extent \cup {g})
    BY <1>4, <2>2, ContextShape, FS_Subset
  <2>4. Hits(ctx2, c.extent \cup {g}, c.intent) \in Nat
    BY <2>3, HitsNatural
  <2>. QED BY <2>2, <2>4 DEF ConceptsOver
<1>7. Created(ctx2, g, attrs, hub) \subseteq ConceptsOver(ctx2)
  <2>1. ASSUME NEW Y PROVE ConceptOf(ctx2, PrimeAttrs(ctx2, Y)) \in ConceptsOver(ctx2)
    <3>1. PrimeAttrs(ctx2, Y) \in SUBSET DOMAIN ctx2
      BY DEF PrimeAttrs
    <3>. QED BY <1>4, <3>1, ConceptTyped
  <2>. QED BY <2>1 DEF Created
<1>8. lattice' \subseteq ConceptsOver(ctx2)
  BY <1>1, <1>5, <1>6, <1>7
<1>. QED BY <1>1, <1>3, <1>4, <1>8 DEF TypeOK, ConceptsOver

LEMMA InduceTyped ==
  ASSUME TypeOK, NEW ctx \in Contexts, NEW hubsIn \in SUBSET DOMAIN ctx, Induce(ctx, hubsIn)
  PROVE  TypeOK'
<1>1. /\ objects' = ctx /\ hubs' = hubsIn /\ sigma' = sigma /\ induced' = TRUE
      /\ lattice' = BuildLattice(ctx, sigma, hubsIn) /\ sigma \in Sigmas
  BY DEF Induce, TypeOK
<1>2. ClosedExtents(ctx, sigma) \cup HubExtents(ctx, hubsIn) \subseteq SUBSET DOMAIN ctx
  BY DEF ClosedExtents, HubExtents, PrimeAttrs
<1>3. BuildLattice(ctx, sigma, hubsIn) \subseteq ConceptsOver(ctx)
  BY <1>2, ConceptTyped DEF BuildLattice
<1>. QED BY <1>1, <1>3 DEF TypeOK, ConceptsOver

\* Every concept is one of known candidates and attributes, with a countable
\* stability, whatever is induced and inserted.
THEOREM TypeCorrect == Spec => []TypeOK
<1>1. Init => TypeOK
  BY EmptyContext DEF Init, TypeOK
<1>2. TypeOK /\ [Next]_vars => TypeOK'
  <2>. SUFFICES ASSUME TypeOK, [Next]_vars PROVE TypeOK'
    OBVIOUS
  <2>1. CASE UNCHANGED vars
    BY <2>1 DEF vars, TypeOK
  <2>. QED BY <2>1, InduceTyped, InsertTyped DEF Next
<1>. QED BY <1>1, <1>2, PTL DEF Spec

-----------------------------------------------------------------------------
(* The facade takes steps of the lattice.                                  *)

PendingTyped ==
  \A d \in pending : d.id \in Candidates /\ d.attrs \in AttributeSets /\ d.hub \in BOOLEAN

LEMMA StepOfLattice ==
  ASSUME PendingTyped, [AdmissionNext]_allVars
  PROVE  PendingTyped' /\ [Next]_vars
<1>1. ASSUME NEW ctx \in Starts, NEW hubsIn \in SUBSET DOMAIN ctx, InduceAll(ctx, hubsIn)
      PROVE  PendingTyped' /\ Next
  <2>1. ctx \in Contexts
    BY StartsAssumption
  <2>2. Next
    BY <1>1, <2>1 DEF Next, InduceAll
  <2> QED BY <1>1, <2>2 DEF InduceAll, PendingTyped
<1>2. ASSUME NEW delta \in Deltas, InsertDelta(delta) PROVE PendingTyped' /\ UNCHANGED vars
  <2>1. pending' = delta /\ UNCHANGED vars
    BY <1>2 DEF InsertDelta
  <2> QED BY <2>1, DeltasAssumption DEF PendingTyped
<1>3. ASSUME NEW d \in pending, InsertOne(d) PROVE PendingTyped' /\ Next
  <2>1. Insert(d.id, d.attrs, d.hub) /\ pending' = pending \ {d}
    BY <1>3 DEF InsertOne
  <2>2. d.id \in Candidates /\ d.attrs \in AttributeSets /\ d.hub \in BOOLEAN
    BY DEF PendingTyped
  <2> QED BY <2>1, <2>2 DEF PendingTyped, Next
<1>4. ASSUME NEW d \in pending, InsertRefused(d) PROVE PendingTyped' /\ UNCHANGED vars
  BY <1>4 DEF InsertRefused, PendingTyped
<1>5. ASSUME Inserted \/ AdmitNext \/ Admitted PROVE PendingTyped' /\ UNCHANGED vars
  BY <1>5 DEF Inserted, AdmitNext, Admitted, PendingTyped
<1>6. CASE UNCHANGED allVars
  BY <1>6 DEF allVars, strata, PendingTyped
<1> QED BY <1>1, <1>2, <1>3, <1>4, <1>5, <1>6 DEF AdmissionNext

\* Induction, deltas and admission passes, refused candidates included, move the
\* context and the lattice only as StrataLattice does (Strata.induce,
\* Strata.insert_delta).
THEOREM FacadeRefinesLattice == AdmissionSpec => Spec
<1>1. AdmissionInit => Init /\ PendingTyped
  BY DEF AdmissionInit, PendingTyped
<1>2. PendingTyped /\ [AdmissionNext]_allVars => PendingTyped' /\ [Next]_vars
  BY StepOfLattice
<1> QED BY <1>1, <1>2, PTL DEF AdmissionSpec, Spec

-----------------------------------------------------------------------------
(* Sizes.                                                                  *)

LEMMA LeastNumber ==
  ASSUME NEW S \in SUBSET Nat, S # {}
  PROVE  \E m \in S : \A s \in S : m <= s
<1>1. IsWellFoundedOn(OpToRel(<, Nat), Nat)
  BY NatLessThanWellFounded
<1>2. PICK m \in S : \A s \in S : ~ (<<s, m>> \in OpToRel(<, Nat))
  BY <1>1, WFMin
<1>3. \A s \in S : ~ (s < m)
  BY <1>2 DEF OpToRel
<1> QED BY <1>3

\* What every concept of the lattice is like.
LatticeInv == TypeOK /\ Sound(lattice, objects, sigma, hubs)

LEMMA ConceptShape ==
  ASSUME LatticeInv, NEW c \in lattice
  PROVE  /\ c.extent \in SUBSET DOMAIN objects
         /\ IsFiniteSet(c.extent) /\ SupportOf(c) \in Nat
         /\ SupportOf(c) <= Cardinality(DOMAIN objects) /\ Cardinality(DOMAIN objects) \in Nat
         /\ c.intent = PrimeObjects(objects, c.extent)
         /\ c.extent = PrimeAttrs(objects, c.intent)
<1>1. objects \in Contexts
  BY DEF LatticeInv, TypeOK
<1>2. /\ c.extent \in SUBSET DOMAIN objects
      /\ c.intent = PrimeObjects(objects, c.extent)
      /\ PrimeAttrs(objects, PrimeObjects(objects, c.extent)) = c.extent
  BY DEF LatticeInv, Sound, Kept
<1>3. IsFiniteSet(DOMAIN objects) /\ Cardinality(DOMAIN objects) \in Nat
  BY <1>1, ContextShape, FS_CardinalityType
<1>4. IsFiniteSet(c.extent) /\ Cardinality(c.extent) <= Cardinality(DOMAIN objects)
  BY <1>2, <1>3, FS_Subset
<1>5. Cardinality(c.extent) \in Nat
  BY <1>4, FS_CardinalityType
<1> QED BY <1>2, <1>3, <1>4, <1>5 DEF SupportOf

\* A wider extent of another concept is larger.
LEMMA WiderIsLarger ==
  ASSUME LatticeInv, NEW c \in lattice, NEW d \in lattice,
         c.extent \subseteq d.extent, c.extent # d.extent
  PROVE  SupportOf(c) < SupportOf(d)
<1>1. IsFiniteSet(d.extent) /\ SupportOf(c) \in Nat /\ SupportOf(d) \in Nat
  BY ConceptShape
<1>2. /\ Cardinality(c.extent) <= Cardinality(d.extent)
      /\ Cardinality(c.extent) = Cardinality(d.extent) => c.extent = d.extent
  BY <1>1, FS_Subset
<1> QED BY <1>1, <1>2 DEF SupportOf

\* The concepts of one intent are told apart by their stability only.
LEMMA SameIntent ==
  ASSUME LatticeInv, NEW c \in lattice, NEW d \in lattice, c.intent = d.intent
  PROVE  c.extent = d.extent /\ Ancestors(c) = Ancestors(d) /\ Protected(c) = Protected(d)
<1>1. c.extent = d.extent
  BY ConceptShape
<1> QED BY <1>1 DEF Ancestors, Protected

\* The concept with the smaller intent has the larger support.
LEMMA SmallerIntent ==
  ASSUME LatticeInv, NEW c \in lattice, NEW d \in lattice,
         c.intent \subseteq d.intent, c.intent # d.intent
  PROVE  SupportOf(d) < SupportOf(c)
<1>1. /\ c.extent = PrimeAttrs(objects, c.intent) /\ d.extent = PrimeAttrs(objects, d.intent)
      /\ c.intent = PrimeObjects(objects, c.extent) /\ d.intent = PrimeObjects(objects, d.extent)
  BY ConceptShape
<1>2. d.extent \subseteq c.extent
  BY <1>1 DEF PrimeAttrs
<1>3. d.extent # c.extent
  BY <1>1
<1> QED BY <1>2, <1>3, WiderIsLarger

\* The concept a pass takes next: none that is undecided is larger.
LEMMA NextIsLargest ==
  ASSUME LatticeInv, NEW S \in SUBSET lattice, S # {}
  PROVE  TopDownNext(S) \in S /\ \A d \in S : SupportOf(d) <= SupportOf(TopDownNext(S))
<1> DEFINE n == Cardinality(DOMAIN objects)
           room == {n - SupportOf(c) : c \in S}
<1>1. \A c \in S : SupportOf(c) \in Nat /\ SupportOf(c) <= n /\ n \in Nat
  BY ConceptShape
<1> HIDE DEF n
<1>2. room \in SUBSET Nat /\ room # {}
  BY <1>1
<1>3. PICK m \in room : \A s \in room : m <= s
  BY <1>2, LeastNumber
<1>4. PICK c \in S : m = n - SupportOf(c)
  OBVIOUS
<1>5. ASSUME NEW d \in S PROVE SupportOf(d) <= SupportOf(c)
  <2>1. n - SupportOf(c) <= n - SupportOf(d)
    BY <1>3, <1>4
  <2> QED BY <1>1, <2>1
<1>6. \E x \in S : \A d \in S : Cardinality(x.extent) >= Cardinality(d.extent)
  <2>1. \A d \in S : Cardinality(c.extent) >= Cardinality(d.extent)
    BY <1>1, <1>5 DEF SupportOf
  <2> QED BY <2>1
<1>7. TopDownNext(S) \in S /\ \A d \in S : Cardinality(TopDownNext(S).extent) >= Cardinality(d.extent)
  BY <1>6 DEF TopDownNext
<1> QED BY <1>1, <1>7 DEF SupportOf

\* The nearest of some concepts: none of them is smaller.
LEMMA NearestIsSmallest ==
  ASSUME LatticeInv, NEW c, NEW above \in SUBSET lattice, above # {}
  PROVE  \E t \in above : /\ NearestAdmitted(c, above) = t.intent
                          /\ \A e \in above : SupportOf(t) <= SupportOf(e)
<1> DEFINE sizes == {SupportOf(d) : d \in above}
<1>1. \A d \in above : SupportOf(d) \in Nat
  BY ConceptShape
<1>2. sizes \in SUBSET Nat /\ sizes # {}
  BY <1>1
<1>3. PICK m \in sizes : \A s \in sizes : m <= s
  BY <1>2, LeastNumber
<1>4. \E d \in above : \A e \in above : SupportOf(d) <= SupportOf(e)
  BY <1>3
<1> DEFINE t == CHOOSE d \in above : \A e \in above : SupportOf(d) <= SupportOf(e)
<1>5. t \in above /\ \A e \in above : SupportOf(t) <= SupportOf(e)
  BY <1>4
<1>6. NearestAdmitted(c, above) = t.intent
  BY DEF NearestAdmitted
<1> QED BY <1>5, <1>6

-----------------------------------------------------------------------------
(* The invariant of a pass.                                                *)

Over(result, c) == Ancestors(c) \cap AdmittedIn(result)
NewOf(result, c) == c.intent \ UNION {d.intent : d \in Over(result, c)}

\* What TargetsNearest says of one concept, about any result.
TargetGood(result, c) ==
  LET target == result[c.intent].target
  IN IF target = None
     THEN result[c.intent].outcome = "merge" => Over(result, c) = {}
     ELSE /\ \E t \in Over(result, c) : t.intent = target
          /\ ~\E d \in Over(result, c) : target \subseteq d.intent /\ target # d.intent

\* What AdmittedAddsSomething says of one concept.
AddsGood(result, c) ==
  result[c.intent].outcome = "admit" =>
    NewOf(result, c) # {} /\ (Protected(c) \/ NewOf(result, c) \cap Properties # {})

Decided(result, c) == c.intent \in DOMAIN result

\* A pass so far: the larger concepts are decided before the smaller ones, and
\* what was decided is as it should be.
PassGood(result) ==
  /\ DOMAIN result \subseteq {c.intent : c \in lattice}
  /\ \A c, d \in lattice : Decided(result, c) /\ SupportOf(c) < SupportOf(d) => Decided(result, d)
  /\ \A c \in lattice : Decided(result, c) => TargetGood(result, c) /\ AddsGood(result, c)

OutcomesTyped(result) == \A ih \in DOMAIN result : result[ih].outcome \in Outcomes

AInv ==
  /\ ~induced => mode = "idle" /\ round = <<>>
  /\ mode = "admitting" => PassGood(round)
  /\ Settled => PassGood(admission) /\ {c.intent : c \in lattice} \subseteq DOMAIN admission
  /\ OutcomesTyped(round) /\ OutcomesTyped(admission)
  /\ \A k \in DOMAIN cache : cache[k] \in Outcomes
  /\ applied = [ih \in DOMAIN admission |-> admission[ih].outcome]

LEMMA EmptyPass == PassGood(<<>>) /\ OutcomesTyped(<<>>)
<1>1. DOMAIN <<>> = {}
  OBVIOUS
<1> QED BY <1>1 DEF PassGood, OutcomesTyped, Decided

\* What is decided is decided from its ancestors, and they are decided.
LEMMA OverStays ==
  ASSUME NEW r, NEW r2, DOMAIN r \subseteq DOMAIN r2, \A ih \in DOMAIN r : r2[ih] = r[ih],
         NEW c \in lattice, \A d \in Ancestors(c) : Decided(r, d)
  PROVE  Over(r2, c) = Over(r, c)
BY DEF Over, Ancestors, AdmittedIn, Decided

LEMMA AncestorsDecided ==
  ASSUME LatticeInv, NEW r, PassGood(r), NEW c \in lattice, Decided(r, c)
  PROVE  \A d \in Ancestors(c) : Decided(r, d)
BY WiderIsLarger DEF PassGood, Ancestors

\* One more concept is decided.
LEMMA DecideNext ==
  ASSUME LatticeInv, PassGood(round), NEW c \in lattice, ~Decided(round, c),
         \A d \in lattice : ~Decided(round, d) => SupportOf(d) <= SupportOf(c),
         NEW v, NEW r2, r2 = Put(round, c.intent, v),
         TargetGood(r2, c), AddsGood(r2, c)
  PROVE  PassGood(r2)
<1>1. /\ DOMAIN r2 = DOMAIN round \cup {c.intent}
      /\ \A ih \in DOMAIN round : r2[ih] = round[ih]
  BY DEF Put, Decided
<1>2. \A d \in lattice : Decided(r2, d) <=> Decided(round, d) \/ d.intent = c.intent
  BY <1>1 DEF Decided
<1>3. ASSUME NEW d \in lattice, NEW e \in lattice, Decided(r2, d), SupportOf(d) < SupportOf(e)
      PROVE  Decided(r2, e)
  <2>1. CASE Decided(round, d)
    BY <1>2, <1>3, <2>1 DEF PassGood
  <2>2. CASE d.intent = c.intent
    <3>1. SupportOf(d) = SupportOf(c)
      BY <2>2, SameIntent DEF SupportOf
    <3>2. ~(SupportOf(e) <= SupportOf(c))
      BY <1>3, <3>1, ConceptShape
    <3> QED BY <1>2, <3>2
  <2> QED BY <1>2, <1>3, <2>1, <2>2
<1>4. ASSUME NEW d \in lattice, Decided(r2, d) PROVE TargetGood(r2, d) /\ AddsGood(r2, d)
  <2>1. CASE Decided(round, d)
    <3>1. Over(r2, d) = Over(round, d)
      BY <1>1, <2>1, AncestorsDecided, OverStays
    <3>2. r2[d.intent] = round[d.intent]
      BY <1>1, <2>1 DEF Decided
    <3>3. TargetGood(round, d) /\ AddsGood(round, d)
      BY <2>1 DEF PassGood
    <3> QED BY <3>1, <3>2, <3>3 DEF TargetGood, AddsGood, NewOf
  <2>2. CASE d.intent = c.intent
    <3>1. Over(r2, d) = Over(r2, c) /\ Protected(d) = Protected(c)
      BY <2>2, SameIntent DEF Over
    <3> QED BY <2>2, <3>1 DEF TargetGood, AddsGood, NewOf
  <2> QED BY <1>2, <1>4, <2>1, <2>2
<1>5. DOMAIN r2 \subseteq {d.intent : d \in lattice}
  BY <1>1 DEF PassGood
<1> QED BY <1>3, <1>4, <1>5 DEF PassGood

\* One step of a pass, whatever is decided.
LEMMA AdmitKeepsPass ==
  ASSUME LatticeInv, AInv, AdmitNext
  PROVE  PassGood(round') /\ OutcomesTyped(round') /\ \A k \in DOMAIN cache' : cache'[k] \in Outcomes
<1> DEFINE c == TopDownNext(Undecided)
           above == Ancestors(c) \cap AdmittedIn(round)
           f == Features(c, above)
<1>1. /\ mode = "admitting" /\ Undecided # {}
      /\ IF IsRoot(c)
         THEN /\ round' = Put(round, c.intent, [outcome |-> "discard", target |-> None, root |-> TRUE])
              /\ UNCHANGED cache
         ELSE \E outcome \in Decisions(c, f) :
                /\ round' = Put(round, c.intent,
                                [outcome |-> outcome, root |-> FALSE,
                                 target |-> IF outcome = "merge" THEN NearestAdmitted(c, above) ELSE None])
                /\ cache' = Put(cache, <<c.intent, f>>, outcome)
  BY DEF AdmitNext
<1>2. Undecided \subseteq lattice /\ \A d \in lattice : d \in Undecided <=> ~Decided(round, d)
  BY DEF Undecided, Decided
<1>3. c \in Undecided /\ \A d \in Undecided : SupportOf(d) <= SupportOf(c)
  BY <1>1, <1>2, NextIsLargest
<1> HIDE DEF c
<1>4. c \in lattice /\ ~Decided(round, c) /\ \A d \in lattice : ~Decided(round, d) => SupportOf(d) <= SupportOf(c)
  BY <1>2, <1>3
<1>5. PassGood(round) /\ OutcomesTyped(round) /\ \A k \in DOMAIN cache : cache[k] \in Outcomes
  BY <1>1 DEF AInv
<1>6. \A d \in Ancestors(c) : Decided(round, d)
  <2> SUFFICES ASSUME NEW d \in Ancestors(c), ~Decided(round, d) PROVE FALSE
    OBVIOUS
  <2>1. d \in lattice /\ SupportOf(c) < SupportOf(d)
    BY <1>4, WiderIsLarger DEF Ancestors
  <2>2. SupportOf(d) <= SupportOf(c)
    BY <1>4, <2>1
  <2> QED BY <1>4, <2>1, <2>2, ConceptShape
<1>7. above = Over(round, c)
  BY DEF Over
<1> HIDE DEF above, f
<1>8. ASSUME NEW v PROVE Over(Put(round, c.intent, v), c) = above /\ Put(round, c.intent, v)[c.intent] = v
  <2>1. /\ DOMAIN round \subseteq DOMAIN Put(round, c.intent, v)
        /\ \A ih \in DOMAIN round : Put(round, c.intent, v)[ih] = round[ih]
        /\ Put(round, c.intent, v)[c.intent] = v
    BY <1>4 DEF Put, Decided
  <2> QED BY <1>4, <1>6, <1>7, <2>1, OverStays
<1>9. ASSUME NEW v, v.outcome \in Outcomes PROVE OutcomesTyped(Put(round, c.intent, v))
  BY <1>5, <1>9 DEF OutcomesTyped, Put
<1>10. CASE IsRoot(c)
  <2> DEFINE v == [outcome |-> "discard", target |-> None, root |-> TRUE]
             r2 == Put(round, c.intent, v)
  <2>1. v.outcome = "discard" /\ v.target = None /\ r2[c.intent] = v
    BY <1>8
  <2> HIDE DEF v
  <2>2. TargetGood(r2, c) /\ AddsGood(r2, c)
    BY <2>1 DEF TargetGood, AddsGood
  <2>3. PassGood(r2) /\ OutcomesTyped(r2)
    <3>1. v.outcome \in Outcomes
      BY <2>1 DEF Outcomes
    <3> QED BY <1>4, <1>5, <1>9, <2>2, <3>1, DecideNext
  <2> QED BY <1>1, <1>5, <1>10, <2>3 DEF v
<1>11. CASE ~IsRoot(c)
  <2>1. PICK outcome \in Decisions(c, f) :
          /\ round' = Put(round, c.intent,
                          [outcome |-> outcome, root |-> FALSE,
                           target |-> IF outcome = "merge" THEN NearestAdmitted(c, above) ELSE None])
          /\ cache' = Put(cache, <<c.intent, f>>, outcome)
    BY <1>1, <1>11
  <2>2. outcome \in Outcomes
    BY <1>5 DEF Decisions, Outcomes
  <2> DEFINE v == [outcome |-> outcome, root |-> FALSE,
                   target |-> IF outcome = "merge" THEN NearestAdmitted(c, above) ELSE None]
             r2 == Put(round, c.intent, v)
  <2>3. /\ v.outcome = outcome /\ r2[c.intent] = v /\ Over(r2, c) = above
        /\ v.target = IF outcome = "merge" THEN NearestAdmitted(c, above) ELSE None
    BY <1>8
  <2> HIDE DEF v
  <2>4. above \in SUBSET lattice
    BY <1>7 DEF Over, Ancestors
  <2>5. ASSUME NEW t \in above PROVE t.intent # {}
    <3>1. t \in Ancestors(c) /\ Decided(round, t) /\ round[t.intent].outcome = "admit"
      BY <1>7 DEF Over, AdmittedIn, Decided
    <3>2. t \in lattice /\ AddsGood(round, t)
      BY <1>5, <2>4, <3>1 DEF PassGood
    <3> QED BY <3>1, <3>2 DEF AddsGood, NewOf
  <2>6. TargetGood(r2, c)
    <3>1. CASE outcome # "merge"
      BY <2>3, <3>1 DEF TargetGood
    <3>2. CASE above = {}
      BY <2>3, <3>2 DEF TargetGood, NearestAdmitted
    <3>3. CASE outcome = "merge" /\ above # {}
      <4>1. PICK t \in above : /\ NearestAdmitted(c, above) = t.intent
                               /\ \A e \in above : SupportOf(t) <= SupportOf(e)
        BY <2>4, <3>3, NearestIsSmallest
      <4>2. v.target = t.intent /\ v.target # None
        BY <2>3, <2>5, <3>3, <4>1 DEF None
      <4>3. ASSUME NEW d \in above, t.intent \subseteq d.intent, t.intent # d.intent PROVE FALSE
        <5>1. SupportOf(d) < SupportOf(t) /\ SupportOf(t) <= SupportOf(d)
          BY <2>4, <4>1, <4>3, SmallerIntent
        <5> QED BY <2>4, <5>1, ConceptShape
      <4> QED BY <2>3, <4>2, <4>3 DEF TargetGood
    <3> QED BY <3>1, <3>2, <3>3
  <2>7. AddsGood(r2, c)
    <3> SUFFICES ASSUME outcome = "admit"
                 PROVE  NewOf(r2, c) # {} /\ (Protected(c) \/ NewOf(r2, c) \cap Properties # {})
      BY <2>3 DEF AddsGood
    <3>1. ~Weak(f)
      BY DEF Decisions
    <3> DEFINE new == c.intent \ UNION {d.intent : d \in above}
    <3>2. /\ f.weight = Cardinality(new) /\ f.props = Cardinality(new \cap Properties)
          /\ f.protected = Protected(c)
      BY DEF f, Features
    <3>3. new = NewOf(r2, c)
      BY <2>3 DEF NewOf
    <3> HIDE DEF new
    <3>4. Cardinality(new) # 0 /\ (Cardinality(new \cap Properties) # 0 \/ Protected(c))
      BY <3>1, <3>2 DEF Weak
    <3> QED BY <3>3, <3>4, FS_EmptySet
  <2>8. PassGood(r2) /\ OutcomesTyped(r2)
    BY <1>4, <1>5, <1>9, <2>2, <2>3, <2>6, <2>7, DecideNext
  <2>9. \A k \in DOMAIN cache' : cache'[k] \in Outcomes
    BY <1>5, <2>1, <2>2 DEF Put
  <2> QED BY <2>1, <2>8, <2>9 DEF v
<1> QED BY <1>10, <1>11

\* Carrying out the proposals turns the outcomes before into those after.
LEMMA ProposalsCarry ==
  ASSUME NEW before, NEW after, OutcomesTyped(before), OutcomesTyped(after)
  PROVE  Carried([ih \in DOMAIN before |-> before[ih].outcome], Proposals(before, after))
           = [ih \in DOMAIN after |-> after[ih].outcome]
<1> DEFINE P == Proposals(before, after)
           outcomes == [ih \in DOMAIN before |-> before[ih].outcome]
           changed == {p[1] : p \in P}
           kept == DOMAIN outcomes \ changed
           new == {p \in P : p[2] # ""}
           newIds == {p[1] : p \in new}
           D == kept \cup newIds
<1>0. \A ih : /\ ih \in DOMAIN before => OutcomeIn(before, ih) = before[ih].outcome /\ OutcomeIn(before, ih) # ""
              /\ ih \notin DOMAIN before => OutcomeIn(before, ih) = ""
              /\ ih \in DOMAIN after => OutcomeIn(after, ih) = after[ih].outcome /\ OutcomeIn(after, ih) # ""
              /\ ih \notin DOMAIN after => OutcomeIn(after, ih) = ""
  BY DEF OutcomeIn, OutcomesTyped, Outcomes
<1>1. /\ \A p \in P : \E ih : p = <<ih, OutcomeIn(after, ih)>> /\ OutcomeIn(before, ih) # OutcomeIn(after, ih)
      /\ \A ih : OutcomeIn(before, ih) # OutcomeIn(after, ih) => <<ih, OutcomeIn(after, ih)>> \in P
  BY <1>0 DEF Proposals
<1> DEFINE Pair(ih) == <<ih, OutcomeIn(after, ih)>>
           differs == {ih \in DOMAIN before \cup DOMAIN after : OutcomeIn(before, ih) # OutcomeIn(after, ih)}
<1> HIDE DEF P
<1>20. \A ih : ih \in differs <=> OutcomeIn(before, ih) # OutcomeIn(after, ih)
  BY <1>0
<1>2. \A p \in P : p[1] \in differs /\ p[2] = OutcomeIn(after, p[1])
  <2> SUFFICES ASSUME NEW p \in P PROVE p[1] \in differs /\ p[2] = OutcomeIn(after, p[1])
    OBVIOUS
  <2>1. PICK ih : p = <<ih, OutcomeIn(after, ih)>> /\ OutcomeIn(before, ih) # OutcomeIn(after, ih)
    BY <1>1
  <2>2. p[1] = ih /\ p[2] = OutcomeIn(after, ih) /\ ih \in differs
    BY <1>20, <2>1
  <2> QED BY <2>2
<1>21. \A ih : Pair(ih)[1] = ih /\ Pair(ih)[2] = OutcomeIn(after, ih) /\ (ih \in differs => Pair(ih) \in P)
  BY <1>1, <1>20
<1> HIDE DEF Pair, differs
<1>3. \A ih : ih \in changed <=> ih \in differs
  BY <1>2, <1>21
<1>4. \A ih : ih \in newIds <=> ih \in differs /\ ih \in DOMAIN after
  <2>1. ASSUME NEW p \in new PROVE p[1] \in differs /\ p[1] \in DOMAIN after
    <3>1. p \in P /\ p[2] # ""
      OBVIOUS
    <3> QED BY <1>0, <1>2, <3>1
  <2>2. ASSUME NEW ih \in DOMAIN after, ih \in differs PROVE \E p \in new : p[1] = ih
    <3>1. Pair(ih) \in new /\ Pair(ih)[1] = ih
      BY <1>0, <1>21, <2>2
    <3> QED BY <3>1
  <2> HIDE DEF new
  <2>3. \A ih : ih \in newIds => ih \in differs /\ ih \in DOMAIN after
    BY <2>1
  <2>4. \A ih \in DOMAIN after : ih \in differs => ih \in newIds
    BY <2>2
  <2> QED BY <2>3, <2>4
<1>5. Carried(outcomes, P) = [ih \in D |-> IF ih \in kept THEN outcomes[ih] ELSE (CHOOSE p \in new : p[1] = ih)[2]]
  BY DEF Carried
<1>6. DOMAIN outcomes = DOMAIN before /\ \A ih \in DOMAIN before : outcomes[ih] = before[ih].outcome
  OBVIOUS
<1>7. \A ih : ih \in kept <=> ih \in DOMAIN before /\ ih \notin differs
  BY <1>3, <1>6
<1>71. \A ih : /\ ih \in kept => ih \in DOMAIN after /\ before[ih].outcome = after[ih].outcome
               /\ ih \in DOMAIN after => ih \in kept \/ ih \in differs
  BY <1>0, <1>7, <1>20
<1> HIDE DEF outcomes, changed, kept, new, newIds
<1>8. D = DOMAIN after
  BY <1>4, <1>71
<1>9. ASSUME NEW ih \in DOMAIN after
      PROVE  (IF ih \in kept THEN outcomes[ih] ELSE (CHOOSE p \in new : p[1] = ih)[2]) = after[ih].outcome
  <2>1. CASE ih \in kept
    BY <1>6, <1>7, <1>71, <2>1
  <2>2. CASE ih \notin kept
    <3>0. ih \in newIds
      BY <1>4, <1>71, <2>2
    <3>1. \E p \in new : p[1] = ih
      BY <3>0 DEF newIds
    <3> DEFINE q == CHOOSE p \in new : p[1] = ih
    <3>2. q \in new /\ q[1] = ih
      BY <3>1
    <3>3. q \in P
      BY <3>2 DEF new
    <3>4. q[2] = OutcomeIn(after, ih)
      BY <1>2, <3>2, <3>3
    <3> QED BY <1>0, <2>2, <3>4
  <2> QED BY <2>1, <2>2
<1>10. Carried(outcomes, P) = [ih \in DOMAIN after |-> after[ih].outcome]
  BY <1>5, <1>8, <1>9
<1> QED BY <1>10 DEF outcomes, P

-----------------------------------------------------------------------------
(* The invariant.                                                          *)

LEMMA InitAInv ==
  ASSUME AdmissionInit PROVE AInv
BY EmptyPass DEF AdmissionInit, Init, AInv, Settled

LEMMA NextAInv ==
  ASSUME LatticeInv, AInv, [AdmissionNext]_allVars PROVE AInv'
<1>1. ASSUME NEW ctx, NEW hubsIn, InduceAll(ctx, hubsIn) PROVE AInv'
  <2>1. /\ ~induced /\ induced' = TRUE /\ mode' = "admitting"
        /\ round' = round /\ admission' = admission /\ cache' = cache /\ applied' = applied
    BY <1>1 DEF InduceAll, Induce
  <2>2. round' = <<>>
    BY <2>1 DEF AInv
  <2>3. PassGood(<<>>)'
    BY DEF PassGood, Decided
  <2> QED BY <2>1, <2>2, <2>3 DEF AInv, Settled, OutcomesTyped
<1>2. ASSUME NEW delta, InsertDelta(delta) PROVE AInv'
  <2>1. /\ induced /\ induced' = induced /\ mode' = "inserting"
        /\ round' = round /\ admission' = admission /\ cache' = cache /\ applied' = applied
    BY <1>2 DEF InsertDelta, vars
  <2> QED BY <2>1 DEF AInv, Settled, OutcomesTyped
<1>3. ASSUME NEW d, InsertOne(d) PROVE AInv'
  <2>1. /\ mode = "inserting" /\ mode' = "inserting" /\ induced /\ induced' = induced
        /\ round' = round /\ admission' = admission /\ cache' = cache /\ applied' = applied
    BY <1>3 DEF InsertOne, Insert
  <2> QED BY <2>1 DEF AInv, Settled, OutcomesTyped
<1>4. ASSUME NEW d, InsertRefused(d) PROVE AInv'
  <2>1. /\ mode = "inserting" /\ mode' = "idle" /\ behind' = TRUE /\ induced' = induced
        /\ round' = round /\ admission' = admission /\ cache' = cache /\ applied' = applied
    BY <1>4 DEF InsertRefused, vars
  <2> QED BY <2>1 DEF AInv, Settled, OutcomesTyped
<1>5. ASSUME Inserted PROVE AInv'
  <2>1. /\ mode = "inserting" /\ mode' = "admitting" /\ round' = <<>> /\ UNCHANGED vars
        /\ induced' = induced /\ admission' = admission /\ cache' = cache /\ applied' = applied
    BY <1>5 DEF Inserted, vars
  <2>2. PassGood(<<>>)' /\ OutcomesTyped(<<>>)
    BY EmptyPass DEF PassGood, Decided
  <2> QED BY <2>1, <2>2 DEF AInv, Settled, OutcomesTyped
<1>6. ASSUME AdmitNext PROVE AInv'
  <2>1. /\ mode = "admitting" /\ mode' = mode /\ UNCHANGED vars
        /\ induced' = induced /\ admission' = admission /\ applied' = applied
    BY <1>6 DEF AdmitNext, vars
  <2>2. /\ PassGood(round') /\ OutcomesTyped(round') /\ \A k \in DOMAIN cache' : cache'[k] \in Outcomes
    BY <1>6, AdmitKeepsPass
  <2>3. (PassGood(round))'
    BY <2>1, <2>2 DEF vars, PassGood, TargetGood, AddsGood, Over, NewOf, Ancestors, AdmittedIn,
                      Decided, Protected, SupportOf
  <2> QED BY <2>1, <2>2, <2>3 DEF AInv, Settled, OutcomesTyped
<1>7. ASSUME Admitted PROVE AInv'
  <2>1. /\ mode = "admitting" /\ Undecided = {} /\ mode' = "idle" /\ UNCHANGED vars
        /\ induced' = induced /\ admission' = round /\ round' = round /\ cache' = cache
        /\ applied' = Carried(applied, Proposals(admission, round))
    BY <1>7 DEF Admitted, vars
  <2>2. induced /\ PassGood(round) /\ OutcomesTyped(round) /\ OutcomesTyped(admission)
        /\ applied = [ih \in DOMAIN admission |-> admission[ih].outcome]
    BY <2>1 DEF AInv
  <2>3. applied' = [ih \in DOMAIN admission' |-> admission'[ih].outcome]
    BY <2>1, <2>2, ProposalsCarry
  <2>4. {c.intent : c \in lattice} \subseteq DOMAIN round
    BY <2>1 DEF Undecided
  <2>5. (PassGood(admission))'
    BY <2>1, <2>2 DEF vars, PassGood, TargetGood, AddsGood, Over, NewOf, Ancestors, AdmittedIn,
                      Decided, Protected, SupportOf
  <2>6. {c.intent : c \in lattice}' \subseteq DOMAIN admission'
    BY <2>1, <2>4 DEF vars
  <2> QED BY <2>1, <2>2, <2>3, <2>5, <2>6 DEF AInv, Settled, OutcomesTyped
<1>8. CASE UNCHANGED allVars
  <2>1. /\ UNCHANGED vars /\ mode' = mode /\ behind' = behind /\ induced' = induced /\ lattice' = lattice
        /\ round' = round /\ admission' = admission /\ cache' = cache /\ applied' = applied
    BY <1>8 DEF allVars, strata, vars
  <2>2. /\ (PassGood(round))' <=> PassGood(round)
        /\ (PassGood(admission))' <=> PassGood(admission)
    BY <2>1 DEF vars, PassGood, TargetGood, AddsGood, Over, NewOf, Ancestors, AdmittedIn,
                Decided, Protected, SupportOf
  <2> QED BY <2>1, <2>2 DEF AInv, Settled, OutcomesTyped
<1> QED BY <1>1, <1>2, <1>3, <1>4, <1>5, <1>6, <1>7, <1>8 DEF AdmissionNext

-----------------------------------------------------------------------------
(* The theorems.                                                           *)

\* The lattice below the admission is well formed and an iceberg at every step.
THEOREM LatticeHolds == AdmissionSpec => []LatticeInv
<1>1. TypeOK /\ LatticeIsIceberg => LatticeInv
  BY IcebergHalves DEF LatticeInv, LatticeIsIceberg, Iceberg
<1> QED BY <1>1, FacadeRefinesLattice, TypeCorrect, LatticeStaysIceberg, PTL

\* Passes are sound so far at every step, and the last complete one is what the
\* proposals add up to (AdmissionEngine.process, Strata.insert_delta).
THEOREM AdmissionInvariance == AdmissionSpec => []AInv
<1>1. AdmissionInit => AInv
  BY InitAInv
<1>2. LatticeInv /\ AInv /\ [AdmissionNext]_allVars => AInv'
  BY NextAInv
<1> QED BY <1>1, <1>2, LatticeHolds, PTL DEF AdmissionSpec

\* After any deltas, refused ones among them, every concept has its outcome, and
\* what is merged is merged into its nearest admitted ancestor
\* (AdmissionEngine._nearest_admitted).
THEOREM TargetsStayNearest == AdmissionSpec => []TargetsNearest
<1>1. AInv => TargetsNearest
  BY DEF AInv, TargetsNearest, PassGood, TargetGood, Over, Decided
<1> QED BY <1>1, AdmissionInvariance, PTL

\* No concept is admitted that its admitted ancestors make redundant
\* (t0_weak_concept_rule, concept_features).
THEOREM AdmittedAlwaysAdds == AdmissionSpec => []AdmittedAddsSomething
<1>1. AInv => AdmittedAddsSomething
  BY DEF AInv, AdmittedAddsSomething, PassGood, AddsGood, NewOf, Over, Decided, AdmittedIn
<1> QED BY <1>1, AdmissionInvariance, PTL

\* No flip of an outcome is ever silent: the proposals of all deltas so far add
\* up to the current outcomes (diff_admissions).
THEOREM ProposalsAlwaysReplay == AdmissionSpec => []ProposalsReplay
<1>1. AInv => ProposalsReplay
  BY DEF AInv, ProposalsReplay
<1> QED BY <1>1, AdmissionInvariance, PTL

-----------------------------------------------------------------------------
(* The enumeration of the closed extents.                                  *)

\* Some sets within a finite one: one of them has none of them inside it, and
\* one of them is inside none of them.
LEMMA SmallestSet ==
  ASSUME NEW D, IsFiniteSet(D), NEW Fam \in SUBSET SUBSET D, Fam # {}
  PROVE  \E E \in Fam : \A F \in Fam : F \subseteq E => F = E
<1> DEFINE N == {Cardinality(E) : E \in Fam}
<1>1. \A E \in Fam : IsFiniteSet(E) /\ Cardinality(E) \in Nat
  BY FS_Subset, FS_CardinalityType
<1>2. N \in SUBSET Nat /\ N # {}
  BY <1>1
<1>3. PICK m \in N : \A n \in N : m <= n
  BY <1>2, LeastNumber
<1>4. PICK E \in Fam : Cardinality(E) = m
  OBVIOUS
<1>5. ASSUME NEW F \in Fam, F \subseteq E PROVE F = E
  <2>1. Cardinality(F) <= Cardinality(E) /\ (Cardinality(F) = Cardinality(E) => F = E)
    BY <1>1, <1>5, FS_Subset
  <2>2. Cardinality(E) <= Cardinality(F)
    BY <1>3, <1>4
  <2>3. Cardinality(F) \in Nat /\ Cardinality(E) \in Nat
    BY <1>1
  <2>4. Cardinality(F) = Cardinality(E)
    BY <2>1, <2>2, <2>3
  <2> QED BY <2>1, <2>4
<1> QED BY <1>5

LEMMA LargestSet ==
  ASSUME NEW D, IsFiniteSet(D), NEW Fam \in SUBSET SUBSET D, Fam # {}
  PROVE  \E E \in Fam : \A F \in Fam : E \subseteq F => F = E
<1> DEFINE Rest == {D \ E : E \in Fam}
<1>1. Rest \in SUBSET SUBSET D /\ Rest # {}
  <2>1. PICK E \in Fam : TRUE
    OBVIOUS
  <2>2. D \ E \in Rest
    BY <2>1
  <2>3. \A R \in Rest : R \subseteq D
    OBVIOUS
  <2> QED BY <2>2, <2>3
<1>2. PICK R \in Rest : \A Q \in Rest : Q \subseteq R => Q = R
  <2> HIDE DEF Rest
  <2> QED BY <1>1, SmallestSet
<1>3. PICK E \in Fam : R = D \ E
  OBVIOUS
<1>4. ASSUME NEW F \in Fam, E \subseteq F PROVE F = E
  <2>1. D \ F \in Rest /\ D \ F \subseteq D \ E
    BY <1>4
  <2>2. D \ F = D \ E
    BY <1>2, <1>3, <2>1
  <2>3. F \subseteq D /\ E \subseteq D
    OBVIOUS
  <2> QED BY <2>2, <2>3
<1> QED BY <1>4

\* Reduction: every attribute extent is an intersection of those that are left.
LEMMA ReducedSeparate ==
  ASSUME NEW ctx \in Contexts, NEW x \in AllAttributes(ctx), NEW g \in DOMAIN ctx \ AttrExtent(ctx, x)
  PROVE  \E a \in ReducedAttributes(ctx) :
           AttrExtent(ctx, x) \subseteq AttrExtent(ctx, a) /\ g \notin AttrExtent(ctx, a)
<1> DEFINE D == DOMAIN ctx
           Wide == {y \in AllAttributes(ctx) : AttrExtent(ctx, x) \subseteq AttrExtent(ctx, y)
                                               /\ g \notin AttrExtent(ctx, y)}
           Fam == {AttrExtent(ctx, y) : y \in Wide}
<1>1. IsFiniteSet(D) /\ AllAttributes(ctx) \subseteq Nat
  BY ContextShape, AttributesAssumption DEF AllAttributes
<1>2. x \in Wide
  OBVIOUS
<1>3. Fam \in SUBSET SUBSET D /\ Fam # {}
  <2>1. \A y \in Wide : AttrExtent(ctx, y) \subseteq D
    BY DEF AttrExtent
  <2>2. AttrExtent(ctx, x) \in Fam
    BY <1>2
  <2> HIDE DEF Wide
  <2> QED BY <2>1, <2>2
<1>4. PICK E \in Fam : \A F \in Fam : E \subseteq F => F = E
  <2> HIDE DEF Fam
  <2> QED BY <1>1, <1>3, LargestSet
<1>5. PICK y \in Wide : E = AttrExtent(ctx, y)
  OBVIOUS
<1> DEFINE Same == {b \in AllAttributes(ctx) : AttrExtent(ctx, b) = AttrExtent(ctx, y)}
<1>6. Same \in SUBSET Nat /\ Same # {}
  BY <1>1
<1>7. PICK c \in Same : \A b \in Same : c <= b
  BY <1>6, LeastNumber
<1>8. c \in AllAttributes(ctx) /\ AttrExtent(ctx, c) = E
  BY <1>5
<1>9. c \in ClarifiedAttributes(ctx)
  BY <1>5, <1>7, <1>8 DEF ClarifiedAttributes
<1>10. AttrExtent(ctx, x) \subseteq E /\ g \notin E
  BY <1>5
<1>11. ~Reducible(ctx, E)
  <2> SUFFICES ASSUME {h \in D : \A F \in Larger(ctx, E) : h \in F} = E PROVE FALSE
    BY DEF Reducible
  <2>1. PICK F \in Larger(ctx, E) : g \notin F
    BY <1>10
  <2>2. PICK b \in ClarifiedAttributes(ctx) : F = AttrExtent(ctx, b)
    BY DEF Larger, Extents
  <2>3. E \subseteq F /\ E # F /\ b \in AllAttributes(ctx)
    BY <2>2 DEF Larger, ClarifiedAttributes
  <2>4. b \in Wide
    BY <1>10, <2>1, <2>2, <2>3
  <2> QED BY <1>4, <2>2, <2>3, <2>4
<1>12. c \in ReducedAttributes(ctx)
  BY <1>8, <1>9, <1>11 DEF ReducedAttributes
<1> QED BY <1>8, <1>10, <1>12

\* A closed extent is what the reduced attributes above it have in common.
LEMMA ReducedSuffice ==
  ASSUME NEW ctx \in Contexts, NEW A \in SUBSET DOMAIN ctx, A # {},
         PrimeAttrs(ctx, PrimeObjects(ctx, A)) = A, NEW g \in DOMAIN ctx \ A
  PROVE  \E a \in RepClosure(ctx, A) : g \notin AttrExtent(ctx, a)
<1>1. PICK x \in PrimeObjects(ctx, A) : x \notin ctx[g]
  BY DEF PrimeAttrs
<1>2. /\ x \in AllAttributes(ctx) /\ A \subseteq AttrExtent(ctx, x)
      /\ g \in DOMAIN ctx \ AttrExtent(ctx, x)
  BY <1>1 DEF PrimeObjects, AttrExtent
<1>3. PICK a \in ReducedAttributes(ctx) :
        AttrExtent(ctx, x) \subseteq AttrExtent(ctx, a) /\ g \notin AttrExtent(ctx, a)
  BY <1>2, ReducedSeparate
<1> QED BY <1>2, <1>3 DEF RepClosure

\* Cutting a closed extent down to the objects of an attribute closes it again.
LEMMA CutClosed ==
  ASSUME NEW ctx \in Contexts, NEW A \in SUBSET DOMAIN ctx,
         PrimeAttrs(ctx, PrimeObjects(ctx, A)) = A, NEW a \in AllAttributes(ctx),
         NEW E, E = A \cap AttrExtent(ctx, a), E # {}
  PROVE  PrimeAttrs(ctx, PrimeObjects(ctx, E)) = E
<1>1. E \in SUBSET DOMAIN ctx /\ A # {}
  OBVIOUS
<1>2. E \subseteq PrimeAttrs(ctx, PrimeObjects(ctx, E))
  BY <1>1, Closure
<1>3. PrimeObjects(ctx, A) \subseteq PrimeObjects(ctx, E)
  BY DEF PrimeObjects
<1>4. a \in PrimeObjects(ctx, E)
  BY DEF PrimeObjects, AttrExtent
<1>5. ASSUME NEW g \in PrimeAttrs(ctx, PrimeObjects(ctx, E)) PROVE g \in E
  <2>1. g \in AttrExtent(ctx, a)
    BY <1>4 DEF PrimeAttrs, AttrExtent
  <2>2. g \in PrimeAttrs(ctx, PrimeObjects(ctx, A))
    BY <1>3 DEF PrimeAttrs
  <2> QED BY <2>1, <2>2
<1> QED BY <1>2, <1>5

Froms == {0} \cup {a + 1 : a \in Attributes}

\* What is found below an extent, if the relation R says what is found below
\* the next ones.
Found(ctx, s, R, E, from) ==
  {E} \cup UNION {{F \in SUBSET DOMAIN ctx : <<E \cap AttrExtent(ctx, a), a + 1, F>> \in R} :
                    a \in Branches(ctx, s, E, from)}

Supported(ctx, s, R) ==
  \A E \in SUBSET DOMAIN ctx, from \in Froms, F \in SUBSET DOMAIN ctx :
    <<E, from, F>> \in R => F \in Found(ctx, s, R, E, from)

LEMMA FoundGrows ==
  ASSUME NEW ctx, NEW s, NEW Q, NEW R, Q \subseteq R, NEW E, NEW from
  PROVE  Found(ctx, s, Q, E, from) \subseteq Found(ctx, s, R, E, from)
BY DEF Found

\* process is what its body says.
LEMMA ProcessIs ==
  ASSUME NEW ctx \in Contexts, NEW s
  PROVE  \A E \in SUBSET DOMAIN ctx, from \in Froms :
           Process(ctx, s)[E][from] =
             {E} \cup UNION {Process(ctx, s)[E \cap AttrExtent(ctx, a)][a + 1] :
                               a \in Branches(ctx, s, E, from)}
<1> DEFINE S == SUBSET DOMAIN ctx
           T == S \X Froms \X S
           G == UNION {R \in SUBSET T : Supported(ctx, s, R)}
           g == [E \in S |-> [from \in Froms |-> {F \in S : <<E, from, F>> \in G}]]
           Body(p) == [E \in S |-> [from \in Froms |->
                         {E} \cup UNION {p[E \cap AttrExtent(ctx, a)][a + 1] : a \in Branches(ctx, s, E, from)}]]
<1>1. \A E \in S : \A from : \A a \in Branches(ctx, s, E, from) :
        E \cap AttrExtent(ctx, a) \in S /\ a + 1 \in Froms
  <2>1. ReducedAttributes(ctx) \subseteq Attributes
    BY ContextShape DEF ReducedAttributes, ClarifiedAttributes, AllAttributes
  <2> QED BY <2>1 DEF Branches, Froms
<1>2. ASSUME NEW E \in S, NEW from \in Froms, NEW F \in S
      PROVE  <<E, from, F>> \in G <=> F \in Found(ctx, s, G, E, from)
  <2>1. ASSUME <<E, from, F>> \in G PROVE F \in Found(ctx, s, G, E, from)
    <3>1. PICK R \in SUBSET T : Supported(ctx, s, R) /\ <<E, from, F>> \in R
      BY <2>1
    <3>2. F \in Found(ctx, s, R, E, from)
      BY <3>1 DEF Supported
    <3>3. R \subseteq G
      BY <3>1
    <3> QED BY <3>2, <3>3, FoundGrows
  <2>2. ASSUME F \in Found(ctx, s, G, E, from) PROVE <<E, from, F>> \in G
    <3> DEFINE R == G \cup {<<E, from, F>>}
    <3>1. R \in SUBSET T /\ G \subseteq R
      OBVIOUS
    <3>2. ASSUME NEW E2 \in S, NEW from2 \in Froms, NEW F2 \in S, <<E2, from2, F2>> \in R
          PROVE  F2 \in Found(ctx, s, G, E2, from2)
      <4>1. CASE <<E2, from2, F2>> \in G
        <5>1. PICK Q \in SUBSET T : Supported(ctx, s, Q) /\ <<E2, from2, F2>> \in Q
          BY <4>1
        <5>2. F2 \in Found(ctx, s, Q, E2, from2)
          BY <5>1 DEF Supported
        <5>3. Q \subseteq G
          BY <5>1
        <5> QED BY <5>2, <5>3, FoundGrows
      <4>2. CASE <<E2, from2, F2>> = <<E, from, F>>
        BY <2>2, <4>2
      <4> QED BY <3>2, <4>1, <4>2
    <3> HIDE DEF R, G
    <3>3. Supported(ctx, s, R)
      BY <3>1, <3>2, FoundGrows DEF Supported
    <3>4. <<E, from, F>> \in R
      BY DEF R
    <3> QED BY <3>1, <3>3, <3>4 DEF G
  <2> QED BY <2>1, <2>2
<1> HIDE DEF G
<1>3. \A E \in S : E \in S /\ g[E] \in [Froms -> SUBSET S]
  OBVIOUS
<1>4. ASSUME NEW E \in S, NEW from \in Froms
      PROVE  g[E][from] = {E} \cup UNION {g[E \cap AttrExtent(ctx, a)][a + 1] : a \in Branches(ctx, s, E, from)}
  <2>1. g[E][from] = {F \in S : <<E, from, F>> \in G}
    OBVIOUS
  <2>2. Found(ctx, s, G, E, from) \subseteq S
    BY DEF Found
  <2>3. g[E][from] = Found(ctx, s, G, E, from)
    BY <1>2, <2>1, <2>2
  <2>4. \A a \in Branches(ctx, s, E, from) :
          g[E \cap AttrExtent(ctx, a)][a + 1] = {F \in S : <<E \cap AttrExtent(ctx, a), a + 1, F>> \in G}
    BY <1>1
  <2> HIDE DEF g
  <2>5. g[E][from] = {E} \cup UNION {{F \in S : <<E \cap AttrExtent(ctx, a), a + 1, F>> \in G} :
                                      a \in Branches(ctx, s, E, from)}
    BY <2>3 DEF Found
  <2>6. \A Fs : Fs \in {g[E \cap AttrExtent(ctx, a)][a + 1] : a \in Branches(ctx, s, E, from)}
          <=> Fs \in {{F \in S : <<E \cap AttrExtent(ctx, a), a + 1, F>> \in G} :
                       a \in Branches(ctx, s, E, from)}
    BY <2>4
  <2> QED BY <2>5, <2>6
<1>5. g = Body(g)
  <2>1. g = [E \in S |-> [from \in Froms |-> g[E][from]]]
    OBVIOUS
  <2> HIDE DEF g
  <2> QED BY <1>4, <2>1
<1> DEFINE Fits(p) == p = Body(p)
<1>6. Process(ctx, s) = CHOOSE p : Fits(p)
  BY DEF Process, Froms
<1>7. Process(ctx, s) = Body(Process(ctx, s))
  <2>1. Fits(g)
    BY <1>5
  <2> HIDE DEF Fits, g
  <2>2. Fits(Process(ctx, s))
    BY <1>6, <2>1, Zenon
  <2> QED BY <2>2 DEF Fits
<1> DEFINE P == Process(ctx, s)
<1> HIDE DEF P
<1>8. P = Body(P)
  BY <1>7 DEF P
<1> SUFFICES ASSUME NEW E \in S, NEW from \in Froms
             PROVE  P[E][from] = {E} \cup UNION {P[E \cap AttrExtent(ctx, a)][a + 1] :
                                                   a \in Branches(ctx, s, E, from)}
  BY DEF P
<1>9. P[E] = [f \in Froms |-> {E} \cup UNION {P[E \cap AttrExtent(ctx, a)][a + 1] :
                                                a \in Branches(ctx, s, E, f)}]
  BY <1>8
<1> QED BY <1>9

\* What a branch is.
LEMMA BranchShape ==
  ASSUME NEW ctx \in Contexts, NEW s, NEW E \in SUBSET DOMAIN ctx, NEW from,
         NEW a \in Branches(ctx, s, E, from)
  PROVE  /\ a \in AllAttributes(ctx) /\ a \in Nat /\ a + 1 \in Froms
         /\ E \cap AttrExtent(ctx, a) # E /\ Cardinality(E \cap AttrExtent(ctx, a)) >= s
<1>1. a \in ReducedAttributes(ctx) /\ a \notin RepClosure(ctx, E) /\ Cardinality(E \cap AttrExtent(ctx, a)) >= s
  BY DEF Branches
<1>2. a \in AllAttributes(ctx) /\ a \in Attributes
  BY <1>1, ContextShape DEF ReducedAttributes, ClarifiedAttributes, AllAttributes
<1>3. ~(E \subseteq AttrExtent(ctx, a))
  BY <1>1 DEF RepClosure
<1> QED BY <1>1, <1>2, <1>3, AttributesAssumption DEF Froms

\* An extent above the threshold has an object.
LEMMA AboveThreshold ==
  ASSUME NEW s \in Sigmas, NEW A, Cardinality(A) >= s PROVE A # {}
BY SigmasAssumption, FS_EmptySet

\* Below a closed extent process finds nothing but closed extents.
LEMMA EnumerationSound ==
  ASSUME NEW ctx \in Contexts, NEW s \in Sigmas
  PROVE  \A E \in ClosedExtents(ctx, s), from \in Froms :
           Process(ctx, s)[E][from] \subseteq ClosedExtents(ctx, s)
<1> DEFINE P == Process(ctx, s)
           C == ClosedExtents(ctx, s)
           Fam == {E \in C : \E from \in Froms : ~(P[E][from] \subseteq C)}
<1> HIDE DEF P
<1> SUFFICES ASSUME Fam # {} PROVE FALSE
  BY DEF P
<1>1. Fam \in SUBSET SUBSET DOMAIN ctx /\ IsFiniteSet(DOMAIN ctx)
  BY ContextShape DEF ClosedExtents
<1>2. PICK E \in Fam : \A F \in Fam : F \subseteq E => F = E
  <2> HIDE DEF Fam
  <2> QED BY <1>1, SmallestSet
<1>3. PICK from \in Froms : ~(P[E][from] \subseteq C)
  OBVIOUS
<1>4. /\ E \in SUBSET DOMAIN ctx /\ PrimeAttrs(ctx, PrimeObjects(ctx, E)) = E
      /\ P[E][from] = {E} \cup UNION {P[E \cap AttrExtent(ctx, a)][a + 1] : a \in Branches(ctx, s, E, from)}
  BY ProcessIs DEF ClosedExtents, P
<1>5. PICK a \in Branches(ctx, s, E, from) : ~(P[E \cap AttrExtent(ctx, a)][a + 1] \subseteq C)
  BY <1>3, <1>4
<1> DEFINE E2 == E \cap AttrExtent(ctx, a)
<1>6. /\ a \in AllAttributes(ctx) /\ a + 1 \in Froms
      /\ E2 # E /\ Cardinality(E2) >= s
  BY <1>4, BranchShape
<1>7. E2 # {} /\ E2 \in SUBSET DOMAIN ctx /\ E2 \subseteq E
  BY <1>4, <1>6, AboveThreshold
<1>8. PrimeAttrs(ctx, PrimeObjects(ctx, E2)) = E2
  BY <1>4, <1>6, <1>7, CutClosed
<1>9. E2 \in C
  BY <1>6, <1>7, <1>8 DEF ClosedExtents
<1>10. E2 \in Fam
  BY <1>5, <1>6, <1>9
<1> QED BY <1>2, <1>6, <1>7, <1>10

\* process finds a closed extent below every extent around it, if it has not
\* yet passed an attribute by which they differ.
LEMMA EnumerationFinds ==
  ASSUME NEW ctx \in Contexts, NEW s \in Sigmas, NEW A \in ClosedExtents(ctx, s)
  PROVE  \A E \in SUBSET DOMAIN ctx, from \in Froms :
           A \subseteq E /\ (\A b \in RepClosure(ctx, A) \ RepClosure(ctx, E) : b >= from)
             => A \in Process(ctx, s)[E][from]
<1> DEFINE P == Process(ctx, s)
           Ahead(E, from) == \A b \in RepClosure(ctx, A) \ RepClosure(ctx, E) : b >= from
           Fam == {E \in SUBSET DOMAIN ctx :
                     A \subseteq E /\ \E from \in Froms : Ahead(E, from) /\ A \notin P[E][from]}
<1> HIDE DEF P
<1> SUFFICES ASSUME Fam # {} PROVE FALSE
  BY DEF P
<1>1. Fam \in SUBSET SUBSET DOMAIN ctx /\ IsFiniteSet(DOMAIN ctx)
  BY ContextShape
<1>2. PICK E \in Fam : \A F \in Fam : F \subseteq E => F = E
  <2> HIDE DEF Fam
  <2> QED BY <1>1, SmallestSet
<1>3. E \in SUBSET DOMAIN ctx /\ A \subseteq E
  OBVIOUS
<1>4. PICK from \in Froms : Ahead(E, from) /\ A \notin P[E][from]
  OBVIOUS
<1>5. P[E][from] = {E} \cup UNION {P[E \cap AttrExtent(ctx, a)][a + 1] : a \in Branches(ctx, s, E, from)}
  BY <1>3, ProcessIs DEF P
<1>6. /\ A \in SUBSET DOMAIN ctx /\ A # {} /\ Cardinality(A) >= s
      /\ PrimeAttrs(ctx, PrimeObjects(ctx, A)) = A
  BY AboveThreshold DEF ClosedExtents
<1>7. PICK g \in E : g \notin A
  BY <1>3, <1>4, <1>5
<1> DEFINE Lacking == RepClosure(ctx, A) \ RepClosure(ctx, E)
<1>8. Lacking \in SUBSET Nat /\ Lacking # {}
  <2>1. PICK a \in RepClosure(ctx, A) : g \notin AttrExtent(ctx, a)
    BY <1>3, <1>6, <1>7, ReducedSuffice
  <2>2. a \in Lacking
    BY <1>7, <2>1 DEF RepClosure
  <2>3. ReducedAttributes(ctx) \subseteq Nat
    BY ContextShape, AttributesAssumption DEF ReducedAttributes, ClarifiedAttributes, AllAttributes
  <2> QED BY <2>2, <2>3 DEF RepClosure
<1>9. PICK a \in Lacking : \A b \in Lacking : a <= b
  <2> HIDE DEF Lacking
  <2> QED BY <1>8, LeastNumber
<1> DEFINE E2 == E \cap AttrExtent(ctx, a)
<1>10. /\ a \in ReducedAttributes(ctx) /\ A \subseteq AttrExtent(ctx, a) /\ ~(E \subseteq AttrExtent(ctx, a))
       /\ a \in Nat
  BY <1>8, <1>9 DEF RepClosure
<1>11. A \subseteq E2 /\ E2 \in SUBSET DOMAIN ctx /\ E2 \subseteq E /\ E2 # E
  BY <1>3, <1>10
<1>12. Cardinality(E2) >= s
  <2>1. IsFiniteSet(E2)
    BY <1>1, <1>11, FS_Subset
  <2>2. IsFiniteSet(A) /\ Cardinality(A) <= Cardinality(E2)
    BY <1>11, <2>1, FS_Subset
  <2>3. Cardinality(A) \in Nat /\ Cardinality(E2) \in Nat /\ s \in Nat
    BY <2>1, <2>2, FS_CardinalityType, SigmasAssumption
  <2> HIDE DEF E2
  <2> QED BY <1>6, <2>2, <2>3
<1>13. RepClosure(ctx, E) \subseteq RepClosure(ctx, E2) /\ RepClosure(ctx, E2) \subseteq RepClosure(ctx, A)
  BY <1>11 DEF RepClosure
<1>14. a \in RepClosure(ctx, E2) /\ a \notin RepClosure(ctx, E)
  BY <1>10 DEF RepClosure
<1>15. \A b \in RepClosure(ctx, E2) \ RepClosure(ctx, E) : b >= a
  <2> SUFFICES ASSUME NEW b \in Lacking PROVE b >= a
    BY <1>13
  <2>1. a <= b /\ b \in Nat
    BY <1>8, <1>9
  <2> QED BY <1>10, <2>1
<1>16. a \in Branches(ctx, s, E, from)
  <2>1. a >= from
    BY <1>4, <1>9
  <2> QED BY <1>10, <1>12, <1>14, <1>15, <2>1 DEF Branches
<1>17. a + 1 \in Froms
  BY <1>3, <1>16, BranchShape
<1>18. Ahead(E2, a + 1)
  <2> SUFFICES ASSUME NEW b \in RepClosure(ctx, A) \ RepClosure(ctx, E2) PROVE b >= a + 1
    OBVIOUS
  <2>1. b \in Lacking /\ b # a
    BY <1>13, <1>14
  <2>2. a <= b /\ b \in Nat
    BY <1>8, <1>9, <2>1
  <2> QED BY <1>10, <2>1, <2>2
<1>19. A \notin P[E2][a + 1]
  BY <1>4, <1>5, <1>16
<1>20. E2 \in Fam
  <2> HIDE DEF E2, Ahead
  <2> QED BY <1>11, <1>17, <1>18, <1>19
<1> QED BY <1>2, <1>11, <1>20

\* The enumeration finds every closed extent above the threshold and no other:
\* attribute reduction, pruning and the canonicity test lose none
\* (_enumerate_closed_extents).
THEOREM EnumerationAlwaysComplete == Spec => []EnumerationComplete
<1>1. ASSUME NEW ctx \in Contexts, NEW s \in Sigmas
      PROVE  Enumerate(ctx, s) = ClosedExtents(ctx, s)
  <2> DEFINE D == DOMAIN ctx
             C == ClosedExtents(ctx, s)
  <2>1. IsFiniteSet(D) /\ 0 \in Froms
    BY ContextShape DEF Froms
  <2>2. CASE ~(Cardinality(D) >= s)
    <3> SUFFICES ASSUME NEW A \in C PROVE FALSE
      BY <2>2 DEF Enumerate
    <3>1. A \subseteq D /\ Cardinality(A) >= s
      BY DEF ClosedExtents
    <3>2. IsFiniteSet(A) /\ Cardinality(A) <= Cardinality(D)
      BY <2>1, <3>1, FS_Subset
    <3>3. Cardinality(A) \in Nat /\ Cardinality(D) \in Nat /\ s \in Nat
      BY <2>1, <3>2, FS_CardinalityType, SigmasAssumption
    <3> QED BY <2>2, <3>1, <3>2, <3>3
  <2>3. CASE Cardinality(D) >= s
    <3>1. Enumerate(ctx, s) = Process(ctx, s)[D][0]
      BY <2>3 DEF Enumerate
    <3>2. D # {}
      BY <2>3, AboveThreshold
    <3>3. PrimeAttrs(ctx, PrimeObjects(ctx, D)) = D
      <4>1. D \subseteq PrimeAttrs(ctx, PrimeObjects(ctx, D))
        BY <3>2, Closure
      <4> QED BY <4>1 DEF PrimeAttrs
    <3>4. D \in C
      BY <2>3, <3>3 DEF ClosedExtents
    <3>5. Enumerate(ctx, s) \subseteq C
      BY <2>1, <3>1, <3>4, EnumerationSound
    <3>6. ASSUME NEW A \in C PROVE A \in Enumerate(ctx, s)
      <4>1. A \subseteq D
        BY DEF ClosedExtents
      <4>2. RepClosure(ctx, A) \subseteq Nat
        BY ContextShape, AttributesAssumption DEF RepClosure, ReducedAttributes, ClarifiedAttributes, AllAttributes
      <4>3. \A b \in RepClosure(ctx, A) \ RepClosure(ctx, D) : b >= 0
        BY <4>2
      <4> QED BY <2>1, <3>1, <4>1, <4>3, EnumerationFinds
    <3> QED BY <3>5, <3>6
  <2> QED BY <2>2, <2>3
<1>2. TypeOK => EnumerationComplete
  BY <1>1 DEF TypeOK, EnumerationComplete
<1> QED BY <1>2, TypeCorrect, PTL

-----------------------------------------------------------------------------
(* Lists of properties. *)

NamesOnce(ps) == \A i, j \in DOMAIN ps : ps[i].name = ps[j].name => i = j
OutOf(qs, ps) == \A i \in DOMAIN qs : \E j \in DOMAIN ps : qs[i] = ps[j]

Reranged(p, range, unit) == [p EXCEPT !.range = range, !.unit = unit]

LEMMA RerangedIs ==
    ASSUME NEW p \in PropertyDef, NEW range \in STRING, NEW unit \in Int
    PROVE  /\ Reranged(p, range, unit) \in PropertyDef
           /\ Reranged(p, range, unit).name = p.name
           /\ Reranged(p, range, unit).range = range
BY DEF PropertyDef, Reranged

LEMMA ValueProperty ==
    ASSUME NEW unit \in Int
    PROVE  ValueProp(unit) \in PropertyDef /\ ValueProp(unit).range = NoClass
<1>1. NoClass \in STRING /\ "value" \in STRING
  BY TextsAssumption
<1> HIDE DEF NoClass
<1> QED BY <1>1 DEF PropertyDef, ValueProp, ValueKey, Key

LEMMA MappedList ==
    ASSUME NEW S, NEW T, NEW s \in Seq(S), NEW t, DOMAIN t = DOMAIN s, t = [i \in DOMAIN t |-> t[i]],
           \A i \in DOMAIN s : t[i] \in T
    PROVE  t \in Seq(T)
<1>1. Len(s) \in Nat /\ DOMAIN t = 1 .. Len(s)
  OBVIOUS
<1>2. t \in [1 .. Len(s) -> T]
  BY <1>1
<1> QED BY <1>1, <1>2

(* The first property of a name is one of the list.                          *)
LEMMA PropFound ==
    ASSUME NEW ps \in Seq(PropertyDef), NEW name, name \in Names(ps)
    PROVE  Position(ps, name) \in DOMAIN ps /\ ps[Position(ps, name)].name = name
<1> DEFINE I == {i \in DOMAIN ps : ps[i].name = name}
<1>1. I \in SUBSET Nat /\ I # {}
  BY DEF Names
<1>2. PICK m \in I : \A i \in I : m <= i
  BY <1>1, FirstPosition
<1> QED BY <1>2 DEF Position

LEMMA PickedProps ==
    ASSUME NEW ps \in Seq(PropertyDef), NEW I \in SUBSET DOMAIN ps
    PROVE  /\ At(ps, I) \in Seq(PropertyDef)
           /\ \A n \in DOMAIN At(ps, I) : \E i \in I : At(ps, I)[n] = ps[i]
           /\ NamesOnce(ps) => NamesOnce(At(ps, I))
<1> DEFINE q == At(ps, I)
<1>1. /\ q \in Seq(PropertyDef) /\ DOMAIN q = 1 .. Cardinality(I)
      /\ IsFiniteSet(I) /\ I \in SUBSET Nat
      /\ \A n \in DOMAIN q : Nth(I, n) \in I /\ q[n] = ps[Nth(I, n)]
  BY AtPositions
<1>2. \A m, n \in DOMAIN q : Nth(I, m) = Nth(I, n) => m = n
  BY <1>1, NthPosition
<1> QED BY <1>1, <1>2 DEF NamesOnce

LEMMA WithoutProps ==
    ASSUME NEW ps \in Seq(PropertyDef), NEW name
    PROVE  /\ Without(ps, name) \in Seq(PropertyDef)
           /\ OutOf(Without(ps, name), ps)
           /\ NamesOnce(ps) => NamesOnce(Without(ps, name))
           /\ name \notin Names(Without(ps, name))
<1> DEFINE I == {i \in DOMAIN ps : ps[i].name # name}
           q == At(ps, I)
<1>1. Without(ps, name) = q
  BY DEF Without, Where
<1>0. I \in SUBSET DOMAIN ps
  OBVIOUS
<1> HIDE DEF I
<1>2. /\ q \in Seq(PropertyDef) /\ \A n \in DOMAIN q : \E i \in I : q[n] = ps[i]
      /\ NamesOnce(ps) => NamesOnce(q)
  BY <1>0, PickedProps
<1> QED BY <1>1, <1>2 DEF I, OutOf, Names

(* A second list after a first one with other names.                         *)
LEMMA JoinedProps ==
    ASSUME NEW ps \in Seq(PropertyDef), NEW qs \in Seq(PropertyDef)
    PROVE  /\ ps \o qs \in Seq(PropertyDef)
           /\ \A n \in DOMAIN (ps \o qs) : \/ \E i \in DOMAIN ps : (ps \o qs)[n] = ps[i]
                                          \/ \E i \in DOMAIN qs : (ps \o qs)[n] = qs[i]
           /\ NamesOnce(ps) /\ NamesOnce(qs) /\ Names(ps) \cap Names(qs) = {} => NamesOnce(ps \o qs)
<1> DEFINE t == ps \o qs
<1>1. t \in Seq(PropertyDef) /\ Len(t) = Len(ps) + Len(qs)
  OBVIOUS
<1>2. ASSUME NEW n \in DOMAIN t
      PROVE  (n \in DOMAIN ps /\ t[n] = ps[n]) \/ (n - Len(ps) \in DOMAIN qs /\ t[n] = qs[n - Len(ps)] /\ n > Len(ps))
  <2>1. CASE n <= Len(ps)
    BY <2>1, <1>1
  <2>2. CASE n > Len(ps)
    <3>1. n - Len(ps) \in DOMAIN qs
      BY <2>2, <1>1
    <3> QED BY <3>1, <2>2, <1>1
  <2> QED BY <2>1, <2>2, <1>1
<1> HIDE DEF t
<1>3. ASSUME NamesOnce(ps), NamesOnce(qs), Names(ps) \cap Names(qs) = {},
             NEW m \in DOMAIN t, NEW n \in DOMAIN t, t[m].name = t[n].name
      PROVE  m = n
  <2>1. CASE m \in DOMAIN ps /\ t[m] = ps[m] /\ n \in DOMAIN ps /\ t[n] = ps[n]
    BY <2>1, <1>3 DEF NamesOnce
  <2>2. CASE /\ m - Len(ps) \in DOMAIN qs /\ t[m] = qs[m - Len(ps)]
             /\ n - Len(ps) \in DOMAIN qs /\ t[n] = qs[n - Len(ps)]
    <3>1. m - Len(ps) = n - Len(ps)
      BY <2>2, <1>3 DEF NamesOnce
    <3> QED BY <3>1, <1>1
  <2>3. CASE m \in DOMAIN ps /\ t[m] = ps[m] /\ n - Len(ps) \in DOMAIN qs /\ t[n] = qs[n - Len(ps)]
    BY <2>3, <1>3 DEF Names
  <2>4. CASE n \in DOMAIN ps /\ t[n] = ps[n] /\ m - Len(ps) \in DOMAIN qs /\ t[m] = qs[m - Len(ps)]
    BY <2>4, <1>3 DEF Names
  <2> QED BY <2>1, <2>2, <2>3, <2>4, <1>2
<1>4. NamesOnce(ps) /\ NamesOnce(qs) /\ Names(ps) \cap Names(qs) = {} => NamesOnce(t)
  BY <1>3 DEF NamesOnce
<1> QED BY <1>1, <1>2, <1>4 DEF t

(* A list with one element more: t is s with x put in at k.                  *)
With(t, s, x, k) ==
    /\ k \in 1 .. Len(s) + 1 /\ DOMAIN t = 1 .. Len(s) + 1
    /\ \A n \in 1 .. Len(s) + 1 : t[n] = IF n < k THEN s[n] ELSE IF n = k THEN x ELSE s[n - 1]

Place(s, i) == IF i = 0 \/ i > Len(s) THEN Len(s) + 1 ELSE i

LEMMA InsertedWith ==
    ASSUME NEW S, NEW ps \in Seq(S), NEW p \in S, NEW i \in Nat
    PROVE  InsertedAt(ps, p, i) \in Seq(S) /\ With(InsertedAt(ps, p, i), ps, p, Place(ps, i))
<1> DEFINE at == Place(ps, i)
           a == SubSeq(ps, 1, at - 1)
           b == SubSeq(ps, at, Len(ps))
           q == InsertedAt(ps, p, i)
<1>1. at \in 1 .. Len(ps) + 1
  BY DEF Place
<1>2. q = (a \o <<p>>) \o b
  BY DEF InsertedAt, InsertAt, Place
<1> HIDE DEF at, q
<1>3. a \in Seq(S) /\ Len(a) = at - 1 /\ \A n \in 1 .. at - 1 : a[n] = ps[n]
  BY <1>1
<1>4. b \in Seq(S) /\ Len(b) = Len(ps) + 1 - at /\ \A n \in 1 .. Len(ps) + 1 - at : b[n] = ps[at + n - 1]
  BY <1>1
<1> HIDE DEF a, b
<1>5. /\ a \o <<p>> \in Seq(S) /\ Len(a \o <<p>>) = at
      /\ \A n \in 1 .. at : (a \o <<p>>)[n] = IF n < at THEN ps[n] ELSE p
  BY <1>1, <1>3
<1>6. q \in Seq(S) /\ Len(q) = Len(ps) + 1
  <2>1. \A s, t \in Seq(S) : s \o t \in Seq(S) /\ Len(s \o t) = Len(s) + Len(t)
    OBVIOUS
  <2>2. q \in Seq(S) /\ Len(q) = Len(a \o <<p>>) + Len(b)
    BY <2>1, <1>2, <1>4, <1>5
  <2>3. Len(q) = at + (Len(ps) + 1 - at)
    BY <2>2, <1>4, <1>5
  <2>4. at \in Nat /\ Len(ps) \in Nat
    BY <1>1
  <2>5. Len(q) = Len(ps) + 1
    BY <2>3, <2>4
  <2> QED BY <2>2, <2>5
<1>7. ASSUME NEW n \in 1 .. Len(ps) + 1
      PROVE  q[n] = IF n < at THEN ps[n] ELSE IF n = at THEN p ELSE ps[n - 1]
  <2>1. CASE n <= at
    BY <2>1, <1>1, <1>2, <1>4, <1>5
  <2>2. CASE n > at
    <3>1. n - at \in 1 .. Len(ps) + 1 - at
      BY <2>2, <1>1
    <3>2. q[n] = b[n - at]
      BY <3>1, <2>2, <1>1, <1>2, <1>4, <1>5
    <3>3. b[n - at] = ps[at + (n - at) - 1] /\ at + (n - at) - 1 = n - 1
      BY <3>1, <1>1, <1>4
    <3> QED BY <3>2, <3>3, <2>2, <1>1
  <2> QED BY <2>1, <2>2, <1>1
<1>8. DOMAIN q = 1 .. Len(ps) + 1
  BY <1>6
<1> QED BY <1>1, <1>6, <1>7, <1>8 DEF q, at, With

LEMMA InsertedProps ==
    ASSUME NEW ps \in Seq(PropertyDef), NEW p \in PropertyDef, NEW i \in Nat
    PROVE  /\ InsertedAt(ps, p, i) \in Seq(PropertyDef)
           /\ OutOf(InsertedAt(ps, p, i), Append(ps, p))
           /\ NamesOnce(ps) /\ p.name \notin Names(ps) => NamesOnce(InsertedAt(ps, p, i))
<1> DEFINE q == InsertedAt(ps, p, i)
<1>0. q \in Seq(PropertyDef) /\ With(q, ps, p, Place(ps, i))
  BY InsertedWith
<1> HIDE DEF q
<1>1. q \in Seq(PropertyDef) /\ Len(q) = Len(ps) + 1
  BY <1>0 DEF With
<1>2. PICK at \in 1 .. Len(ps) + 1 :
         \A n \in 1 .. Len(ps) + 1 : q[n] = IF n < at THEN ps[n] ELSE IF n = at THEN p ELSE ps[n - 1]
  BY <1>0 DEF With
<1>3. ASSUME NEW n \in DOMAIN q PROVE \E j \in DOMAIN Append(ps, p) : q[n] = Append(ps, p)[j]
  <2>1. CASE n < at
    <3>1. n \in DOMAIN Append(ps, p) /\ Append(ps, p)[n] = q[n]
      BY <1>1, <1>2, <2>1
    <3> QED BY <3>1
  <2>2. CASE n = at
    <3>1. Len(ps) + 1 \in DOMAIN Append(ps, p) /\ Append(ps, p)[Len(ps) + 1] = q[n]
      BY <1>1, <1>2, <2>2
    <3> QED BY <3>1
  <2>3. CASE n > at
    <3>1. n - 1 \in DOMAIN Append(ps, p) /\ Append(ps, p)[n - 1] = q[n]
      BY <1>1, <1>2, <2>3
    <3> QED BY <3>1
  <2> QED BY <2>1, <2>2, <2>3, <1>1
<1>4. ASSUME NamesOnce(ps), p.name \notin Names(ps), NEW m \in DOMAIN q, NEW n \in DOMAIN q, q[m].name = q[n].name
      PROVE  m = n
  <2>1. ASSUME NEW k \in DOMAIN q, k # at
        PROVE  \E j \in DOMAIN ps : q[k] = ps[j] /\ k = IF j < at THEN j ELSE j + 1
    <3>1. CASE k < at
      <4>1. k \in DOMAIN ps
        BY <3>1, <1>1
      <4> QED BY <4>1, <3>1, <1>1, <1>2
    <3>2. CASE k > at
      <4>1. k - 1 \in DOMAIN ps /\ ~(k - 1 < at) /\ k = (k - 1) + 1
        BY <3>2, <1>1
      <4> QED BY <4>1, <3>2, <1>1, <1>2
    <3> QED BY <3>1, <3>2, <2>1, <1>1
  <2>2. q[at] = p /\ at \in DOMAIN q
    BY <1>1, <1>2
  <2>3. CASE m = at \/ n = at
    BY <2>1, <2>2, <2>3, <1>4 DEF Names
  <2>4. CASE m # at /\ n # at
    BY <2>1, <2>4, <1>4 DEF NamesOnce
  <2> QED BY <2>3, <2>4
<1> QED BY <1>1, <1>3, <1>4 DEF q, OutOf, NamesOnce

-----------------------------------------------------------------------------
(* Ontologies: one class replaced, added, or classes taken away. *)

Within(d, us) == d.parents \subseteq us /\ \A i \in DOMAIN d.props : d.props[i].range \in us \cup {NoClass}
WellMade(o) == IsOntology(o) /\ Closed(o)
Evolves(o, post) == WellMade(post) /\ (NamesApart(o) => NamesApart(post))

LEMMA ClosedIs ==
    ASSUME NEW o
    PROVE  /\ Closed(o) <=> \A c \in DOMAIN o : Within(o[c], DOMAIN o)
           /\ NamesApart(o) <=> \A c \in DOMAIN o : NamesOnce(o[c].props)
BY DEF Closed, Within, NamesApart, NamesOnce, IsInjective, ToSet

LEMMA ReplacedClass ==
    ASSUME NEW o, NEW u \in DOMAIN o, NEW d \in ClassDef, WellMade(o), Within(d, DOMAIN o)
    PROVE  /\ WellMade([o EXCEPT ![u] = d])
           /\ NamesApart(o) /\ NamesOnce(d.props) => NamesApart([o EXCEPT ![u] = d])
<1> DEFINE post == [o EXCEPT ![u] = d]
<1>1. DOMAIN post = DOMAIN o /\ \A c \in DOMAIN o : post[c] = IF c = u THEN d ELSE o[c]
  BY DEF WellMade, IsOntology
<1>2. IsOntology(post)
  BY <1>1 DEF WellMade, IsOntology
<1> HIDE DEF post
<1>3. Closed(post) /\ (NamesApart(o) /\ NamesOnce(d.props) => NamesApart(post))
  BY <1>1, ClosedIs DEF WellMade
<1> QED BY <1>2, <1>3 DEF WellMade, post

LEMMA PlusClass ==
    ASSUME NEW o, NEW u \in STRING, NEW d \in ClassDef, WellMade(o), u \notin DOMAIN o,
           Within(d, DOMAIN o \cup {u})
    PROVE  /\ WellMade(Plus(o, u, d))
           /\ NamesApart(o) /\ NamesOnce(d.props) => NamesApart(Plus(o, u, d))
<1> DEFINE post == Plus(o, u, d)
<1>1. DOMAIN post = DOMAIN o \cup {u} /\ \A c \in DOMAIN post : post[c] = IF c = u THEN d ELSE o[c]
  BY DEF Plus
<1>2. IsOntology(post)
  <2>1. IsFiniteSet(DOMAIN post)
    BY <1>1, FS_AddElement DEF WellMade, IsOntology
  <2>2. post \in [DOMAIN post -> ClassDef]
    BY <1>1 DEF WellMade, IsOntology, Plus
  <2> QED BY <2>1, <2>2, <1>1 DEF WellMade, IsOntology
<1> HIDE DEF post
<1>3. Closed(post)
  <2>1. \A c \in DOMAIN o : Within(o[c], DOMAIN post)
    BY <1>1, ClosedIs DEF WellMade, Within
  <2> QED BY <1>1, <2>1, ClosedIs
<1>4. NamesApart(o) /\ NamesOnce(d.props) => NamesApart(post)
  BY <1>1, ClosedIs
<1> QED BY <1>2, <1>3, <1>4 DEF WellMade, post

LEMMA MinusClasses ==
    ASSUME NEW o, NEW C, IsOntology(o), \A u \in DOMAIN o \ C : Within(o[u], DOMAIN o \ C)
    PROVE  Evolves(o, Minus(o, C))
<1> DEFINE post == Minus(o, C)
<1>1. DOMAIN post = DOMAIN o \ C /\ \A c \in DOMAIN post : post[c] = o[c]
  BY DEF Minus
<1>2. IsOntology(post)
  <2>1. IsFiniteSet(DOMAIN post)
    BY <1>1, FS_Subset DEF IsOntology
  <2>2. post \in [DOMAIN post -> ClassDef]
    BY <1>1 DEF IsOntology, Minus
  <2> QED BY <2>1, <2>2, <1>1 DEF IsOntology
<1> HIDE DEF post
<1>3. Closed(post) /\ (NamesApart(o) => NamesApart(post))
  BY <1>1, ClosedIs
<1> QED BY <1>2, <1>3 DEF Evolves, WellMade, post

LEMMA RangeIsInbound ==
    ASSUME NEW o, NEW u \in DOMAIN o, NEW i \in DOMAIN o[u].props
    PROVE  <<u, o[u].props[i].name>> \in InboundRanges(o, o[u].props[i].range)
<1> DEFINE p == o[u].props[i]
<1>1. p \in {q \in ToSet(o[u].props) : q.range = p.range}
  BY DEF ToSet
<1> QED BY <1>1 DEF InboundRanges

(* Where nothing points at them, classes can go.                             *)
LEMMA UnreferencedGo ==
    ASSUME NEW o, NEW C, WellMade(o), \A c \in C : Children(o, c) = {} /\ InboundRanges(o, c) = {}
    PROVE  Evolves(o, Minus(o, C))
<1>1. ASSUME NEW u \in DOMAIN o \ C PROVE Within(o[u], DOMAIN o \ C)
  <2>1. Within(o[u], DOMAIN o)
    BY ClosedIs DEF WellMade
  <2>2. ASSUME NEW c \in C PROVE c \notin o[u].parents
    BY DEF Children
  <2>3. ASSUME NEW i \in DOMAIN o[u].props PROVE o[u].props[i].range \notin C
    BY RangeIsInbound
  <2> QED BY <2>1, <2>2, <2>3 DEF Within
<1> QED BY <1>1, MinusClasses DEF WellMade

-----------------------------------------------------------------------------
(* Operators: the fields of each. *)

LEMMA OperatorFields ==
    ASSUME NEW op, IsOperator(op)
    PROVE  /\ op.op = "AddClass" => op \in [op : {"AddClass"}, uri : STRING, name : STRING, parent : STRING]
           /\ op.op = "DropClass" => op \in [op : {"DropClass"}, uri : STRING]
           /\ op.op = "RetireClass" => op \in [op : {"RetireClass"}, uri : STRING]
           /\ op.op = "UnretireClass" => op \in [op : {"UnretireClass"}, uri : STRING]
           /\ op.op = "RenameClass" => op \in [op : {"RenameClass"}, uri : STRING, name : STRING]
           /\ op.op = "RenameProperty" => op \in [op : {"RenameProperty"}, uri : STRING, prop : STRING, name : STRING]
           /\ op.op = "AddProperty" => op \in [op : {"AddProperty"}, uri : STRING, prop : STRING, range : STRING]
           /\ op.op = "DropProperty" => op \in [op : {"DropProperty"}, uri : STRING, prop : STRING]
           /\ op.op = "AddFacet" => op \in [op : {"AddFacet"}, uri : STRING, prop : STRING, index : Nat]
           /\ op.op = "RetireFacet" => op \in [op : {"RetireFacet"}, uri : STRING, prop : STRING, index : Nat]
           /\ op.op = "RetypeProperty" => op \in [op : {"RetypeProperty"}, uri : STRING, prop : STRING, by : Int]
           /\ op.op = "Generalize" => op \in [op : {"Generalize"}, uri : STRING, parent : STRING, prop : STRING, index : Nat]
           /\ op.op = "Specialize" => op \in [op : {"Specialize"}, uri : STRING, parent : STRING, prop : STRING, index : Nat]
           /\ op.op = "PromoteProperty" => op \in [op : {"PromoteProperty"}, uri : STRING, prop : STRING, new : STRING, name : STRING]
           /\ op.op = "DemoteClass" => op \in [op : {"DemoteClass"}, uri : STRING, prop : STRING, new : STRING, name : STRING]
           /\ op.op \in {"SplitClass", "MergeClasses"} =>
                 op.uri \in STRING /\ op.parts \in PartDef \X PartDef
           /\ op.op = "MergeClasses" => op.name \in STRING
BY DEF IsOperator, PlainOperator, NoOp

-----------------------------------------------------------------------------
(* What each operator makes of an ontology. *)

LEMMA SameParents ==
    ASSUME NEW o, NEW u \in DOMAIN o, NEW d \in ClassDef, WellMade(o), d.parents = o[u].parents,
           \A i \in DOMAIN d.props : d.props[i].range \in DOMAIN o \cup {NoClass}
    PROVE  /\ WellMade([o EXCEPT ![u] = d])
           /\ NamesApart(o) /\ NamesOnce(d.props) => NamesApart([o EXCEPT ![u] = d])
<1>1. Within(d, DOMAIN o)
  BY ClosedIs DEF WellMade, Within
<1> QED BY <1>1, ReplacedClass

LEMMA Relabelled ==
    ASSUME NEW o, NEW u \in DOMAIN o, NEW d \in ClassDef, WellMade(o), d.parents = o[u].parents,
           d.props = o[u].props
    PROVE  Evolves(o, [o EXCEPT ![u] = d])
<1>1. /\ \A i \in DOMAIN d.props : d.props[i].range \in DOMAIN o \cup {NoClass}
      /\ NamesApart(o) => NamesOnce(d.props)
  BY ClosedIs DEF WellMade, Within
<1> QED BY <1>1, SameParents DEF Evolves

(* The properties of a class, one by one.                                    *)
LEMMA ClassTypes ==
    ASSUME NEW o, NEW u \in DOMAIN o, WellMade(o)
    PROVE  /\ o[u] \in ClassDef /\ u \in STRING
           /\ o[u].props \in Seq(PropertyDef) /\ o[u].shapes \in Seq(STRING)
           /\ o[u].parents \subseteq DOMAIN o
           /\ \A i \in DOMAIN o[u].props : o[u].props[i] \in PropertyDef /\ o[u].props[i].range \in DOMAIN o \cup {NoClass}
           /\ NamesApart(o) => NamesOnce(o[u].props)
<1>1. o[u] \in ClassDef /\ u \in STRING
  BY DEF WellMade, IsOntology
<1>2. o[u].props \in Seq(PropertyDef) /\ o[u].shapes \in Seq(STRING)
  BY <1>1 DEF ClassDef
<1>3. Within(o[u], DOMAIN o) /\ (NamesApart(o) => NamesOnce(o[u].props))
  BY ClosedIs DEF WellMade
<1> QED BY <1>1, <1>2, <1>3 DEF Within

LEMMA AddClassRewrites ==
    ASSUME NEW o, WellMade(o), NEW u \in STRING, NEW name \in STRING, NEW parent \in STRING, u \notin DOMAIN o,
           parent # NoClass => parent \in DOMAIN o
    PROVE  Evolves(o, Plus(o, u, NewClass(name, {parent} \ {NoClass}, <<>>)))
<1> DEFINE d == NewClass(name, {parent} \ {NoClass}, <<>>)
<1>1. d \in ClassDef
  BY DEF NewClass, ClassDef
<1>2. Within(d, DOMAIN o \cup {u}) /\ NamesOnce(d.props)
  BY DEF NewClass, Within, NamesOnce
<1> QED BY <1>1, <1>2, PlusClass DEF Evolves

LEMMA RenameClassRewrites ==
    ASSUME NEW o, WellMade(o), NEW u \in DOMAIN o, NEW name \in STRING
    PROVE  Evolves(o, [o EXCEPT ![u].name = name])
<1>1. [o[u] EXCEPT !.name = name] \in ClassDef
  BY ClassTypes DEF ClassDef
<1>2. o[u] \in ClassDef
  BY ClassTypes
<1>3. /\ [o[u] EXCEPT !.name = name].parents = o[u].parents
      /\ [o[u] EXCEPT !.name = name].props = o[u].props
  BY <1>2 DEF ClassDef
<1> QED BY <1>1, <1>3, Relabelled

LEMMA RetireRewrites ==
    ASSUME NEW o, WellMade(o), NEW u \in DOMAIN o, NEW retired \in BOOLEAN
    PROVE  Evolves(o, [o EXCEPT ![u].retired = retired])
<1>1. [o[u] EXCEPT !.retired = retired] \in ClassDef
  BY ClassTypes DEF ClassDef
<1>2. o[u] \in ClassDef
  BY ClassTypes
<1>3. /\ [o[u] EXCEPT !.retired = retired].parents = o[u].parents
      /\ [o[u] EXCEPT !.retired = retired].props = o[u].props
  BY <1>2 DEF ClassDef
<1> QED BY <1>1, <1>3, Relabelled

(* Another list of properties for a class.                                   *)
LEMMA Reprop ==
    ASSUME NEW o, WellMade(o), NEW u \in DOMAIN o, NEW ps \in Seq(PropertyDef), NEW shapes \in Seq(STRING),
           \A i \in DOMAIN ps : ps[i].range \in DOMAIN o \cup {NoClass}
    PROVE  LET post == [o EXCEPT ![u] = [o[u] EXCEPT !.props = ps, !.shapes = shapes]]
           IN  WellMade(post) /\ (NamesApart(o) /\ NamesOnce(ps) => NamesApart(post))
<1> DEFINE d == [o[u] EXCEPT !.props = ps, !.shapes = shapes]
<1>1. o[u] \in ClassDef
  BY ClassTypes
<1>2. d \in ClassDef /\ d.parents = o[u].parents /\ d.props = ps
  BY <1>1 DEF ClassDef
<1> HIDE DEF d
<1>3. WellMade([o EXCEPT ![u] = d]) /\ (NamesApart(o) /\ NamesOnce(ps) => NamesApart([o EXCEPT ![u] = d]))
  BY <1>2, SameParents
<1> QED BY <1>3 DEF d

LEMMA RepropOnly ==
    ASSUME NEW o, WellMade(o), NEW u \in DOMAIN o, NEW ps \in Seq(PropertyDef),
           \A i \in DOMAIN ps : ps[i].range \in DOMAIN o \cup {NoClass}
    PROVE  LET post == [o EXCEPT ![u].props = ps]
           IN  WellMade(post) /\ (NamesApart(o) /\ NamesOnce(ps) => NamesApart(post))
<1> DEFINE post == [o EXCEPT ![u] = [o[u] EXCEPT !.props = ps, !.shapes = o[u].shapes]]
<1>1. o[u] \in ClassDef /\ o[u].shapes \in Seq(STRING)
  BY ClassTypes
<1>2. [o[u] EXCEPT !.props = ps] = [o[u] EXCEPT !.props = ps, !.shapes = o[u].shapes]
  BY <1>1 DEF ClassDef
<1>3. [o EXCEPT ![u].props = ps] = post
  BY <1>2
<1>4. WellMade(post) /\ (NamesApart(o) /\ NamesOnce(ps) => NamesApart(post))
  BY <1>1, Reprop
<1> QED BY <1>3, <1>4

LEMMA RenamePropertyRewrites ==
    ASSUME NEW o, WellMade(o), NEW u \in DOMAIN o, NEW prop \in STRING, NEW name \in STRING,
           ~HasProp(o, u, name)
    PROVE  Evolves(o, [o EXCEPT
                         ![u].props = Changed(@, prop, LAMBDA p : [p EXCEPT !.name = name]),
                         ![u].shapes = ReplaceAll(@, prop, name)])
<1> DEFINE ps == o[u].props
           qs == [i \in DOMAIN ps |-> IF ps[i].name = prop THEN [ps[i] EXCEPT !.name = name] ELSE ps[i]]
           shapes == ReplaceAll(o[u].shapes, prop, name)
<1>1. /\ ps \in Seq(PropertyDef) /\ o[u].shapes \in Seq(STRING)
      /\ \A i \in DOMAIN ps : ps[i] \in PropertyDef /\ ps[i].range \in DOMAIN o \cup {NoClass}
      /\ NamesApart(o) => NamesOnce(ps)
  BY ClassTypes
<1>2. shapes \in Seq(STRING)
  BY <1>1 DEF ReplaceAll
<1>3. \A i \in DOMAIN ps : /\ qs[i] \in PropertyDef /\ qs[i].range = ps[i].range
                           /\ qs[i].name = IF ps[i].name = prop THEN name ELSE ps[i].name
  BY <1>1 DEF PropertyDef
<1>4. DOMAIN qs = DOMAIN ps /\ qs \in Seq(PropertyDef)
  BY <1>1, <1>3, MappedList
<1> HIDE DEF qs
<1>5. \A i \in DOMAIN qs : qs[i].range \in DOMAIN o \cup {NoClass}
  BY <1>1, <1>3, <1>4
<1>6. NamesApart(o) => NamesOnce(qs)
  BY <1>1, <1>3, <1>4 DEF NamesOnce, HasProp, Names
<1>7. Evolves(o, [o EXCEPT ![u] = [o[u] EXCEPT !.props = qs, !.shapes = shapes]])
  BY <1>2, <1>4, <1>5, <1>6, Reprop DEF Evolves
<1>8. [o EXCEPT ![u].props = Changed(@, prop, LAMBDA p : [p EXCEPT !.name = name]),
                ![u].shapes = ReplaceAll(@, prop, name)]
         = [o EXCEPT ![u] = [o[u] EXCEPT !.props = qs, !.shapes = shapes]]
  BY DEF Changed, qs
<1> QED BY <1>7, <1>8

LEMMA AddPropertyRewrites ==
    ASSUME NEW o, WellMade(o), NEW u \in DOMAIN o, NEW prop \in STRING, NEW range \in STRING,
           Resolve(o, u, prop) = {}, range # NoClass => range \in DOMAIN o
    PROVE  Evolves(o, [o EXCEPT ![u].props =
                         Append(@, [name |-> prop, key |-> Key(prop), range |-> range, unit |-> 0])])
<1> DEFINE ps == o[u].props
           p == [name |-> prop, key |-> Key(prop), range |-> range, unit |-> 0]
           qs == Append(ps, p)
<1>1. /\ ps \in Seq(PropertyDef)
      /\ \A i \in DOMAIN ps : ps[i].range \in DOMAIN o \cup {NoClass}
      /\ NamesApart(o) => NamesOnce(ps)
  BY ClassTypes
<1>2. p \in PropertyDef /\ p.name = prop /\ p.range = range
  BY DEF PropertyDef, Key
<1> HIDE DEF p
<1>3. qs \in Seq(PropertyDef) /\ \A i \in DOMAIN qs : (i \in DOMAIN ps /\ qs[i] = ps[i]) \/ (i = Len(ps) + 1 /\ qs[i] = p)
  BY <1>1, <1>2
<1>4. prop \notin Names(ps)
  BY DEF Resolve, HasProp
<1>5. NamesApart(o) => NamesOnce(qs)
  BY <1>1, <1>2, <1>3, <1>4 DEF NamesOnce, Names
<1>6. \A i \in DOMAIN qs : qs[i].range \in DOMAIN o \cup {NoClass}
  BY <1>1, <1>2, <1>3
<1>7. Evolves(o, [o EXCEPT ![u].props = qs])
  BY <1>3, <1>5, <1>6, RepropOnly DEF Evolves
<1> QED BY <1>7 DEF p

LEMMA DropPropertyRewrites ==
    ASSUME NEW o, WellMade(o), NEW u \in DOMAIN o, NEW prop \in STRING
    PROVE  Evolves(o, [o EXCEPT ![u].props = Without(@, prop), ![u].shapes = Where(@, LAMBDA s : s # prop)])
<1> DEFINE ps == o[u].props
           qs == Without(ps, prop)
           shapes == At(o[u].shapes, {i \in DOMAIN o[u].shapes : o[u].shapes[i] # prop})
<1>1. /\ ps \in Seq(PropertyDef) /\ o[u].shapes \in Seq(STRING)
      /\ \A i \in DOMAIN ps : ps[i].range \in DOMAIN o \cup {NoClass}
      /\ NamesApart(o) => NamesOnce(ps)
  BY ClassTypes
<1>2. shapes \in Seq(STRING)
  BY <1>1, AtPositions
<1>3. qs \in Seq(PropertyDef) /\ OutOf(qs, ps) /\ (NamesOnce(ps) => NamesOnce(qs))
  BY <1>1, WithoutProps
<1>4. \A i \in DOMAIN qs : qs[i].range \in DOMAIN o \cup {NoClass}
  BY <1>1, <1>3 DEF OutOf
<1>5. Evolves(o, [o EXCEPT ![u] = [o[u] EXCEPT !.props = qs, !.shapes = shapes]])
  BY <1>1, <1>2, <1>3, <1>4, Reprop DEF Evolves
<1>6. [o EXCEPT ![u].props = Without(@, prop), ![u].shapes = Where(@, LAMBDA s : s # prop)]
         = [o EXCEPT ![u] = [o[u] EXCEPT !.props = qs, !.shapes = shapes]]
  BY DEF Where
<1> QED BY <1>5, <1>6

LEMMA ReshapedRewrites ==
    ASSUME NEW o, WellMade(o), NEW u \in DOMAIN o, NEW shapes \in Seq(STRING)
    PROVE  Evolves(o, [o EXCEPT ![u].shapes = shapes])
<1>1. o[u] \in ClassDef
  BY ClassTypes
<1>2. [o[u] EXCEPT !.shapes = shapes] \in ClassDef
  BY <1>1 DEF ClassDef
<1>3. /\ [o[u] EXCEPT !.shapes = shapes].parents = o[u].parents
      /\ [o[u] EXCEPT !.shapes = shapes].props = o[u].props
  BY <1>1 DEF ClassDef
<1>4. Evolves(o, [o EXCEPT ![u] = [o[u] EXCEPT !.shapes = shapes]])
  BY <1>2, <1>3, Relabelled
<1> QED BY <1>4

LEMMA AddFacetRewrites ==
    ASSUME NEW o, WellMade(o), NEW u \in DOMAIN o, NEW prop \in STRING, NEW index \in Nat
    PROVE  Evolves(o, [o EXCEPT ![u].shapes = InsertedAt(@, prop, index)])
<1>1. o[u].shapes \in Seq(STRING)
  BY ClassTypes
<1>2. InsertedAt(o[u].shapes, prop, index) \in Seq(STRING)
  BY <1>1, InsertedWith
<1> QED BY <1>2, ReshapedRewrites

LEMMA RetireFacetRewrites ==
    ASSUME NEW o, WellMade(o), NEW u \in DOMAIN o, NEW at \in 1 .. Len(o[u].shapes)
    PROVE  Evolves(o, [o EXCEPT ![u].shapes = RemoveAt(@, at)])
<1>1. o[u].shapes \in Seq(STRING)
  BY ClassTypes
<1>2. RemoveAt(o[u].shapes, at) \in Seq(STRING)
  BY <1>1 DEF RemoveAt
<1> QED BY <1>2, ReshapedRewrites

LEMMA ChangedRewrites ==
    ASSUME NEW o, WellMade(o), NEW u \in DOMAIN o, NEW qs, DOMAIN qs = DOMAIN o[u].props,
           qs = [i \in DOMAIN qs |-> qs[i]],
           \A i \in DOMAIN qs : /\ qs[i] \in PropertyDef /\ qs[i].name = o[u].props[i].name
                                /\ qs[i].range \in DOMAIN o \cup {NoClass}
    PROVE  Evolves(o, [o EXCEPT ![u].props = qs])
<1>1. o[u].props \in Seq(PropertyDef) /\ (NamesApart(o) => NamesOnce(o[u].props))
  BY ClassTypes
<1>2. qs \in Seq(PropertyDef)
  BY <1>1, MappedList
<1>3. NamesApart(o) => NamesOnce(qs)
  BY <1>1 DEF NamesOnce
<1> QED BY <1>2, <1>3, RepropOnly DEF Evolves

Retyped(o, u, prop, by) ==
    [o EXCEPT ![u].props = Changed(@, prop, LAMBDA q : [q EXCEPT !.unit = @ + by])]

LEMMA RetypeRewrites ==
    ASSUME NEW o, WellMade(o), NEW u \in DOMAIN o, NEW prop, NEW by \in Int
    PROVE  Evolves(o, Retyped(o, u, prop, by))
<1> DEFINE ps == o[u].props
           qs == Changed(ps, prop, LAMBDA q : [q EXCEPT !.unit = @ + by])
<1>1. \A i \in DOMAIN ps : ps[i] \in PropertyDef /\ ps[i].range \in DOMAIN o \cup {NoClass}
  BY ClassTypes
<1>2. DOMAIN qs = DOMAIN ps /\ qs = [i \in DOMAIN qs |-> qs[i]]
  BY DEF Changed
<1>3. \A i \in DOMAIN ps : qs[i] = IF ps[i].name = prop THEN [ps[i] EXCEPT !.unit = @ + by] ELSE ps[i]
  BY DEF Changed
<1> HIDE DEF qs
<1>4. \A i \in DOMAIN qs : /\ qs[i] \in PropertyDef /\ qs[i].name = ps[i].name
                           /\ qs[i].range \in DOMAIN o \cup {NoClass}
  <2> SUFFICES ASSUME NEW i \in DOMAIN ps
               PROVE  /\ qs[i] \in PropertyDef /\ qs[i].name = ps[i].name
                      /\ qs[i].range = ps[i].range
    BY <1>1, <1>2
  <2>1. ps[i] \in PropertyDef
    BY <1>1
  <2>2. [ps[i] EXCEPT !.unit = @ + by] \in PropertyDef
    BY <2>1 DEF PropertyDef
  <2>3. /\ [ps[i] EXCEPT !.unit = @ + by].name = ps[i].name
        /\ [ps[i] EXCEPT !.unit = @ + by].range = ps[i].range
    BY <2>1 DEF PropertyDef
  <2> QED BY <2>1, <2>2, <2>3, <1>3
<1>5. Evolves(o, [o EXCEPT ![u].props = qs])
  BY <1>2, <1>4, ChangedRewrites
<1> QED BY <1>5 DEF qs, Retyped

(* The same property in another place.                                       *)
LEMMA MovedProperty ==
    ASSUME NEW o, WellMade(o), NEW a \in DOMAIN o, NEW b \in DOMAIN o, NEW prop, NEW index \in Nat, HasProp(o, a, prop)
    PROVE  /\ WellMade(MovedProp(o, a, b, prop, index))
           /\ NamesApart(o) /\ (a = b \/ ~HasProp(o, b, prop)) => NamesApart(MovedProp(o, a, b, prop, index))
<1> DEFINE p == Prop(o, a, prop)
           ps == Without(o[a].props, prop)
           o1 == [o EXCEPT ![a].props = ps]
           qs == InsertedAt(o1[b].props, p, index)
           post == MovedProp(o, a, b, prop, index)
<1>1. /\ o[a].props \in Seq(PropertyDef)
      /\ \A i \in DOMAIN o[a].props : o[a].props[i] \in PropertyDef /\ o[a].props[i].range \in DOMAIN o \cup {NoClass}
      /\ NamesApart(o) => NamesOnce(o[a].props)
  BY ClassTypes
<1>2. p \in PropertyDef /\ p.name = prop /\ p.range \in DOMAIN o \cup {NoClass}
  BY <1>1, PropFound DEF HasProp, Prop
<1>3. /\ ps \in Seq(PropertyDef) /\ OutOf(ps, o[a].props) /\ prop \notin Names(ps)
      /\ NamesOnce(o[a].props) => NamesOnce(ps)
  BY <1>1, WithoutProps
<1>4. \A i \in DOMAIN ps : ps[i].range \in DOMAIN o \cup {NoClass}
  BY <1>1, <1>3 DEF OutOf
<1> HIDE DEF p, ps
<1>5. Evolves(o, o1)
  BY <1>1, <1>3, <1>4, RepropOnly DEF Evolves
<1>6. DOMAIN o1 = DOMAIN o /\ o1[b].props = IF a = b THEN ps ELSE o[b].props
  <2>1. o \in [DOMAIN o -> ClassDef] /\ o[a] \in ClassDef
    BY DEF WellMade, IsOntology
  <2> QED BY <2>1 DEF ClassDef
<1>7. post = [o1 EXCEPT ![b].props = qs]
  BY DEF MovedProp, p, ps
<1> HIDE DEF o1, post
<1>8. /\ o1[b].props \in Seq(PropertyDef)
      /\ \A i \in DOMAIN o1[b].props : o1[b].props[i].range \in DOMAIN o1 \cup {NoClass}
      /\ NamesApart(o1) => NamesOnce(o1[b].props)
  BY <1>5, <1>6, ClassTypes DEF Evolves
<1>9. /\ qs \in Seq(PropertyDef) /\ OutOf(qs, Append(o1[b].props, p))
      /\ NamesOnce(o1[b].props) /\ prop \notin Names(o1[b].props) => NamesOnce(qs)
  BY <1>2, <1>8, InsertedProps
<1>10. \A i \in DOMAIN qs : qs[i].range \in DOMAIN o1 \cup {NoClass}
  <2> DEFINE t == Append(o1[b].props, p)
  <2>1. \A j \in DOMAIN t : (j \in DOMAIN o1[b].props /\ t[j] = o1[b].props[j]) \/ t[j] = p
    BY <1>2, <1>8
  <2> HIDE DEF t
  <2>2. \A j \in DOMAIN t : t[j].range \in DOMAIN o1 \cup {NoClass}
    BY <2>1, <1>2, <1>6, <1>8
  <2> QED BY <2>2, <1>9 DEF OutOf, t
<1> HIDE DEF qs
<1>11. WellMade(post) /\ (NamesApart(o1) /\ NamesOnce(qs) => NamesApart(post))
  BY <1>5, <1>6, <1>7, <1>9, <1>10, RepropOnly DEF Evolves
<1>12. ASSUME NamesApart(o), a = b \/ ~HasProp(o, b, prop) PROVE NamesApart(post)
  <2>1. prop \notin Names(o1[b].props)
    BY <1>12, <1>3, <1>6 DEF HasProp
  <2>2. NamesApart(o1)
    BY <1>12, <1>5 DEF Evolves
  <2> QED BY <2>1, <2>2, <1>8, <1>9, <1>11
<1> QED BY <1>11, <1>12 DEF post, MovedProp

Promoted(o, u, prop, new, name) ==
    Plus([o EXCEPT ![u].props =
            Changed(@, prop, LAMBDA q : [q EXCEPT !.range = new, !.unit = 0])],
         new, NewClass(name, {}, <<ValueProp(Prop(o, u, prop).unit)>>))

LEMMA PromoteRewrites ==
    ASSUME NEW o, WellMade(o), NEW u \in DOMAIN o, NEW prop, HasProp(o, u, prop), NEW new \in STRING, NEW name \in STRING,
           new \notin DOMAIN o
    PROVE  Evolves(o, Promoted(o, u, prop, new, name))
<1> DEFINE p == Prop(o, u, prop)
           vp == ValueProp(p.unit)
           d == NewClass(name, {}, <<vp>>)
           o1 == Plus(o, new, d)
           ps == o[u].props
           qs == Changed(ps, prop, LAMBDA q : [q EXCEPT !.range = new, !.unit = 0])
<1>1. /\ ps \in Seq(PropertyDef)
      /\ \A i \in DOMAIN ps : ps[i] \in PropertyDef /\ ps[i].range \in DOMAIN o \cup {NoClass}
  BY ClassTypes
<1>2. p \in PropertyDef
  BY <1>1, PropFound DEF HasProp, Prop
<1>3. vp \in PropertyDef /\ vp.range = NoClass
  <2>1. p.unit \in Int
    BY <1>2 DEF PropertyDef
  <2> QED BY <2>1, ValueProperty
<1> HIDE DEF vp
<1>4. d \in ClassDef /\ d.parents = {} /\ d.props = <<vp>>
  BY <1>3 DEF ClassDef, NewClass
<1>5. Within(d, DOMAIN o \cup {new}) /\ NamesOnce(d.props)
  BY <1>3, <1>4 DEF Within, NamesOnce
<1> HIDE DEF d
<1>6. Evolves(o, o1)
  BY <1>4, <1>5, PlusClass DEF Evolves
<1>7. DOMAIN o1 = DOMAIN o \cup {new} /\ o1[u] = o[u] /\ u \in DOMAIN o1
  BY DEF Plus
<1>8. DOMAIN qs = DOMAIN ps /\ qs = [i \in DOMAIN qs |-> qs[i]]
  BY DEF Changed
<1>9. \A i \in DOMAIN ps : qs[i] = IF ps[i].name = prop THEN Reranged(ps[i], new, 0) ELSE ps[i]
  BY DEF Changed, Reranged
<1>10. Plus([o EXCEPT ![u].props = qs], new, d) = [o1 EXCEPT ![u].props = qs]
  BY <1>7 DEF Plus
<1> HIDE DEF qs, o1
<1>11. \A i \in DOMAIN qs : /\ qs[i] \in PropertyDef /\ qs[i].name = ps[i].name
                            /\ qs[i].range \in DOMAIN o1 \cup {NoClass}
  <2> SUFFICES ASSUME NEW i \in DOMAIN ps
               PROVE  /\ qs[i] \in PropertyDef /\ qs[i].name = ps[i].name
                      /\ qs[i].range \in DOMAIN o1 \cup {NoClass}
    BY <1>8
  <2>1. ps[i] \in PropertyDef /\ ps[i].range \in DOMAIN o \cup {NoClass}
    BY <1>1
  <2> DEFINE e == Reranged(ps[i], new, 0)
  <2>0. PICK zero \in Int : zero = 0
    OBVIOUS
  <2>2. e \in PropertyDef /\ e.name = ps[i].name /\ e.range = new
    <3>1. Reranged(ps[i], new, zero) \in PropertyDef /\ Reranged(ps[i], new, zero).name = ps[i].name
             /\ Reranged(ps[i], new, zero).range = new
      BY <2>1, RerangedIs
    <3> QED BY <3>1, <2>0
  <2> QED BY <2>1, <2>2, <1>7, <1>9
<1>12. Evolves(o1, [o1 EXCEPT ![u].props = qs])
  BY <1>6, <1>7, <1>8, <1>11, ChangedRewrites DEF Evolves
<1> QED BY <1>6, <1>10, <1>12 DEF Evolves, qs, d, vp, Promoted

Demoted(o, u, prop, new) ==
    Minus([o EXCEPT ![u].props =
             Changed(@, prop, LAMBDA q : [q EXCEPT !.range = NoClass, !.unit = Prop(o, new, "value").unit])],
          {new})

LEMMA DemoteRewrites ==
    ASSUME NEW o, WellMade(o), NEW u \in DOMAIN o, NEW prop, NEW new \in DOMAIN o, HasProp(o, new, "value"),
           Children(o, new) = {}, InboundRanges(o, new) = {<<u, prop>>}
    PROVE  Evolves(o, Demoted(o, u, prop, new))
<1> DEFINE unit == Prop(o, new, "value").unit
           ps == o[u].props
           qs == Changed(ps, prop, LAMBDA q : [q EXCEPT !.range = NoClass, !.unit = unit])
           o1 == [o EXCEPT ![u].props = qs]
<1>1. \A i \in DOMAIN ps : ps[i] \in PropertyDef /\ ps[i].range \in DOMAIN o \cup {NoClass}
  BY ClassTypes
<1>2. unit \in Int
  <2>1. Prop(o, new, "value") \in PropertyDef
    BY ClassTypes, PropFound DEF HasProp, Prop
  <2> QED BY <2>1 DEF PropertyDef
<1>3. DOMAIN qs = DOMAIN ps /\ qs = [i \in DOMAIN qs |-> qs[i]]
  BY DEF Changed
<1>4. \A i \in DOMAIN ps : qs[i] = IF ps[i].name = prop THEN Reranged(ps[i], NoClass, unit) ELSE ps[i]
  BY DEF Changed, Reranged
<1> HIDE DEF qs, unit
<1>5. \A i \in DOMAIN qs : /\ qs[i] \in PropertyDef /\ qs[i].name = ps[i].name
                           /\ qs[i].range = IF ps[i].name = prop THEN NoClass ELSE ps[i].range
  <2> SUFFICES ASSUME NEW i \in DOMAIN ps
               PROVE  /\ qs[i] \in PropertyDef /\ qs[i].name = ps[i].name
                      /\ qs[i].range = IF ps[i].name = prop THEN NoClass ELSE ps[i].range
    BY <1>3
  <2>1. ps[i] \in PropertyDef
    BY <1>1
  <2> DEFINE e == Reranged(ps[i], NoClass, unit)
  <2>2. e \in PropertyDef /\ e.name = ps[i].name /\ e.range = NoClass
    BY <2>1, <1>2, TextsAssumption, RerangedIs
  <2> QED BY <2>1, <2>2, <1>4
<1>6. Evolves(o, o1)
  <2>1. \A i \in DOMAIN qs : qs[i].range \in DOMAIN o \cup {NoClass}
    BY <1>1, <1>3, <1>5
  <2> QED BY <2>1, <1>3, <1>5, ChangedRewrites
<1>7. DOMAIN o1 = DOMAIN o /\ \A v \in DOMAIN o : o1[v] = IF v = u THEN [o[u] EXCEPT !.props = qs] ELSE o[v]
  BY DEF WellMade, IsOntology
<1> HIDE DEF o1
<1>8. ASSUME NEW v \in DOMAIN o, NEW i \in DOMAIN o[v].props, o[v].props[i].range = new
      PROVE  v = u /\ o[v].props[i].name = prop
  <2>1. <<v, o[v].props[i].name>> \in InboundRanges(o, o[v].props[i].range)
    BY RangeIsInbound
  <2> QED BY <2>1, <1>8
<1>9. ASSUME NEW v \in DOMAIN o1 \ {new} PROVE Within(o1[v], DOMAIN o1 \ {new})
  <2>1. Within(o1[v], DOMAIN o1)
    BY <1>6, ClosedIs DEF Evolves, WellMade
  <2>2. o1[v].parents = o[v].parents /\ o1[v].props = IF v = u THEN qs ELSE o[v].props
    <3>1. o[v] \in ClassDef
      BY <1>7, ClassTypes
    <3> QED BY <3>1, <1>7 DEF ClassDef
  <2>3. new \notin o[v].parents
    BY <1>7 DEF Children
  <2>4. ASSUME NEW i \in DOMAIN o1[v].props, o1[v].props[i].range = new PROVE new = NoClass
    <3>1. CASE v = u
      <4>1. i \in DOMAIN ps /\ qs[i].range = new /\ qs[i].range = IF ps[i].name = prop THEN NoClass ELSE ps[i].range
        BY <3>1, <2>2, <2>4, <1>3, <1>5
      <4> QED BY <4>1, <3>1, <1>8
    <3>2. CASE v # u
      BY <3>2, <2>2, <2>4, <1>7, <1>8
    <3> QED BY <3>1, <3>2
  <2> QED BY <2>1, <2>2, <2>3, <2>4 DEF Within
<1>10. Evolves(o1, Minus(o1, {new}))
  BY <1>6, <1>9, MinusClasses DEF Evolves, WellMade
<1> QED BY <1>6, <1>10 DEF Evolves, o1, qs, unit, Demoted

LEMMA SplitRewrites ==
    ASSUME NEW o, WellMade(o), NEW c \in DOMAIN o, NEW u1 \in STRING, NEW u2 \in STRING, NEW n1 \in STRING, NEW n2 \in STRING,
           u1 # u2, {u1, u2} \cap DOMAIN o = {}, Children(o, c) = {}, InboundRanges(o, c) = {}
    PROVE  Evolves(o, Plus(Plus(Minus(o, {c}), u1, [o[c] EXCEPT !.name = n1]), u2, [o[c] EXCEPT !.name = n2]))
<1> DEFINE o1 == Minus(o, {c})
           d1 == [o[c] EXCEPT !.name = n1]
           d2 == [o[c] EXCEPT !.name = n2]
           o2 == Plus(o1, u1, d1)
<1>1. Evolves(o, o1) /\ DOMAIN o1 = DOMAIN o \ {c}
  BY UnreferencedGo DEF Minus
<1>2. o[c] \in ClassDef
  BY ClassTypes
<1>3. /\ d1 \in ClassDef /\ d1.parents = o[c].parents /\ d1.props = o[c].props
      /\ d2 \in ClassDef /\ d2.parents = o[c].parents /\ d2.props = o[c].props
  BY <1>2 DEF ClassDef
<1>4. Within(o[c], DOMAIN o1) /\ (NamesApart(o) => NamesOnce(o[c].props))
  <2>1. Within(o[c], DOMAIN o) /\ (NamesApart(o) => NamesOnce(o[c].props))
    BY ClosedIs DEF WellMade
  <2>2. c \notin o[c].parents
    BY DEF Children
  <2>3. \A i \in DOMAIN o[c].props : o[c].props[i].range # c
    BY RangeIsInbound
  <2> QED BY <2>1, <2>2, <2>3, <1>1 DEF Within
<1> HIDE DEF d1, d2, o1
<1>5. u1 \notin DOMAIN o1 /\ Within(d1, DOMAIN o1 \cup {u1})
  BY <1>1, <1>3, <1>4 DEF Within
<1>6. WellMade(o2) /\ (NamesApart(o1) /\ NamesOnce(d1.props) => NamesApart(o2))
  BY <1>1, <1>3, <1>5, PlusClass DEF Evolves
<1>7. DOMAIN o2 = DOMAIN o1 \cup {u1}
  BY DEF Plus
<1> HIDE DEF o2
<1>8. u2 \notin DOMAIN o2 /\ Within(d2, DOMAIN o2 \cup {u2})
  BY <1>1, <1>3, <1>4, <1>7 DEF Within
<1>9. WellMade(Plus(o2, u2, d2)) /\ (NamesApart(o2) /\ NamesOnce(d2.props) => NamesApart(Plus(o2, u2, d2)))
  BY <1>3, <1>6, <1>8, PlusClass
<1> QED BY <1>1, <1>3, <1>4, <1>6, <1>9 DEF Evolves, o1, o2, d1, d2

MergedInto(o, c1, c2, u, name, D) ==
    Plus(Minus(o, {c1, c2}), u,
         [o[c1] EXCEPT
            !.name = name,
            !.parents = @ \cup o[c2].parents,
            !.props = @ \o Where(o[c2].props, LAMBDA p : p.name \notin D),
            !.shapes = @ \o Where(o[c2].shapes, LAMBDA s : s \notin D)])

LEMMA MergeRewrites ==
    ASSUME NEW o, WellMade(o), NEW c1 \in DOMAIN o, NEW c2 \in DOMAIN o, NEW u \in STRING, NEW name \in STRING,
           u \notin DOMAIN o, \A c \in {c1, c2} : Children(o, c) = {} /\ InboundRanges(o, c) = {},
           NEW D, \A x \in Names(o[c2].props) : HasProp(o, c1, x) => x \in D
    PROVE  Evolves(o, MergedInto(o, c1, c2, u, name, D))
<1> DEFINE o1 == Minus(o, {c1, c2})
           I == {i \in DOMAIN o[c2].props : o[c2].props[i].name \notin D}
           J == {i \in DOMAIN o[c2].shapes : o[c2].shapes[i] \notin D}
           qs == At(o[c2].props, I)
           ps == o[c1].props \o qs
           shapes == o[c1].shapes \o At(o[c2].shapes, J)
           d == [o[c1] EXCEPT !.name = name, !.parents = @ \cup o[c2].parents, !.props = ps, !.shapes = shapes]
<1>1. Evolves(o, o1) /\ DOMAIN o1 = DOMAIN o \ {c1, c2}
  BY UnreferencedGo DEF Minus
<1>2. \A c \in {c1, c2} : /\ o[c] \in ClassDef /\ o[c].props \in Seq(PropertyDef) /\ o[c].shapes \in Seq(STRING)
                           /\ (NamesApart(o) => NamesOnce(o[c].props))
  BY ClassTypes
<1>3. \A c \in {c1, c2} : Within(o[c], DOMAIN o1)
  <2> SUFFICES ASSUME NEW c \in {c1, c2} PROVE Within(o[c], DOMAIN o1)
    OBVIOUS
  <2>1. Within(o[c], DOMAIN o)
    BY ClosedIs DEF WellMade
  <2>2. ASSUME NEW x \in {c1, c2} PROVE x \notin o[c].parents
    BY DEF Children
  <2>3. ASSUME NEW x \in {c1, c2}, NEW i \in DOMAIN o[c].props PROVE o[c].props[i].range # x
    BY RangeIsInbound
  <2> QED BY <2>1, <2>2, <2>3, <1>1 DEF Within
<1>4. J \in SUBSET DOMAIN o[c2].shapes /\ I \in SUBSET DOMAIN o[c2].props
  OBVIOUS
<1>5. At(o[c2].shapes, J) \in Seq(STRING)
  BY <1>2, <1>4, AtPositions
<1> HIDE DEF I, J
<1>6. /\ qs \in Seq(PropertyDef) /\ \A n \in DOMAIN qs : \E i \in I : qs[n] = o[c2].props[i]
      /\ NamesOnce(o[c2].props) => NamesOnce(qs)
  BY <1>2, <1>4, PickedProps
<1>7. Names(o[c1].props) \cap Names(qs) = {}
  BY <1>6 DEF I, Names, HasProp
<1> HIDE DEF qs
<1>8. /\ ps \in Seq(PropertyDef)
      /\ \A n \in DOMAIN ps : \/ \E i \in DOMAIN o[c1].props : ps[n] = o[c1].props[i]
                            \/ \E i \in DOMAIN qs : ps[n] = qs[i]
      /\ NamesOnce(o[c1].props) /\ NamesOnce(qs) => NamesOnce(ps)
  BY <1>2, <1>6, <1>7, JoinedProps
<1> HIDE DEF ps
<1>9. shapes \in Seq(STRING)
  BY <1>2, <1>5
<1> HIDE DEF shapes
<1>10. d \in ClassDef /\ d.parents = o[c1].parents \cup o[c2].parents /\ d.props = ps
  <2>1. o[c1] \in ClassDef /\ o[c2].parents \subseteq STRING
    BY <1>2 DEF ClassDef
  <2> QED BY <2>1, <1>8, <1>9 DEF ClassDef
<1> HIDE DEF d, o1
<1>11. Within(d, DOMAIN o1 \cup {u})
  <2>1. \A n \in DOMAIN ps : \E c \in {c1, c2} : \E i \in DOMAIN o[c].props : ps[n] = o[c].props[i]
    BY <1>4, <1>6, <1>8
  <2>2. \A n \in DOMAIN ps : ps[n].range \in DOMAIN o1 \cup {NoClass}
    BY <2>1, <1>3 DEF Within
  <2> QED BY <2>2, <1>3, <1>10 DEF Within
<1>12. WellMade(Plus(o1, u, d)) /\ (NamesApart(o1) /\ NamesOnce(d.props) => NamesApart(Plus(o1, u, d)))
  BY <1>1, <1>10, <1>11, PlusClass DEF Evolves
<1>13. Evolves(o, Plus(o1, u, d))
  BY <1>1, <1>2, <1>6, <1>8, <1>10, <1>12 DEF Evolves
<1> QED BY <1>13 DEF Where, MergedInto, o1, d, ps, qs, shapes, I, J

-----------------------------------------------------------------------------
(* Lists put back: what an operator and its inverse do to a list. *)

(* Each of the two lists determines the other.                               *)
LEMMA SameWith ==
    ASSUME NEW S, NEW s \in Seq(S), NEW t \in Seq(S), NEW x, NEW k, With(t, s, x, k)
    PROVE  /\ \A r \in Seq(S) : With(r, s, x, k) => r = t
           /\ \A r \in Seq(S) : \A y : With(t, r, y, k) => r = s
<1>1. Len(s) \in Nat /\ DOMAIN s = 1 .. Len(s) /\ DOMAIN t = 1 .. Len(s) + 1 /\ k \in 1 .. Len(s) + 1
  BY DEF With
<1>2. ASSUME NEW r \in Seq(S), With(r, s, x, k) PROVE r = t
  <2>1. DOMAIN r = DOMAIN t /\ \A n \in DOMAIN t : r[n] = t[n]
    BY <1>1, <1>2 DEF With
  <2> QED BY <2>1
<1>3. ASSUME NEW r \in Seq(S), NEW y, With(t, r, y, k) PROVE r = s
  <2>1. Len(r) \in Nat /\ DOMAIN r = 1 .. Len(r) /\ DOMAIN t = 1 .. Len(r) + 1
    BY <1>3 DEF With
  <2>2. Len(t) = Len(r) + 1 /\ Len(t) = Len(s) + 1
    BY <1>1, <2>1
  <2>3. Len(r) = Len(s)
    <3>1. \A a, b \in Nat : a + 1 = b + 1 => a = b
      OBVIOUS
    <3> QED BY <3>1, <1>1, <2>1, <2>2
  <2>4. ASSUME NEW n \in 1 .. Len(s) PROVE r[n] = s[n]
    <3>1. CASE n < k
      BY <3>1, <1>1, <2>3, <1>3 DEF With
    <3>2. CASE n >= k
      <4>1. n + 1 \in 1 .. Len(s) + 1 /\ ~(n + 1 < k) /\ n + 1 # k /\ n + 1 - 1 = n
        BY <3>2, <1>1
      <4>2. t[n + 1] = s[n + 1 - 1] /\ t[n + 1] = r[n + 1 - 1]
        BY <4>1, <2>3, <1>3 DEF With
      <4> QED BY <4>1, <4>2
    <3> QED BY <3>1, <3>2, <1>1
  <2> QED BY <1>1, <2>1, <2>3, <2>4
<1> QED BY <1>2, <1>3

LEMMA AppendedWith ==
    ASSUME NEW S, NEW s \in Seq(S), NEW x \in S
    PROVE  Append(s, x) \in Seq(S) /\ With(Append(s, x), s, x, Len(s) + 1)
<1>1. Len(s) \in Nat /\ DOMAIN Append(s, x) = 1 .. Len(s) + 1 /\ Append(s, x) \in Seq(S)
  OBVIOUS
<1>2. \A n \in 1 .. Len(s) + 1 : Append(s, x)[n] = IF n < Len(s) + 1 THEN s[n] ELSE x
  OBVIOUS
<1> QED BY <1>1, <1>2 DEF With

(* The positions but one, in their order.                                    *)
LEMMA OthersWith ==
    ASSUME NEW S, NEW t \in Seq(S), NEW k \in DOMAIN t
    PROVE  At(t, DOMAIN t \ {k}) \in Seq(S) /\ With(t, At(t, DOMAIN t \ {k}), t[k], k)
<1> DEFINE I == DOMAIN t \ {k}
           m == Len(t) - 1
           q == [n \in 1 .. m |-> IF n < k THEN n ELSE n + 1]
           s == At(t, I)
<1>1. Len(t) \in Nat /\ DOMAIN t = 1 .. Len(t) /\ k \in 1 .. Len(t) /\ m \in Nat
  OBVIOUS
<1>2. q \in Seq(Nat) /\ Len(q) = m /\ DOMAIN q = 1 .. m
  <2>1. q \in [1 .. m -> Nat]
    BY <1>1
  <2> QED BY <1>1, <2>1
<1>3. Increasing(q)
  BY <1>1 DEF Increasing
<1>4. {q[n] : n \in DOMAIN q} = I
  <2>1. \A n \in DOMAIN q : q[n] \in I
    BY <1>1
  <2>2. ASSUME NEW i \in I PROVE \E n \in DOMAIN q : q[n] = i
    <3>1. CASE i < k
      BY <3>1, <1>1
    <3>2. CASE i > k
      <4>1. i - 1 \in 1 .. m /\ q[i - 1] = i
        BY <3>2, <1>1
      <4> QED BY <4>1
    <3> QED BY <3>1, <3>2, <1>1
  <2> QED BY <2>1, <2>2
<1>5. \A n \in 1 .. m : q[n] = IF n < k THEN n ELSE n + 1
  OBVIOUS
<1> HIDE DEF q, I
<1>6. Cardinality(I) = m /\ \A n \in 1 .. m : q[n] = Nth(I, n)
  BY <1>2, <1>3, <1>4, IncreasingIsNth
<1>7. s \in Seq(S) /\ DOMAIN s = 1 .. m /\ Len(s) = m
  BY <1>6, AtPositions DEF I
<1>8. \A n \in 1 .. m : s[n] = t[IF n < k THEN n ELSE n + 1]
  BY <1>5, <1>6 DEF At
<1> HIDE DEF s
<1>9. ASSUME NEW n \in 1 .. m + 1 PROVE t[n] = IF n < k THEN s[n] ELSE IF n = k THEN t[k] ELSE s[n - 1]
  <2>1. CASE n < k
    BY <2>1, <1>1, <1>8
  <2>2. CASE n > k
    <3>1. n - 1 \in 1 .. m /\ ~(n - 1 < k) /\ n - 1 + 1 = n
      BY <2>2, <1>1
    <3> QED BY <3>1, <2>2, <1>1, <1>8
  <2> QED BY <2>1, <2>2, <1>1
<1>10. m + 1 = Len(t)
  BY <1>1
<1>11. With(t, s, t[k], k)
  BY <1>1, <1>7, <1>9, <1>10 DEF With
<1> QED BY <1>7, <1>11 DEF s, I

LEMMA RemovedWith ==
    ASSUME NEW S, NEW t \in Seq(S), NEW k \in DOMAIN t
    PROVE  RemoveAt(t, k) \in Seq(S) /\ With(t, RemoveAt(t, k), t[k], k)
<1> DEFINE a == SubSeq(t, 1, k - 1)
           b == SubSeq(t, k + 1, Len(t))
           s == a \o b
<1>1. Len(t) \in Nat /\ DOMAIN t = 1 .. Len(t) /\ k \in 1 .. Len(t)
  OBVIOUS
<1>2. a \in Seq(S) /\ Len(a) = k - 1 /\ \A n \in 1 .. k - 1 : a[n] = t[n]
  BY <1>1
<1>3. b \in Seq(S) /\ Len(b) = Len(t) - k /\ \A n \in 1 .. Len(t) - k : b[n] = t[k + n]
  BY <1>1
<1> HIDE DEF a, b
<1>4. /\ s \in Seq(S) /\ Len(s) = Len(a) + Len(b)
      /\ \A n \in 1 .. Len(a) + Len(b) : s[n] = IF n <= Len(a) THEN a[n] ELSE b[n - Len(a)]
  BY <1>2, <1>3
<1> HIDE DEF s
<1>8. Len(s) = Len(t) - 1
  BY <1>1, <1>2, <1>3, <1>4
<1>5. ASSUME NEW n \in 1 .. Len(t) PROVE t[n] = IF n < k THEN s[n] ELSE IF n = k THEN t[k] ELSE s[n - 1]
  <2>0. n \in Int /\ k \in Int /\ Len(t) \in Int /\ 1 <= n /\ n <= Len(t) /\ 1 <= k /\ k <= Len(t)
    BY <1>1
  <2>1. CASE n < k
    <3>1. n \in 1 .. k - 1 /\ n <= Len(a) /\ n \in 1 .. Len(a) + Len(b)
      BY <2>0, <2>1, <1>2, <1>3
    <3> QED BY <3>1, <2>1, <1>2, <1>4
  <2>2. CASE n > k
    <3>1. n - k \in 1 .. Len(t) - k /\ k + (n - k) = n
      BY <2>0, <2>2
    <3>2. n - 1 \in 1 .. Len(t) - 1 /\ ~(n - 1 <= k - 1) /\ (n - 1) - (k - 1) = n - k
      BY <2>0, <2>2
    <3>3. Len(a) + Len(b) = Len(t) - 1
      BY <1>4, <1>8
    <3>4. s[n - 1] = b[n - k]
      BY <3>2, <3>3, <1>2, <1>4
    <3>5. b[n - k] = t[n]
      BY <3>1, <1>3
    <3>6. ~(n < k) /\ n # k
      BY <2>0, <2>2
    <3> QED BY <3>4, <3>5, <3>6
  <2> QED BY <2>0, <2>1, <2>2
<1>6. Len(s) + 1 = Len(t)
  BY <1>1, <1>8
<1>7. With(t, s, t[k], k)
  BY <1>1, <1>5, <1>6 DEF With
<1> QED BY <1>4, <1>7 DEF RemoveAt, s, a, b

(* Where every element passes, or none does.                                 *)
LEMMA AllWhere ==
    ASSUME NEW S, NEW s \in Seq(S)
    PROVE  At(s, DOMAIN s) = s
<1> DEFINE q == [n \in 1 .. Len(s) |-> n]
<1>1. Len(s) \in Nat /\ DOMAIN s = 1 .. Len(s)
  OBVIOUS
<1>2. q \in Seq(Nat) /\ Len(q) = Len(s) /\ DOMAIN q = 1 .. Len(s)
  <2>1. q \in [1 .. Len(s) -> Nat]
    BY <1>1
  <2> QED BY <1>1, <2>1
<1>3. Increasing(q) /\ {q[n] : n \in DOMAIN q} = DOMAIN s
  BY <1>1 DEF Increasing
<1>4. \A n \in 1 .. Len(s) : q[n] = n
  OBVIOUS
<1> HIDE DEF q
<1>5. Cardinality(DOMAIN s) = Len(s) /\ \A n \in 1 .. Len(s) : Nth(DOMAIN s, n) = n
  BY <1>2, <1>3, <1>4, IncreasingIsNth
<1> QED BY <1>1, <1>5 DEF At

LEMMA NoneWhere ==
    ASSUME NEW S, NEW s \in Seq(S), NEW t
    PROVE  s \o At(t, {}) = s
<1>1. At(t, {}) = <<>>
  BY FS_EmptySet DEF At
<1> QED BY <1>1

-----------------------------------------------------------------------------
(* What puts the lists of a class back.                                      *)

LEMMA OthersWithout ==
    ASSUME NEW ps \in Seq(PropertyDef), NEW k \in DOMAIN ps,
           \A n \in DOMAIN ps : ps[n].name = ps[k].name => n = k
    PROVE  Without(ps, ps[k].name) \in Seq(PropertyDef) /\ With(ps, Without(ps, ps[k].name), ps[k], k)
<1> DEFINE I == {i \in DOMAIN ps : ps[i].name # ps[k].name}
<1>1. I = DOMAIN ps \ {k}
  OBVIOUS
<1>2. Without(ps, ps[k].name) = At(ps, I)
  BY DEF Without, Where
<1> HIDE DEF I
<1> QED BY <1>1, <1>2, OthersWith

LEMMA PutAndTaken ==
    ASSUME NEW ps \in Seq(PropertyDef), NEW qs \in Seq(PropertyDef), NEW p, NEW k, With(qs, ps, p, k),
           p.name \notin Names(ps)
    PROVE  Without(qs, p.name) = ps /\ Position(qs, p.name) = k /\ qs[k] = p
<1>1. /\ k \in 1 .. Len(ps) + 1 /\ DOMAIN qs = 1 .. Len(ps) + 1 /\ DOMAIN ps = 1 .. Len(ps) /\ Len(ps) \in Nat
      /\ \A n \in 1 .. Len(ps) + 1 : qs[n] = IF n < k THEN ps[n] ELSE IF n = k THEN p ELSE ps[n - 1]
  BY DEF With
<1>2. qs[k] = p
  BY <1>1
<1>3. ASSUME NEW n \in DOMAIN qs, qs[n].name = p.name PROVE n = k
  <2>1. CASE n < k
    <3>1. n \in DOMAIN ps /\ qs[n] = ps[n]
      BY <2>1, <1>1
    <3> QED BY <3>1, <1>3 DEF Names
  <2>2. CASE n > k
    <3>1. n - 1 \in DOMAIN ps /\ qs[n] = ps[n - 1]
      BY <2>2, <1>1
    <3> QED BY <3>1, <1>3 DEF Names
  <2> QED BY <2>1, <2>2, <1>1
<1>4. Without(qs, p.name) = ps
  <2>1. Without(qs, p.name) \in Seq(PropertyDef) /\ With(qs, Without(qs, p.name), p, k)
    BY <1>1, <1>2, <1>3, OthersWithout
  <2> QED BY <2>1, SameWith
<1>5. Position(qs, p.name) = k
  BY <1>1, <1>2, <1>3 DEF Position
<1> QED BY <1>2, <1>4, <1>5

LEMMA TakenAndPut ==
    ASSUME NEW ps \in Seq(PropertyDef), NEW name, name \in Names(ps), NamesOnce(ps)
    PROVE  InsertedAt(Without(ps, name), ps[Position(ps, name)], Position(ps, name)) = ps
<1> DEFINE k == Position(ps, name)
           rest == Without(ps, name)
<1>1. k \in DOMAIN ps /\ ps[k].name = name
  BY PropFound
<1> HIDE DEF k
<1>2. rest \in Seq(PropertyDef) /\ With(ps, rest, ps[k], k)
  BY <1>1, OthersWithout DEF NamesOnce
<1> HIDE DEF rest
<1>3. ps[k] \in PropertyDef /\ k \in 1 .. Len(rest) + 1 /\ k \in Nat
  BY <1>1, <1>2 DEF With
<1>4. /\ InsertedAt(rest, ps[k], k) \in Seq(PropertyDef)
      /\ With(InsertedAt(rest, ps[k], k), rest, ps[k], k)
  <2>1. Place(rest, k) = k
    BY <1>3 DEF Place
  <2> QED BY <1>2, <1>3, <2>1, InsertedWith
<1> QED BY <1>2, <1>4, SameWith DEF k, rest

LEMMA RenamedBack ==
    ASSUME NEW ps \in Seq(PropertyDef), NEW a, NEW b, b \notin Names(ps)
    PROVE  Changed(Changed(ps, a, LAMBDA p : [p EXCEPT !.name = b]), b, LAMBDA p : [p EXCEPT !.name = a]) = ps
<1> DEFINE there == Changed(ps, a, LAMBDA p : [p EXCEPT !.name = b])
           back == Changed(there, b, LAMBDA p : [p EXCEPT !.name = a])
<1>1. DOMAIN back = DOMAIN ps /\ back = [n \in DOMAIN ps |-> back[n]]
  BY DEF Changed
<1>2. ASSUME NEW n \in DOMAIN ps PROVE back[n] = ps[n]
  <2>1. ps[n] \in PropertyDef /\ ps[n].name # b
    BY DEF Names
  <2>2. there[n] = IF ps[n].name = a THEN [ps[n] EXCEPT !.name = b] ELSE ps[n]
    BY DEF Changed
  <2>3. back[n] = IF there[n].name = b THEN [there[n] EXCEPT !.name = a] ELSE there[n]
    BY DEF Changed
  <2> HIDE DEF there, back
  <2>4. CASE ps[n].name = a
    <3>1. there[n].name = b /\ back[n] = [there[n] EXCEPT !.name = a]
      BY <2>1, <2>2, <2>3, <2>4 DEF PropertyDef
    <3> QED BY <3>1, <2>1, <2>2, <2>4 DEF PropertyDef
  <2>5. CASE ps[n].name # a
    BY <2>1, <2>2, <2>3, <2>5
  <2> QED BY <2>4, <2>5
<1>3. ps = [n \in DOMAIN ps |-> ps[n]]
  OBVIOUS
<1> HIDE DEF there, back
<1>4. back = ps
  BY <1>1, <1>2, <1>3
<1> QED BY <1>4 DEF there, back

LEMMA ReplacedBack ==
    ASSUME NEW s \in Seq(STRING), NEW a, NEW b, b \notin ToSet(s)
    PROVE  ReplaceAll(ReplaceAll(s, a, b), b, a) = s
BY DEF ReplaceAll, ToSet

(* A retyped property keeps its name, and its unit can be moved back.        *)
LEMMA RetypedBack ==
    ASSUME NEW ps \in Seq(PropertyDef), NEW a, NEW by \in Int
    PROVE  Changed(Changed(ps, a, LAMBDA p : [p EXCEPT !.unit = @ + by]),
                   a, LAMBDA p : [p EXCEPT !.unit = @ + (0 - by)]) = ps
<1> DEFINE there == Changed(ps, a, LAMBDA p : [p EXCEPT !.unit = @ + by])
           back == Changed(there, a, LAMBDA p : [p EXCEPT !.unit = @ + (0 - by)])
<1>1. DOMAIN back = DOMAIN ps /\ back = [n \in DOMAIN ps |-> back[n]]
  BY DEF Changed
<1>2. ASSUME NEW n \in DOMAIN ps PROVE back[n] = ps[n]
  <2>1. ps[n] \in PropertyDef
    OBVIOUS
  <2>2. there[n] = IF ps[n].name = a THEN [ps[n] EXCEPT !.unit = @ + by] ELSE ps[n]
    BY DEF Changed
  <2>3. back[n] = IF there[n].name = a THEN [there[n] EXCEPT !.unit = @ + (0 - by)] ELSE there[n]
    BY DEF Changed
  <2> HIDE DEF there, back
  <2>4. CASE ps[n].name = a
    <3>1. there[n].name = a /\ there[n].unit = ps[n].unit + by
      BY <2>1, <2>2, <2>4 DEF PropertyDef
    <3>2. back[n] = [there[n] EXCEPT !.unit = there[n].unit + (0 - by)]
      BY <2>3, <3>1
    <3>3. ps[n].unit \in Int /\ ps[n].unit + by + (0 - by) = ps[n].unit
      BY <2>1 DEF PropertyDef
    <3> QED BY <3>1, <3>2, <3>3, <2>1, <2>2, <2>4 DEF PropertyDef
  <2>5. CASE ps[n].name # a
    BY <2>1, <2>2, <2>3, <2>5
  <2> QED BY <2>4, <2>5
<1>3. ps = [n \in DOMAIN ps |-> ps[n]]
  OBVIOUS
<1> HIDE DEF there, back
<1>4. back = ps
  BY <1>1, <1>2, <1>3
<1> QED BY <1>4 DEF there, back

(* The properties of a name get a range and a unit, and the old ones again.  *)
Reset(ps, name, range, unit) == Changed(ps, name, LAMBDA p : [p EXCEPT !.range = range, !.unit = unit])

LEMMA ResetIs ==
    ASSUME NEW ps \in Seq(PropertyDef), NEW name, NEW range, NEW unit, NEW n \in DOMAIN ps
    PROVE  /\ Reset(ps, name, range, unit)[n].name = ps[n].name
           /\ ps[n].name = name => Reset(ps, name, range, unit)[n].unit = unit
<1>1. ps[n] \in PropertyDef
  OBVIOUS
<1> QED BY <1>1 DEF Reset, Changed, PropertyDef

LEMMA RerangedBack ==
    ASSUME NEW ps \in Seq(PropertyDef), NEW name, NEW range, NEW unit, NEW range0, NEW unit0,
           \A n \in DOMAIN ps : ps[n].name = name => ps[n].range = range0 /\ ps[n].unit = unit0
    PROVE  Reset(Reset(ps, name, range, unit), name, range0, unit0) = ps
<1> DEFINE there == Reset(ps, name, range, unit)
           back == Reset(there, name, range0, unit0)
<1>0. \A n \in DOMAIN ps : there[n] = IF ps[n].name = name THEN [ps[n] EXCEPT !.range = range, !.unit = unit] ELSE ps[n]
  BY DEF Reset, Changed
<1>1. DOMAIN back = DOMAIN ps /\ back = [n \in DOMAIN ps |-> back[n]]
  BY DEF Reset, Changed
<1>2. ASSUME NEW n \in DOMAIN ps PROVE back[n] = ps[n]
  <2>1. ps[n] \in PropertyDef
    OBVIOUS
  <2>2. there[n] = IF ps[n].name = name THEN [ps[n] EXCEPT !.range = range, !.unit = unit] ELSE ps[n]
    BY <1>0
  <2>3. back[n] = IF there[n].name = name THEN [there[n] EXCEPT !.range = range0, !.unit = unit0] ELSE there[n]
    BY DEF Reset, Changed
  <2> HIDE DEF there, back
  <2>4. CASE ps[n].name = name
    <3>1. there[n].name = name
      BY <2>1, <2>2, <2>4 DEF PropertyDef
    <3>2. ps[n].range = range0 /\ ps[n].unit = unit0
      BY <2>4
    <3>3. back[n] = [[ps[n] EXCEPT !.range = range, !.unit = unit] EXCEPT !.range = ps[n].range, !.unit = ps[n].unit]
      BY <2>2, <2>3, <2>4, <3>1, <3>2
    <3> QED BY <2>1, <3>3 DEF PropertyDef
  <2>5. CASE ps[n].name # name
    BY <2>2, <2>3, <2>5
  <2> QED BY <2>4, <2>5
<1>3. ps = [n \in DOMAIN ps |-> ps[n]]
  OBVIOUS
<1> HIDE DEF there, back
<1>4. back = ps
  BY <1>1, <1>2, <1>3
<1> QED BY <1>4 DEF there, back

-----------------------------------------------------------------------------
(* Each operator, told by the versions before and after it and its inverse.  *)

AddedClass(o, op, inverse, post) ==
    /\ op.uri \notin DOMAIN o
    /\ post = Plus(o, op.uri, NewClass(op.name, {op.parent} \ {NoClass}, <<>>))
    /\ inverse = [op |-> "DropClass", uri |-> op.uri]
DroppedClass(o, op, inverse, post) ==
    post = Minus(o, {op.uri}) /\ inverse = NoOp
RenamedClass(o, op, inverse, post) ==
    /\ op.uri \in DOMAIN o
    /\ post = [o EXCEPT ![op.uri].name = op.name]
    /\ inverse.op = "RenameClass" /\ inverse.uri = op.uri /\ inverse.name = o[op.uri].name
RenamedProperty(o, op, inverse, post) ==
    /\ op.uri \in DOMAIN o /\ op.name \notin Names(o[op.uri].props)
    /\ post = [o EXCEPT ![op.uri].props = Changed(@, op.prop, LAMBDA p : [p EXCEPT !.name = op.name]),
                        ![op.uri].shapes = ReplaceAll(@, op.prop, op.name)]
    /\ inverse.op = "RenameProperty" /\ inverse.uri = op.uri /\ inverse.prop = op.name /\ inverse.name = op.prop
RetiredClass(o, op, inverse, post) ==
    /\ op.uri \in DOMAIN o /\ ~o[op.uri].retired
    /\ post = [o EXCEPT ![op.uri].retired = TRUE]
    /\ inverse.op = "UnretireClass" /\ inverse.uri = op.uri
UnretiredClass(o, op, inverse, post) ==
    /\ op.uri \in DOMAIN o /\ o[op.uri].retired
    /\ post = [o EXCEPT ![op.uri].retired = FALSE]
    /\ inverse.op = "RetireClass" /\ inverse.uri = op.uri
AddedProperty(o, op, inverse, post) ==
    /\ op.uri \in DOMAIN o /\ op.prop \notin Names(o[op.uri].props)
    /\ \E p \in PropertyDef : p.name = op.prop /\ post = [o EXCEPT ![op.uri].props = Append(@, p)]
    /\ inverse.op = "DropProperty" /\ inverse.uri = op.uri /\ inverse.prop = op.prop
DroppedProperty(o, op, inverse, post) ==
    /\ op.uri \in DOMAIN o
    /\ post = [o EXCEPT ![op.uri].props = Without(@, op.prop), ![op.uri].shapes = Where(@, LAMBDA s : s # op.prop)]
    /\ inverse = NoOp
AddedFacet(o, op, inverse, post) ==
    /\ op.uri \in DOMAIN o /\ op.prop \in STRING /\ op.index \in Nat
    /\ post = [o EXCEPT ![op.uri].shapes = InsertedAt(@, op.prop, op.index)]
    /\ inverse.op = "RetireFacet" /\ inverse.uri = op.uri /\ inverse.prop = op.prop
RetiredFacet(o, op, inverse, post) ==
    /\ op.uri \in DOMAIN o
    /\ \E at \in DOMAIN o[op.uri].shapes :
          /\ o[op.uri].shapes[at] = op.prop
          /\ post = [o EXCEPT ![op.uri].shapes = RemoveAt(@, at)]
          /\ inverse.op = "AddFacet" /\ inverse.uri = op.uri /\ inverse.prop = op.prop /\ inverse.index = at
RetypedProperty(o, op, inverse, post) ==
    /\ op.uri \in DOMAIN o /\ op.by \in Int
    /\ post = Retyped(o, op.uri, op.prop, op.by)
    /\ inverse.op = "RetypeProperty" /\ inverse.uri = op.uri /\ inverse.prop = op.prop /\ inverse.by = 0 - op.by
GeneralizedProperty(o, op, inverse, post) ==
    /\ op.uri \in DOMAIN o /\ op.parent \in DOMAIN o /\ op.uri # op.parent /\ op.index \in Nat
    /\ HasProp(o, op.uri, op.prop) /\ ~HasProp(o, op.parent, op.prop)
    /\ post = MovedProp(o, op.uri, op.parent, op.prop, op.index)
    /\ inverse.op = "Specialize" /\ inverse.uri = op.uri /\ inverse.parent = op.parent /\ inverse.prop = op.prop
    /\ inverse.index = Position(o[op.uri].props, op.prop)
SpecializedProperty(o, op, inverse, post) ==
    /\ op.uri \in DOMAIN o /\ op.parent \in DOMAIN o /\ op.index \in Nat
    /\ HasProp(o, op.parent, op.prop)
    /\ post = MovedProp(o, op.parent, op.uri, op.prop, op.index)
    /\ inverse.op = "Generalize" /\ inverse.uri = op.uri /\ inverse.parent = op.parent /\ inverse.prop = op.prop
    /\ inverse.index = Position(o[op.parent].props, op.prop)
PartedClass(o, op, inverse, post) ==
    LET c1 == op.parts[1].uri
        c2 == op.parts[2].uri
    IN  /\ op.uri \in DOMAIN o /\ {c1, c2} \cap DOMAIN o = {} /\ c1 # c2
        /\ post = Plus(Plus(Minus(o, {op.uri}), c1, [o[op.uri] EXCEPT !.name = op.parts[1].name]),
                       c2, [o[op.uri] EXCEPT !.name = op.parts[2].name])
        /\ inverse.op = "MergeClasses" /\ inverse.uri = op.uri /\ inverse.name = o[op.uri].name
        /\ inverse.parts = op.parts
MergedClasses(o, op, inverse, post) ==
    LET c1 == op.parts[1].uri
        c2 == op.parts[2].uri
    IN  /\ {c1, c2} \subseteq DOMAIN o /\ op.uri \notin DOMAIN o /\ c1 # c2
        /\ \E D : /\ \A x \in Names(o[c2].props) : HasProp(o, c1, x) => x \in D
                  /\ post = MergedInto(o, c1, c2, op.uri, op.name, D) /\ D \subseteq Names(o[c2].props)
        /\ \/ inverse = NoOp
           \/ /\ inverse.op = "SplitClass" /\ inverse.uri = op.uri
              /\ inverse.parts = <<[uri |-> c1, name |-> o[c1].name], [uri |-> c2, name |-> o[c2].name]>>
PromotedProperty(o, op, inverse, post) ==
    /\ op.uri \in DOMAIN o /\ op.new \notin DOMAIN o
    /\ HasProp(o, op.uri, op.prop) /\ Prop(o, op.uri, op.prop).range = NoClass
    /\ post = Promoted(o, op.uri, op.prop, op.new, op.name)
    /\ inverse.op = "DemoteClass" /\ inverse.uri = op.uri /\ inverse.prop = op.prop /\ inverse.new = op.new
DemotedClass(o, op, inverse, post) ==
    /\ op.uri \in DOMAIN o /\ op.new \in DOMAIN o
    /\ HasProp(o, op.uri, op.prop) /\ Prop(o, op.uri, op.prop).range = op.new
    /\ post = Demoted(o, op.uri, op.prop, op.new)
    /\ inverse.op = "PromoteProperty" /\ inverse.uri = op.uri /\ inverse.prop = op.prop /\ inverse.new = op.new
    /\ inverse.name = o[op.new].name

Took(o, op, inverse, post) ==
    \/ op.op = "AddClass" /\ AddedClass(o, op, inverse, post)
    \/ op.op = "DropClass" /\ DroppedClass(o, op, inverse, post)
    \/ op.op = "RenameClass" /\ RenamedClass(o, op, inverse, post)
    \/ op.op = "RenameProperty" /\ RenamedProperty(o, op, inverse, post)
    \/ op.op = "RetireClass" /\ RetiredClass(o, op, inverse, post)
    \/ op.op = "UnretireClass" /\ UnretiredClass(o, op, inverse, post)
    \/ op.op = "AddProperty" /\ AddedProperty(o, op, inverse, post)
    \/ op.op = "DropProperty" /\ DroppedProperty(o, op, inverse, post)
    \/ op.op = "AddFacet" /\ AddedFacet(o, op, inverse, post)
    \/ op.op = "RetireFacet" /\ RetiredFacet(o, op, inverse, post)
    \/ op.op = "RetypeProperty" /\ RetypedProperty(o, op, inverse, post)
    \/ op.op = "Generalize" /\ GeneralizedProperty(o, op, inverse, post)
    \/ op.op = "Specialize" /\ SpecializedProperty(o, op, inverse, post)
    \/ op.op = "SplitClass" /\ PartedClass(o, op, inverse, post)
    \/ op.op = "MergeClasses" /\ MergedClasses(o, op, inverse, post)
    \/ op.op = "PromoteProperty" /\ PromotedProperty(o, op, inverse, post)
    \/ op.op = "DemoteClass" /\ DemotedClass(o, op, inverse, post)

-----------------------------------------------------------------------------
(* Each operator and its inverse. *)

(* Two ontologies are told apart by a list, a name, the parents or the mark  *)
(* of a class.                                                               *)
Alike(d, e) ==
    /\ d.name = e.name /\ d.parents = e.parents /\ d.props = e.props /\ d.shapes = e.shapes
    /\ d.retired = e.retired

LEMMA SameOntology ==
    ASSUME NEW o, NEW post, WellMade(o), WellMade(post), DOMAIN post = DOMAIN o,
           \A c \in DOMAIN o : Alike(post[c], o[c])
    PROVE  post = o
<1>1. \A d, e \in ClassDef : Alike(d, e) => d = e
  BY DEF ClassDef, Alike
<1>2. o \in [DOMAIN o -> ClassDef] /\ post \in [DOMAIN o -> ClassDef]
  BY DEF WellMade, IsOntology
<1> QED BY <1>1, <1>2

(* All but one class stay.                                                   *)
LEMMA SameButOne ==
    ASSUME NEW o, NEW post, WellMade(o), WellMade(post), DOMAIN post = DOMAIN o, NEW u \in DOMAIN o,
           \A c \in DOMAIN o \ {u} : post[c] = o[c], Alike(post[u], o[u])
    PROVE  post = o
<1>1. \A c \in DOMAIN o : Alike(post[c], o[c])
  BY DEF Alike
<1> QED BY <1>1, SameOntology

LEMMA AddClassUndone ==
    ASSUME NEW o, NEW op, NEW inverse, NEW mid, NEW again, NEW post, WellMade(o), WellMade(mid), WellMade(post),
           AddedClass(o, op, inverse, mid), DroppedClass(mid, inverse, again, post)
    PROVE  post = o
<1>1. /\ op.uri \notin DOMAIN o
      /\ mid = Plus(o, op.uri, NewClass(op.name, {op.parent} \ {NoClass}, <<>>))
      /\ post = Minus(mid, {op.uri})
  BY DEF AddedClass, DroppedClass
<1>2. DOMAIN post = DOMAIN o /\ \A c \in DOMAIN o : post[c] = o[c]
  BY <1>1 DEF Plus, Minus
<1> QED BY <1>2, SameOntology DEF Alike

LEMMA RenameClassUndone ==
    ASSUME NEW o, NEW op, NEW inverse, NEW mid, NEW again, NEW post, WellMade(o), WellMade(mid), WellMade(post),
           RenamedClass(o, op, inverse, mid), RenamedClass(mid, inverse, again, post)
    PROVE  post = o
<1>1. /\ op.uri \in DOMAIN o /\ mid = [o EXCEPT ![op.uri].name = op.name]
      /\ post = [mid EXCEPT ![op.uri].name = o[op.uri].name]
  BY DEF RenamedClass
<1>2. o[op.uri] \in ClassDef /\ mid[op.uri] \in ClassDef /\ op.uri \in DOMAIN mid
  BY <1>1, ClassTypes
<1>3. DOMAIN post = DOMAIN o /\ \A c \in DOMAIN o \ {op.uri} : post[c] = o[c]
  BY <1>1
<1>4. Alike(post[op.uri], o[op.uri])
  BY <1>1, <1>2 DEF Alike, ClassDef
<1>5. op.uri \in DOMAIN o
  BY <1>1
<1> QED BY <1>3, <1>4, <1>5, SameButOne

LEMMA RenamePropertyUndone ==
    ASSUME NEW o, NEW op, NEW inverse, NEW mid, NEW again, NEW post, WellMade(o), WellMade(mid), WellMade(post),
           RenamedProperty(o, op, inverse, mid), RenamedProperty(mid, inverse, again, post),
           op.name \notin Facets(o, op.uri)
    PROVE  post = o
<1> DEFINE u == op.uri
           ps == Changed(o[u].props, op.prop, LAMBDA p : [p EXCEPT !.name = op.name])
           ss == ReplaceAll(o[u].shapes, op.prop, op.name)
           qs == Changed(ps, op.name, LAMBDA p : [p EXCEPT !.name = op.prop])
           ts == ReplaceAll(ss, op.name, op.prop)
<1>1. /\ u \in DOMAIN o /\ op.name \notin Names(o[u].props)
      /\ mid = [o EXCEPT ![u].props = Changed(@, op.prop, LAMBDA p : [p EXCEPT !.name = op.name]),
                         ![u].shapes = ReplaceAll(@, op.prop, op.name)]
  BY DEF RenamedProperty
<1>2. post = [mid EXCEPT ![u].props = Changed(@, op.name, LAMBDA p : [p EXCEPT !.name = op.prop]),
                         ![u].shapes = ReplaceAll(@, op.name, op.prop)]
  <2>1. inverse.uri = u /\ inverse.prop = op.name /\ inverse.name = op.prop
    BY DEF RenamedProperty
  <2> QED BY <2>1 DEF RenamedProperty
<1>3. /\ o[u] \in ClassDef /\ mid[u] \in ClassDef /\ u \in DOMAIN mid
      /\ o[u].props \in Seq(PropertyDef) /\ o[u].shapes \in Seq(STRING)
  BY <1>1, ClassTypes
<1>4. qs = o[u].props
  BY <1>1, <1>3, RenamedBack
<1>5. ts = o[u].shapes
  BY <1>3, ReplacedBack DEF Facets
<1>6. mid = [o EXCEPT ![u] = [o[u] EXCEPT !.props = ps, !.shapes = ss]]
  BY <1>1
<1> HIDE DEF ps, ss
<1>7. mid[u].props = ps /\ mid[u].shapes = ss
  <2> HIDE DEF qs, ts
  <2>1. mid[u] = [o[u] EXCEPT !.props = ps, !.shapes = ss]
    BY <1>1, <1>6
  <2> QED BY <2>1, <1>3 DEF ClassDef
<1>8. post = [mid EXCEPT ![u] = [mid[u] EXCEPT !.props = qs, !.shapes = ts]]
  BY <1>2, <1>7
<1> HIDE DEF qs, ts
<1>9. DOMAIN post = DOMAIN o /\ \A c \in DOMAIN o \ {u} : post[c] = o[c]
  BY <1>6, <1>8
<1>10. Alike(post[u], o[u])
  <2>1. post[u] = [mid[u] EXCEPT !.props = qs, !.shapes = ts]
    BY <1>3, <1>8
  <2>2. mid[u] = [o[u] EXCEPT !.props = ps, !.shapes = ss]
    BY <1>1, <1>6
  <2> QED BY <2>1, <2>2, <1>3, <1>4, <1>5 DEF Alike, ClassDef
<1>11. u \in DOMAIN o
  BY <1>1
<1> HIDE DEF u
<1> QED BY <1>9, <1>10, <1>11, SameButOne

LEMMA RetireClassUndone ==
    ASSUME NEW o, NEW op, NEW inverse, NEW mid, NEW again, NEW post, WellMade(o), WellMade(mid), WellMade(post),
           \/ RetiredClass(o, op, inverse, mid) /\ UnretiredClass(mid, inverse, again, post)
           \/ UnretiredClass(o, op, inverse, mid) /\ RetiredClass(mid, inverse, again, post)
    PROVE  post = o
<1>1. PICK was \in BOOLEAN :
         /\ op.uri \in DOMAIN o /\ o[op.uri].retired = was /\ mid = [o EXCEPT ![op.uri].retired = ~was]
         /\ post = [mid EXCEPT ![op.uri].retired = was]
  <2>1. op.uri \in DOMAIN o => o[op.uri].retired \in BOOLEAN
    BY ClassTypes DEF ClassDef
  <2> QED BY <2>1 DEF RetiredClass, UnretiredClass
<1>2. o[op.uri] \in ClassDef /\ mid[op.uri] \in ClassDef /\ op.uri \in DOMAIN mid
  BY <1>1, ClassTypes
<1>3. DOMAIN post = DOMAIN o /\ \A c \in DOMAIN o \ {op.uri} : post[c] = o[c]
  BY <1>1
<1>4. Alike(post[op.uri], o[op.uri])
  BY <1>1, <1>2 DEF Alike, ClassDef
<1>5. op.uri \in DOMAIN o
  BY <1>1
<1> QED BY <1>3, <1>4, <1>5, SameButOne

LEMMA AddPropertyUndone ==
    ASSUME NEW o, NEW op, NEW inverse, NEW mid, NEW again, NEW post, WellMade(o), WellMade(mid), WellMade(post),
           AddedProperty(o, op, inverse, mid), DroppedProperty(mid, inverse, again, post),
           op.prop \notin Facets(o, op.uri)
    PROVE  post = o
<1> DEFINE u == op.uri
           shapes == o[u].shapes
           I == {i \in DOMAIN shapes : shapes[i] # op.prop}
<1>1. PICK p \in PropertyDef : p.name = op.prop /\ mid = [o EXCEPT ![u].props = Append(@, p)]
  BY DEF AddedProperty
<1>2. u \in DOMAIN o /\ p.name \notin Names(o[u].props)
  BY <1>1 DEF AddedProperty
<1>3. post = [mid EXCEPT ![u].props = Without(@, op.prop), ![u].shapes = Where(@, LAMBDA s : s # op.prop)]
  <2>1. inverse.uri = u /\ inverse.prop = op.prop
    BY DEF AddedProperty
  <2> QED BY <2>1 DEF DroppedProperty
<1>4. o[u] \in ClassDef /\ mid[u] \in ClassDef /\ o[u].props \in Seq(PropertyDef) /\ shapes \in Seq(STRING)
  BY <1>1, <1>2, ClassTypes
<1>5. mid[u].props = Append(o[u].props, p) /\ mid[u].shapes = shapes
  BY <1>1, <1>2, <1>4 DEF ClassDef
<1>6. Without(mid[u].props, op.prop) = o[u].props
  <2> DEFINE ps == o[u].props
             qs == Append(ps, p)
  <2>1. qs \in Seq(PropertyDef) /\ With(qs, ps, p, Len(ps) + 1)
    BY <1>4, AppendedWith
  <2>2. ps \in Seq(PropertyDef) /\ p.name \notin Names(ps)
    BY <1>2, <1>4
  <2>3. mid[u].props = qs /\ p.name = op.prop
    BY <1>1, <1>5
  <2> HIDE DEF ps, qs
  <2>4. Without(qs, p.name) = ps
    BY <2>1, <2>2, PutAndTaken
  <2> QED BY <2>3, <2>4 DEF ps
<1>7. Where(mid[u].shapes, LAMBDA s : s # op.prop) = shapes
  <2>1. Where(mid[u].shapes, LAMBDA s : s # op.prop) = At(shapes, I)
    BY <1>5 DEF Where
  <2>2. I = DOMAIN shapes
    BY <1>4 DEF Facets, ToSet
  <2> HIDE DEF I
  <2> QED BY <2>1, <2>2, <1>4, AllWhere
<1>8. post = [mid EXCEPT ![u] = [mid[u] EXCEPT !.props = o[u].props, !.shapes = shapes]]
  <2>1. post = [mid EXCEPT ![u] = [mid[u] EXCEPT !.props = Without(mid[u].props, op.prop),
                                                 !.shapes = Where(mid[u].shapes, LAMBDA s : s # op.prop)]]
    BY <1>3
  <2> QED BY <2>1, <1>6, <1>7
<1>9. DOMAIN post = DOMAIN o /\ \A c \in DOMAIN o \ {u} : post[c] = o[c]
  BY <1>1, <1>8
<1>10. Alike(post[u], o[u])
  <2>1. post[u] = [mid[u] EXCEPT !.props = o[u].props, !.shapes = shapes]
    BY <1>1, <1>2, <1>8
  <2>2. mid[u] = [o[u] EXCEPT !.props = Append(o[u].props, p)]
    BY <1>1, <1>2
  <2> QED BY <2>1, <2>2, <1>4 DEF Alike, ClassDef
<1> HIDE DEF u, shapes
<1> QED BY <1>2, <1>9, <1>10, SameButOne

Reshaped(o, u, ss) == [o EXCEPT ![u].shapes = ss]

LEMMA FacetUndone ==
    ASSUME NEW o, NEW u \in DOMAIN o, NEW ss, NEW mid, NEW post, WellMade(o), WellMade(mid), WellMade(post),
           mid = Reshaped(o, u, ss), post = Reshaped(mid, u, o[u].shapes)
    PROVE  post = o
<1>1. o[u] \in ClassDef /\ mid[u] \in ClassDef
  BY ClassTypes DEF Reshaped
<1>2. DOMAIN post = DOMAIN o /\ \A c \in DOMAIN o \ {u} : post[c] = o[c]
  BY DEF Reshaped
<1>3. Alike(post[u], o[u])
  BY <1>1 DEF Alike, ClassDef, Reshaped
<1> QED BY <1>2, <1>3, SameButOne

LEMMA AddFacetUndone ==
    ASSUME NEW o, NEW op, NEW inverse, NEW mid, NEW again, NEW post, WellMade(o), WellMade(mid), WellMade(post),
           AddedFacet(o, op, inverse, mid), RetiredFacet(mid, inverse, again, post),
           op.prop \notin Facets(o, op.uri)
    PROVE  post = o
<1> DEFINE u == op.uri
           shapes == o[u].shapes
           ss == InsertedAt(shapes, op.prop, op.index)
<1>1. /\ u \in DOMAIN o /\ op.prop \in STRING /\ op.index \in Nat
      /\ mid = [o EXCEPT ![u].shapes = InsertedAt(@, op.prop, op.index)]
      /\ inverse.uri = u /\ inverse.prop = op.prop
  BY DEF AddedFacet
<1>2. PICK at \in DOMAIN mid[u].shapes :
         mid[u].shapes[at] = op.prop /\ post = [mid EXCEPT ![u].shapes = RemoveAt(@, at)]
  <2>1. inverse.uri = u /\ inverse.prop = op.prop
    BY <1>1
  <2> HIDE DEF u
  <2> QED BY <2>1 DEF RetiredFacet
<1>3. o[u] \in ClassDef /\ shapes \in Seq(STRING)
  BY <1>1, ClassTypes
<1>4. mid[u].shapes = ss
  BY <1>1, <1>3 DEF ClassDef
<1>5. PICK k : ss \in Seq(STRING) /\ With(ss, shapes, op.prop, k)
  BY <1>1, <1>3, InsertedWith
<1>6. mid = Reshaped(o, u, ss)
  BY <1>1 DEF Reshaped
<1> HIDE DEF ss
<1>7. at = k
  <2>1. /\ k \in 1 .. Len(shapes) + 1 /\ DOMAIN ss = 1 .. Len(shapes) + 1 /\ DOMAIN shapes = 1 .. Len(shapes)
        /\ Len(shapes) \in Nat
        /\ \A n \in 1 .. Len(shapes) + 1 : ss[n] = IF n < k THEN shapes[n] ELSE IF n = k THEN op.prop ELSE shapes[n - 1]
    BY <1>3, <1>5 DEF With
  <2>2. \A n \in DOMAIN shapes : shapes[n] # op.prop
    BY DEF Facets, ToSet
  <2>3. at \in 1 .. Len(shapes) + 1 /\ ss[at] = op.prop
    BY <1>2, <1>4, <2>1
  <2>4. CASE at < k
    BY <2>1, <2>2, <2>3, <2>4
  <2>5. CASE at > k
    <3>1. at - 1 \in DOMAIN shapes /\ ss[at] = shapes[at - 1]
      BY <2>1, <2>3, <2>5
    <3> QED BY <3>1, <2>2, <2>3
  <2> QED BY <2>1, <2>3, <2>4, <2>5
<1>8. RemoveAt(ss, at) = shapes
  <2>1. RemoveAt(ss, at) \in Seq(STRING) /\ With(ss, RemoveAt(ss, at), op.prop, k)
    BY <1>2, <1>4, <1>5, <1>7, RemovedWith
  <2> QED BY <2>1, <1>3, <1>5, SameWith
<1>9. post = Reshaped(mid, u, o[u].shapes)
  BY <1>2, <1>4, <1>8 DEF Reshaped
<1>10. u \in DOMAIN o
  BY <1>1
<1> HIDE DEF u
<1> QED BY <1>6, <1>9, <1>10, FacetUndone

LEMMA RetireFacetUndone ==
    ASSUME NEW o, NEW op, NEW inverse, NEW mid, NEW again, NEW post, WellMade(o), WellMade(mid), WellMade(post),
           RetiredFacet(o, op, inverse, mid), AddedFacet(mid, inverse, again, post)
    PROVE  post = o
<1> DEFINE u == op.uri
           shapes == o[u].shapes
<1>1. PICK at \in DOMAIN shapes :
         /\ shapes[at] = op.prop /\ mid = [o EXCEPT ![u].shapes = RemoveAt(@, at)]
         /\ inverse.uri = u /\ inverse.prop = op.prop /\ inverse.index = at
  BY DEF RetiredFacet
<1> DEFINE ss == RemoveAt(shapes, at)
<1>2. u \in DOMAIN o
  BY DEF RetiredFacet
<1>3. post = [mid EXCEPT ![u].shapes = InsertedAt(@, op.prop, at)]
  BY <1>1 DEF AddedFacet
<1>4. o[u] \in ClassDef /\ shapes \in Seq(STRING)
  BY <1>2, ClassTypes
<1>5. mid[u].shapes = ss
  BY <1>1, <1>2, <1>4 DEF ClassDef
<1>6. mid = Reshaped(o, u, ss)
  BY <1>1 DEF Reshaped
<1>7. ss \in Seq(STRING) /\ With(shapes, ss, op.prop, at)
  BY <1>1, <1>4, RemovedWith
<1> HIDE DEF ss
<1>8. InsertedAt(ss, op.prop, at) = shapes
  <2>1. at \in 1 .. Len(ss) + 1 /\ at \in Nat /\ op.prop \in STRING
    BY <1>1, <1>4, <1>7 DEF With
  <2>2. InsertedAt(ss, op.prop, at) \in Seq(STRING) /\ With(InsertedAt(ss, op.prop, at), ss, op.prop, at)
    <3>1. Place(ss, at) = at
      BY <2>1 DEF Place
    <3> QED BY <2>1, <3>1, <1>7, InsertedWith
  <2> QED BY <2>2, <1>4, <1>7, SameWith
<1>9. post = Reshaped(mid, u, o[u].shapes)
  BY <1>3, <1>5, <1>8 DEF Reshaped
<1> HIDE DEF u
<1> QED BY <1>2, <1>6, <1>9, FacetUndone

Repropped(o, u, ps) == [o EXCEPT ![u].props = ps]

LEMMA ReproppedIs ==
    ASSUME NEW o, NEW u \in DOMAIN o, WellMade(o), NEW ps
    PROVE  /\ DOMAIN Repropped(o, u, ps) = DOMAIN o
           /\ \A c \in DOMAIN o \ {u} : Repropped(o, u, ps)[c] = o[c]
           /\ LET d == Repropped(o, u, ps)[u]
              IN  /\ d.name = o[u].name /\ d.parents = o[u].parents /\ d.props = ps /\ d.shapes = o[u].shapes
                  /\ d.retired = o[u].retired
<1>1. o[u] \in ClassDef
  BY ClassTypes
<1> QED BY <1>1 DEF Repropped, ClassDef

LEMMA ReproppedBack ==
    ASSUME NEW o, NEW u \in DOMAIN o, NEW ps, NEW mid, NEW post, WellMade(o), WellMade(mid), WellMade(post),
           mid = Repropped(o, u, ps), post = Repropped(mid, u, o[u].props)
    PROVE  post = o
<1>1. u \in DOMAIN mid /\ DOMAIN post = DOMAIN o
  BY ReproppedIs
<1>2. \A c \in DOMAIN o \ {u} : post[c] = o[c]
  BY <1>1, ReproppedIs
<1>3. Alike(post[u], o[u])
  BY <1>1, ReproppedIs DEF Alike
<1> QED BY <1>1, <1>2, <1>3, SameButOne

LEMMA RetypePropertyUndone ==
    ASSUME NEW o, NEW op, NEW inverse, NEW mid, NEW again, NEW post, WellMade(o), WellMade(mid), WellMade(post),
           RetypedProperty(o, op, inverse, mid), RetypedProperty(mid, inverse, again, post)
    PROVE  post = o
<1> DEFINE u == op.uri
           ps == Changed(o[u].props, op.prop, LAMBDA q : [q EXCEPT !.unit = @ + op.by])
           qs == Changed(ps, op.prop, LAMBDA q : [q EXCEPT !.unit = @ + (0 - op.by)])
<1>1. u \in DOMAIN o /\ op.by \in Int /\ mid = Retyped(o, u, op.prop, op.by)
  BY DEF RetypedProperty
<1>2. post = Retyped(mid, u, op.prop, 0 - op.by)
  <2>1. inverse.uri = u /\ inverse.prop = op.prop /\ inverse.by = 0 - op.by
    BY DEF RetypedProperty
  <2> QED BY <2>1 DEF RetypedProperty
<1>3. qs = o[u].props
  BY <1>1, ClassTypes, RetypedBack
<1>4. mid = Repropped(o, u, ps)
  BY <1>1 DEF Retyped, Repropped
<1>5. mid[u].props = ps
  <2> HIDE DEF ps
  <2> QED BY <1>1, <1>4, ReproppedIs
<1>6. post = Repropped(mid, u, qs)
  BY <1>2, <1>5 DEF Retyped, Repropped
<1>7. u \in DOMAIN o
  BY <1>1
<1> HIDE DEF u, ps, qs
<1> QED BY <1>3, <1>4, <1>6, <1>7, ReproppedBack

LEMMA MovedIs ==
    ASSUME NEW o, WellMade(o), NEW a \in DOMAIN o, NEW b \in DOMAIN o, a # b, NEW prop, NEW index
    PROVE  LET post == MovedProp(o, a, b, prop, index)
           IN  /\ DOMAIN post = DOMAIN o
               /\ \A c \in DOMAIN o \ {a, b} : post[c] = o[c]
               /\ \A c \in {a, b} : /\ post[c].name = o[c].name /\ post[c].parents = o[c].parents
                                    /\ post[c].shapes = o[c].shapes /\ post[c].retired = o[c].retired
               /\ post[a].props = Without(o[a].props, prop)
               /\ post[b].props = InsertedAt(o[b].props, Prop(o, a, prop), index)
<1> DEFINE rest == Without(o[a].props, prop)
           more == InsertedAt(o[b].props, Prop(o, a, prop), index)
           post == MovedProp(o, a, b, prop, index)
<1>1. o[a] \in ClassDef /\ o[b] \in ClassDef
  BY ClassTypes
<1>2. post = Repropped(Repropped(o, a, rest), b, more)
  BY DEF MovedProp, Repropped
<1> HIDE DEF rest, more
<1>3. post[a] = [o[a] EXCEPT !.props = rest] /\ post[b] = [o[b] EXCEPT !.props = more]
  BY <1>2 DEF Repropped
<1>4. DOMAIN post = DOMAIN o /\ \A c \in DOMAIN o \ {a, b} : post[c] = o[c]
  BY <1>2 DEF Repropped
<1> HIDE DEF post
<1>5. \A c \in {a, b} : /\ post[c].name = o[c].name /\ post[c].parents = o[c].parents
                        /\ post[c].shapes = o[c].shapes /\ post[c].retired = o[c].retired
  BY <1>1, <1>3 DEF ClassDef
<1>6. post[a].props = rest /\ post[b].props = more
  BY <1>1, <1>3 DEF ClassDef
<1> QED BY <1>4, <1>5, <1>6 DEF post, rest, more

LEMMA MovedBack ==
    ASSUME NEW o, WellMade(o), NamesApart(o), NEW a \in DOMAIN o, NEW b \in DOMAIN o, a # b, NEW prop, NEW index \in Nat,
           HasProp(o, a, prop), ~HasProp(o, b, prop), NEW mid, mid = MovedProp(o, a, b, prop, index), WellMade(mid),
           NEW post, post = MovedProp(mid, b, a, prop, Position(o[a].props, prop)), WellMade(post)
    PROVE  post = o
<1> DEFINE p == Prop(o, a, prop)
           rest == Without(o[a].props, prop)
           more == InsertedAt(o[b].props, p, index)
<1>1. /\ o[a].props \in Seq(PropertyDef) /\ o[b].props \in Seq(PropertyDef) /\ NamesOnce(o[a].props)
      /\ prop \in Names(o[a].props) /\ prop \notin Names(o[b].props)
  BY ClassTypes DEF HasProp
<1>2. p = o[a].props[Position(o[a].props, prop)] /\ p \in PropertyDef /\ p.name = prop
  BY <1>1, PropFound DEF Prop
<1>3. /\ DOMAIN mid = DOMAIN o
      /\ \A c \in DOMAIN o \ {a, b} : mid[c] = o[c]
      /\ \A c \in {a, b} : /\ mid[c].name = o[c].name /\ mid[c].parents = o[c].parents
                           /\ mid[c].shapes = o[c].shapes /\ mid[c].retired = o[c].retired
      /\ mid[a].props = rest /\ mid[b].props = more
  BY MovedIs
<1>4. /\ DOMAIN post = DOMAIN mid
      /\ \A c \in DOMAIN mid \ {b, a} : post[c] = mid[c]
      /\ \A c \in {b, a} : /\ post[c].name = mid[c].name /\ post[c].parents = mid[c].parents
                           /\ post[c].shapes = mid[c].shapes /\ post[c].retired = mid[c].retired
      /\ post[b].props = Without(mid[b].props, prop)
      /\ post[a].props = InsertedAt(mid[a].props, Prop(mid, b, prop), Position(o[a].props, prop))
  <2>1. a \in DOMAIN mid /\ b \in DOMAIN mid
    BY <1>3
  <2> QED BY <2>1, MovedIs
<1> HIDE DEF p
<1>5. PICK k : more \in Seq(PropertyDef) /\ With(more, o[b].props, p, k)
  BY <1>1, <1>2, InsertedWith
<1> HIDE DEF rest, more
<1>6. Without(more, prop) = o[b].props /\ Position(more, prop) = k /\ more[k] = p
  BY <1>1, <1>2, <1>5, PutAndTaken
<1>7. Prop(mid, b, prop) = p
  BY <1>3, <1>6 DEF Prop
<1>8. InsertedAt(rest, p, Position(o[a].props, prop)) = o[a].props
  BY <1>1, <1>2, TakenAndPut DEF rest
<1>9. post[a].props = o[a].props /\ post[b].props = o[b].props
  BY <1>3, <1>4, <1>6, <1>7, <1>8
<1>10. \A c \in DOMAIN o : Alike(post[c], o[c])
  BY <1>3, <1>4, <1>9 DEF Alike
<1> QED BY <1>3, <1>4, <1>10, SameOntology

LEMMA GeneralizeUndone ==
    ASSUME NEW o, NEW op, NEW inverse, NEW mid, NEW again, NEW post, WellMade(o), WellMade(mid), WellMade(post),
           GeneralizedProperty(o, op, inverse, mid), SpecializedProperty(mid, inverse, again, post), NamesApart(o)
    PROVE  post = o
<1>1. /\ op.uri \in DOMAIN o /\ op.parent \in DOMAIN o /\ op.uri # op.parent /\ op.index \in Nat
      /\ HasProp(o, op.uri, op.prop) /\ ~HasProp(o, op.parent, op.prop)
      /\ mid = MovedProp(o, op.uri, op.parent, op.prop, op.index)
      /\ inverse.uri = op.uri /\ inverse.parent = op.parent /\ inverse.prop = op.prop
      /\ inverse.index = Position(o[op.uri].props, op.prop)
  BY DEF GeneralizedProperty
<1>2. post = MovedProp(mid, op.parent, op.uri, op.prop, Position(o[op.uri].props, op.prop))
  BY <1>1 DEF SpecializedProperty
<1> QED BY <1>1, <1>2, MovedBack

LEMMA SpecializeUndone ==
    ASSUME NEW o, NEW op, NEW inverse, NEW mid, NEW again, NEW post, WellMade(o), WellMade(mid), WellMade(post),
           SpecializedProperty(o, op, inverse, mid), GeneralizedProperty(mid, inverse, again, post), NamesApart(o),
           op.uri # op.parent => ~HasProp(o, op.uri, op.prop)
    PROVE  post = o
<1>1. /\ op.uri \in DOMAIN o /\ op.parent \in DOMAIN o /\ op.index \in Nat
      /\ HasProp(o, op.parent, op.prop)
      /\ mid = MovedProp(o, op.parent, op.uri, op.prop, op.index)
      /\ inverse.uri = op.uri /\ inverse.parent = op.parent /\ inverse.prop = op.prop
      /\ inverse.index = Position(o[op.parent].props, op.prop)
  BY DEF SpecializedProperty
<1>2. op.uri # op.parent /\ post = MovedProp(mid, op.uri, op.parent, op.prop, Position(o[op.parent].props, op.prop))
  BY <1>1 DEF GeneralizedProperty
<1> QED BY <1>1, <1>2, MovedBack

LEMMA SplitUndone ==
    ASSUME NEW o, NEW op, NEW inverse, NEW mid, NEW again, NEW post, WellMade(o), WellMade(mid), WellMade(post),
           PartedClass(o, op, inverse, mid), MergedClasses(mid, inverse, again, post),
           Facets(o, op.uri) \subseteq Names(o[op.uri].props)
    PROVE  post = o
<1> DEFINE u == op.uri
           c1 == op.parts[1].uri
           c2 == op.parts[2].uri
<1>1. /\ u \in DOMAIN o /\ {c1, c2} \cap DOMAIN o = {} /\ c1 # c2
      /\ mid = Plus(Plus(Minus(o, {u}), c1, [o[u] EXCEPT !.name = op.parts[1].name]),
                    c2, [o[u] EXCEPT !.name = op.parts[2].name])
      /\ inverse.uri = u /\ inverse.name = o[u].name /\ inverse.parts = op.parts
  BY DEF PartedClass
<1>2. PICK D : /\ \A x \in Names(mid[c2].props) : HasProp(mid, c1, x) => x \in D
               /\ post = MergedInto(mid, c1, c2, u, o[u].name, D)
  <2> HIDE DEF u
  <2> QED BY <1>1 DEF MergedClasses
<1> HIDE DEF u, c1, c2
<1>3. /\ DOMAIN mid = (DOMAIN o \ {u}) \cup {c1, c2}
      /\ \A c \in DOMAIN o \ {u} : mid[c] = o[c]
      /\ mid[c1] = [o[u] EXCEPT !.name = op.parts[1].name]
      /\ mid[c2] = [o[u] EXCEPT !.name = op.parts[2].name]
  BY <1>1 DEF Plus, Minus
<1>4. o[u] \in ClassDef /\ o[u].props \in Seq(PropertyDef) /\ o[u].shapes \in Seq(STRING)
  BY <1>1, ClassTypes
<1>5. \A c \in {c1, c2} : /\ mid[c].parents = o[u].parents /\ mid[c].props = o[u].props
                         /\ mid[c].shapes = o[u].shapes /\ mid[c].retired = o[u].retired
  BY <1>3, <1>4 DEF ClassDef
<1>6. Names(o[u].props) \subseteq D
  BY <1>2, <1>5 DEF HasProp
<1>7. Where(mid[c2].props, LAMBDA p : p.name \notin D) = At(o[u].props, {})
  <2>1. {i \in DOMAIN o[u].props : o[u].props[i].name \notin D} = {}
    BY <1>6 DEF Names
  <2> QED BY <2>1, <1>5 DEF Where
<1>8. Where(mid[c2].shapes, LAMBDA s : s \notin D) = At(o[u].shapes, {})
  <2>1. {i \in DOMAIN o[u].shapes : o[u].shapes[i] \notin D} = {}
    BY <1>6 DEF Facets, ToSet, u
  <2> QED BY <2>1, <1>5 DEF Where
<1>9. /\ mid[c1].props \o Where(mid[c2].props, LAMBDA p : p.name \notin D) = o[u].props
      /\ mid[c1].shapes \o Where(mid[c2].shapes, LAMBDA s : s \notin D) = o[u].shapes
  BY <1>4, <1>5, <1>7, <1>8, NoneWhere
<1>10. post = Plus(Minus(mid, {c1, c2}), u,
                   [mid[c1] EXCEPT !.name = o[u].name, !.parents = o[u].parents, !.props = o[u].props,
                                   !.shapes = o[u].shapes])
  BY <1>2, <1>5, <1>9 DEF MergedInto
<1>11. DOMAIN post = DOMAIN o /\ \A c \in DOMAIN o \ {u} : post[c] = o[c]
  <2>1. DOMAIN post = (DOMAIN mid \ {c1, c2}) \cup {u} /\ \A c \in DOMAIN mid \ {c1, c2, u} : post[c] = mid[c]
    BY <1>10 DEF Plus, Minus
  <2>2. u \in DOMAIN o /\ c1 \notin DOMAIN o /\ c2 \notin DOMAIN o
    BY <1>1
  <2>3. DOMAIN mid = (DOMAIN o \ {u}) \cup {c1, c2} /\ \A c \in DOMAIN o \ {u} : mid[c] = o[c]
    BY <1>3
  <2> QED BY <2>1, <2>2, <2>3
<1>12. Alike(post[u], o[u])
  <2>1. post[u] = [mid[c1] EXCEPT !.name = o[u].name, !.parents = o[u].parents, !.props = o[u].props,
                                  !.shapes = o[u].shapes]
    BY <1>10 DEF Plus
  <2> QED BY <2>1, <1>3, <1>4 DEF Alike, ClassDef
<1>13. u \in DOMAIN o
  BY <1>1
<1> QED BY <1>11, <1>12, <1>13, SameButOne

LEMMA MergeUndone ==
    ASSUME NEW o, NEW op, NEW inverse, NEW mid, NEW again, NEW post, WellMade(o), WellMade(mid), WellMade(post),
           MergedClasses(o, op, inverse, mid), inverse # NoOp, PartedClass(mid, inverse, again, post),
           ~Unlike(o, op.parts[1].uri, op.parts[2].uri),
           Facets(o, op.parts[2].uri) \subseteq Names(o[op.parts[2].uri].props)
    PROVE  post = o
<1> DEFINE u == op.uri
           c1 == op.parts[1].uri
           c2 == op.parts[2].uri
<1>1. /\ c1 \in DOMAIN o /\ c2 \in DOMAIN o /\ u \notin DOMAIN o /\ c1 # c2
      /\ inverse.uri = u
      /\ inverse.parts = <<[uri |-> c1, name |-> o[c1].name], [uri |-> c2, name |-> o[c2].name]>>
  BY DEF MergedClasses
<1>2. PICK D : /\ \A x \in Names(o[c2].props) : HasProp(o, c1, x) => x \in D
               /\ mid = MergedInto(o, c1, c2, u, op.name, D)
  BY DEF MergedClasses
<1>3. post = Plus(Plus(Minus(mid, {u}), c1, [mid[u] EXCEPT !.name = o[c1].name]), c2, [mid[u] EXCEPT !.name = o[c2].name])
  <2>1. inverse.uri = u
    BY <1>1
  <2>2. /\ inverse.parts[1].uri = c1 /\ inverse.parts[2].uri = c2
        /\ inverse.parts[1].name = o[c1].name /\ inverse.parts[2].name = o[c2].name
    BY <1>1
  <2> HIDE DEF u, c1, c2
  <2> QED BY <2>1, <2>2 DEF PartedClass
<1> HIDE DEF u
<1>4. \A c \in {c1, c2} : o[c] \in ClassDef /\ o[c].props \in Seq(PropertyDef) /\ o[c].shapes \in Seq(STRING)
  BY <1>1, ClassTypes
<1>5. /\ o[c2].parents = o[c1].parents /\ o[c2].props = o[c1].props
      /\ o[c2].shapes = o[c1].shapes /\ o[c2].retired = o[c1].retired
  <2>1. [o[c1] EXCEPT !.name = ""] = [o[c2] EXCEPT !.name = ""]
    BY DEF Unlike
  <2> HIDE DEF c1, c2
  <2> QED BY <2>1, <1>4 DEF ClassDef
<1>6. Names(o[c2].props) \subseteq D
  BY <1>2, <1>5 DEF HasProp
<1>7. Where(o[c2].props, LAMBDA p : p.name \notin D) = At(o[c2].props, {})
  <2>1. {i \in DOMAIN o[c2].props : o[c2].props[i].name \notin D} = {}
    BY <1>6 DEF Names
  <2> QED BY <2>1 DEF Where
<1>8. Where(o[c2].shapes, LAMBDA s : s \notin D) = At(o[c2].shapes, {})
  <2>1. {i \in DOMAIN o[c2].shapes : o[c2].shapes[i] \notin D} = {}
    BY <1>6 DEF Facets, ToSet
  <2> QED BY <2>1 DEF Where
<1> HIDE DEF c1, c2
<1>9. /\ o[c1].props \o Where(o[c2].props, LAMBDA p : p.name \notin D) = o[c1].props
      /\ o[c1].shapes \o Where(o[c2].shapes, LAMBDA s : s \notin D) = o[c1].shapes
      /\ o[c1].parents \cup o[c2].parents = o[c1].parents
  BY <1>4, <1>5, <1>7, <1>8, NoneWhere
<1>10. mid = Plus(Minus(o, {c1, c2}), u,
                  [o[c1] EXCEPT !.name = op.name, !.parents = o[c1].parents, !.props = o[c1].props,
                                !.shapes = o[c1].shapes])
  BY <1>2, <1>9 DEF MergedInto
<1>11. DOMAIN post = DOMAIN o /\ \A c \in DOMAIN o \ {c1, c2} : post[c] = o[c]
  BY <1>1, <1>3, <1>10 DEF Plus, Minus
<1>12. /\ mid[u] = [o[c1] EXCEPT !.name = op.name, !.parents = o[c1].parents, !.props = o[c1].props,
                                  !.shapes = o[c1].shapes]
       /\ post[c1] = [mid[u] EXCEPT !.name = o[c1].name] /\ post[c2] = [mid[u] EXCEPT !.name = o[c2].name]
  BY <1>1, <1>3, <1>10 DEF Plus
<1>13. Alike(post[c1], o[c1])
  BY <1>4, <1>12 DEF Alike, ClassDef
<1>14. Alike(post[c2], o[c2])
  BY <1>4, <1>5, <1>12 DEF Alike, ClassDef
<1>15. \A c \in DOMAIN o : Alike(post[c], o[c])
  BY <1>11, <1>13, <1>14 DEF Alike
<1> QED BY <1>11, <1>15, SameOntology

LEMMA OnlyValue ==
    ASSUME NEW unit, NEW ps, ps = <<ValueProp(unit)>>
    PROVE  "value" \in Names(ps) /\ Position(ps, "value") = 1 /\ ps[1].unit = unit
<1>1. DOMAIN ps = {1} /\ ps[1].name = "value" /\ ps[1].unit = unit
  BY DEF ValueProp
<1>2. "value" \in Names(ps)
  BY <1>1 DEF Names
<1> QED BY <1>1, <1>2 DEF Position

LEMMA PromoteUndone ==
    ASSUME NEW o, NEW op, NEW inverse, NEW mid, NEW again, NEW post, WellMade(o), WellMade(mid), WellMade(post),
           PromotedProperty(o, op, inverse, mid), DemotedClass(mid, inverse, again, post), NamesApart(o)
    PROVE  post = o
<1> DEFINE u == op.uri
           new == op.new
           unit == Prop(o, u, op.prop).unit
           ps == Reset(o[u].props, op.prop, new, 0)
           qs == Reset(ps, op.prop, NoClass, unit)
           d == NewClass(op.name, {}, <<ValueProp(unit)>>)
<1>1. /\ u \in DOMAIN o /\ new \notin DOMAIN o
      /\ HasProp(o, u, op.prop) /\ Prop(o, u, op.prop).range = NoClass
      /\ mid = Promoted(o, u, op.prop, new, op.name)
      /\ inverse.uri = u /\ inverse.prop = op.prop /\ inverse.new = new
  BY DEF PromotedProperty
<1>2. post = Demoted(mid, u, op.prop, new)
  <2> HIDE DEF u, new
  <2> QED BY <1>1 DEF DemotedClass
<1>3. mid = Plus(Repropped(o, u, ps), new, d)
  BY <1>1 DEF Promoted, Repropped, Reset
<1>4. qs = o[u].props
  <2> DEFINE k == Position(o[u].props, op.prop)
  <2>1. o[u].props \in Seq(PropertyDef) /\ NamesOnce(o[u].props) /\ op.prop \in Names(o[u].props)
    BY <1>1, ClassTypes DEF HasProp
  <2>2. k \in DOMAIN o[u].props /\ o[u].props[k].name = op.prop
    BY <2>1, PropFound
  <2>3. o[u].props[k].range = NoClass /\ o[u].props[k].unit = unit
    BY <1>1 DEF Prop
  <2>4. \A n \in DOMAIN o[u].props : o[u].props[n].name = op.prop => n = k
    BY <2>1, <2>2 DEF NamesOnce
  <2> HIDE DEF k, u, new, unit
  <2>5. \A n \in DOMAIN o[u].props : o[u].props[n].name = op.prop => o[u].props[n].range = NoClass /\ o[u].props[n].unit = unit
    BY <2>3, <2>4
  <2> QED BY <2>1, <2>5, RerangedBack
<1>5. u # new
  BY <1>1
<1>6. u \in DOMAIN o /\ new \notin DOMAIN o
  BY <1>1
<1> HIDE DEF ps, qs, d, u, new
<1>7. /\ DOMAIN mid = DOMAIN o \cup {new} /\ mid[new] = d
      /\ \A c \in DOMAIN o : mid[c] = Repropped(o, u, ps)[c]
  <2>1. DOMAIN Repropped(o, u, ps) = DOMAIN o
    BY <1>6, ReproppedIs
  <2> QED BY <1>3, <1>6, <2>1 DEF Plus
<1>8. mid[u].props = ps
  <2>1. mid[u] = Repropped(o, u, ps)[u]
    BY <1>6, <1>7
  <2>2. Repropped(o, u, ps)[u].props = ps
    BY <1>6, ReproppedIs
  <2> QED BY <2>1, <2>2
<1>9. Prop(mid, new, "value").unit = unit
  <2>1. mid[new].props = <<ValueProp(unit)>>
    BY <1>7 DEF NewClass, d
  <2> QED BY <2>1, OnlyValue DEF Prop
<1>10. post = Minus(Repropped(mid, u, qs), {new})
  <2> HIDE DEF unit
  <2> QED BY <1>2, <1>8, <1>9 DEF Demoted, Repropped, Reset, Changed, qs
<1>11. DOMAIN post = DOMAIN o /\ \A c \in DOMAIN o : post[c] = Repropped(mid, u, qs)[c]
  <2>1. DOMAIN Repropped(mid, u, qs) = DOMAIN o \cup {new}
    BY <1>6, <1>7, ReproppedIs
  <2> QED BY <1>6, <1>10, <2>1 DEF Minus
<1>12. u \in DOMAIN mid
  BY <1>6, <1>7
<1>13. \A c \in DOMAIN o \ {u} : post[c] = o[c]
  <2>1. \A c \in DOMAIN mid \ {u} : Repropped(mid, u, qs)[c] = mid[c]
    BY <1>12, ReproppedIs
  <2>2. \A c \in DOMAIN o \ {u} : Repropped(o, u, ps)[c] = o[c]
    BY <1>6, ReproppedIs
  <2> QED BY <1>7, <1>11, <2>1, <2>2
<1>14. Alike(post[u], o[u])
  <2>1. Alike(Repropped(o, u, ps)[u], [o[u] EXCEPT !.props = ps]) /\ mid[u] = Repropped(o, u, ps)[u]
    BY <1>6, <1>7, ClassTypes DEF Alike, Repropped, ClassDef
  <2>2. Repropped(mid, u, qs)[u] = post[u]
    BY <1>6, <1>11
  <2> QED BY <1>4, <1>6, <1>12, <2>1, <2>2, ReproppedIs DEF Alike
<1> QED BY <1>6, <1>11, <1>13, <1>14, SameButOne

LEMMA DemoteUndone ==
    ASSUME NEW o, NEW op, NEW inverse, NEW mid, NEW again, NEW post, WellMade(o), WellMade(mid), WellMade(post),
           DemotedClass(o, op, inverse, mid), PromotedProperty(mid, inverse, again, post), NamesApart(o),
           MadeOfValues(o, op.new), Prop(o, op.uri, op.prop).unit = 0
    PROVE  post = o
<1> DEFINE u == op.uri
           new == op.new
           unit == Prop(o, new, "value").unit
           ps == Reset(o[u].props, op.prop, NoClass, unit)
           qs == Reset(ps, op.prop, new, 0)
           k == Position(o[u].props, op.prop)
<1>1. /\ u \in DOMAIN o /\ new \in DOMAIN o
      /\ HasProp(o, u, op.prop) /\ Prop(o, u, op.prop).range = new
      /\ mid = Demoted(o, u, op.prop, new)
      /\ inverse.uri = u /\ inverse.prop = op.prop /\ inverse.new = new /\ inverse.name = o[new].name
  BY DEF DemotedClass
<1>2. /\ u \in DOMAIN mid /\ HasProp(mid, u, op.prop)
      /\ post = Promoted(mid, u, op.prop, new, o[new].name)
  <2> HIDE DEF u, new
  <2> QED BY <1>1 DEF PromotedProperty
<1>3. mid = Minus(Repropped(o, u, ps), {new})
  BY <1>1 DEF Demoted, Repropped, Reset
<1>4. o[u].props \in Seq(PropertyDef) /\ NamesOnce(o[u].props) /\ op.prop \in Names(o[u].props)
  BY <1>1, ClassTypes DEF HasProp
<1>5. /\ k \in DOMAIN o[u].props /\ o[u].props[k].name = op.prop
      /\ o[u].props[k].range = new /\ o[u].props[k].unit = 0
  BY <1>1, <1>4, PropFound DEF Prop
<1>6. \A n \in DOMAIN o[u].props : o[u].props[n].name = op.prop => n = k
  BY <1>4, <1>5 DEF NamesOnce
<1>7. u \in DOMAIN o /\ new \in DOMAIN o
  BY <1>1
<1>8. o[new] = NewClass(o[new].name, {}, <<ValueProp(unit)>>)
  <2>1. PICK v : o[new] = NewClass(o[new].name, {}, <<ValueProp(v)>>)
    BY DEF MadeOfValues
  <2>2. o[new].props = <<ValueProp(v)>>
    BY <2>1 DEF NewClass
  <2>3. unit = v
    BY <2>2, OnlyValue DEF Prop
  <2> HIDE DEF unit
  <2> QED BY <2>1, <2>3
<1> HIDE DEF k, u, new, unit
<1>9. qs = o[u].props
  <2>1. \A n \in DOMAIN o[u].props : o[u].props[n].name = op.prop => o[u].props[n].range = new /\ o[u].props[n].unit = 0
    BY <1>5, <1>6
  <2> QED BY <1>4, <2>1, RerangedBack
<1>10. Position(ps, op.prop) = k /\ ps[k].unit = unit
  <2>1. DOMAIN ps = DOMAIN o[u].props /\ ps[k].unit = unit
    <3>1. o[u].props \in Seq(PropertyDef) /\ k \in DOMAIN o[u].props
      BY <1>4, <1>5
    <3>2. o[u].props[k].name = op.prop
      BY <1>5
    <3>3. DOMAIN ps = DOMAIN o[u].props
      BY DEF Reset, Changed
    <3>4. ps[k].unit = unit
      BY <3>1, <3>2, ResetIs
    <3> QED BY <3>3, <3>4
  <2>2. ASSUME NEW n \in DOMAIN o[u].props PROVE ps[n].name = o[u].props[n].name
    BY <1>4, ResetIs
  <2> HIDE DEF ps, qs
  <2>3. \A n \in DOMAIN ps : ps[n].name = op.prop <=> n = k
    BY <1>5, <1>6, <2>1, <2>2
  <2>4. k \in Nat /\ k \in DOMAIN ps
    BY <1>4, <1>5, <2>1
  <2> QED BY <2>1, <2>3, <2>4 DEF Position
<1> HIDE DEF ps, qs
<1>11. /\ DOMAIN mid = DOMAIN o \ {new}
       /\ \A c \in DOMAIN o \ {new} : mid[c] = Repropped(o, u, ps)[c]
  <2>1. DOMAIN Repropped(o, u, ps) = DOMAIN o
    BY <1>7, ReproppedIs
  <2> QED BY <1>3, <2>1 DEF Minus
<1>12. u # new /\ mid[u].props = ps
  BY <1>2, <1>7, <1>11, ReproppedIs
<1>13. Prop(mid, u, op.prop).unit = unit
  BY <1>10, <1>12 DEF Prop
<1>14. post = Plus(Repropped(mid, u, qs), new, o[new])
  BY <1>2, <1>8, <1>12, <1>13 DEF Promoted, Repropped, Reset, qs
<1>15. DOMAIN post = DOMAIN o /\ post[new] = o[new] /\ \A c \in DOMAIN o \ {new} : post[c] = Repropped(mid, u, qs)[c]
  <2>1. DOMAIN Repropped(mid, u, qs) = DOMAIN o \ {new}
    BY <1>2, <1>11, ReproppedIs
  <2> QED BY <1>7, <1>14, <2>1 DEF Plus
<1>16. \A c \in DOMAIN o \ {u} : post[c] = o[c]
  <2>0. u \in DOMAIN mid
    BY <1>2
  <2>1. \A c \in DOMAIN mid \ {u} : Repropped(mid, u, qs)[c] = mid[c]
    BY <2>0, ReproppedIs
  <2>2. \A c \in DOMAIN o \ {u} : Repropped(o, u, ps)[c] = o[c]
    BY <1>7, ReproppedIs
  <2> QED BY <1>11, <1>15, <2>1, <2>2
<1>17. Alike(post[u], o[u])
  <2>1. /\ mid[u] = Repropped(o, u, ps)[u] /\ post[u] = Repropped(mid, u, qs)[u]
    BY <1>7, <1>11, <1>12, <1>15
  <2>2. u \in DOMAIN mid
    BY <1>2
  <2>3. Repropped(o, u, ps)[u].name = o[u].name /\ Repropped(o, u, ps)[u].parents = o[u].parents
        /\ Repropped(o, u, ps)[u].shapes = o[u].shapes /\ Repropped(o, u, ps)[u].retired = o[u].retired
    BY <1>7, ReproppedIs
  <2> QED BY <1>9, <2>1, <2>2, <2>3, ReproppedIs DEF Alike
<1> QED BY <1>7, <1>15, <1>16, <1>17, SameButOne

(* An operator and then its inverse lead back, unless no inverse could.      *)
LEMMA TakenBack ==
    ASSUME NEW o, NEW op, NEW inverse, NEW mid, NEW again, NEW post, WellMade(o), WellMade(mid), WellMade(post),
           Took(o, op, inverse, mid), Took(mid, inverse, again, post), ~Irreversible(o, op)
    PROVE  post = o
<1>0. NamesApart(o) /\ ~Collides(o, op)
  BY DEF Irreversible
<1>1. CASE op.op = "AddClass" /\ AddedClass(o, op, inverse, mid)
  <2>1. DroppedClass(mid, inverse, again, post)
    BY <1>1 DEF Took, AddedClass
  <2> QED BY <1>1, <2>1, AddClassUndone
<1>2. CASE op.op \in {"DropClass", "DropProperty"} /\ inverse = NoOp
  BY <1>2 DEF Took, NoOp
<1>3. CASE op.op = "RenameClass" /\ RenamedClass(o, op, inverse, mid)
  <2>1. RenamedClass(mid, inverse, again, post)
    BY <1>3 DEF Took, RenamedClass
  <2> QED BY <1>3, <2>1, RenameClassUndone
<1>4. CASE op.op = "RenameProperty" /\ RenamedProperty(o, op, inverse, mid)
  <2>1. RenamedProperty(mid, inverse, again, post)
    <3>1. inverse.op = "RenameProperty"
      BY <1>4 DEF RenamedProperty
    <3> QED BY <3>1 DEF Took
  <2>2. op.name \notin Facets(o, op.uri)
    BY <1>4 DEF Irreversible
  <2> QED BY <1>4, <2>1, <2>2, RenamePropertyUndone
<1>5. CASE op.op = "RetireClass" /\ RetiredClass(o, op, inverse, mid)
  <2>1. UnretiredClass(mid, inverse, again, post)
    BY <1>5 DEF Took, RetiredClass
  <2> QED BY <1>5, <2>1, RetireClassUndone
<1>6. CASE op.op = "UnretireClass" /\ UnretiredClass(o, op, inverse, mid)
  <2>1. RetiredClass(mid, inverse, again, post)
    BY <1>6 DEF Took, UnretiredClass
  <2> QED BY <1>6, <2>1, RetireClassUndone
<1>7. CASE op.op = "AddProperty" /\ AddedProperty(o, op, inverse, mid)
  <2>1. DroppedProperty(mid, inverse, again, post)
    <3>1. inverse.op = "DropProperty"
      BY <1>7 DEF AddedProperty
    <3> QED BY <3>1 DEF Took
  <2>2. op.prop \notin Facets(o, op.uri)
    BY <1>7 DEF Irreversible
  <2> QED BY <1>7, <2>1, <2>2, AddPropertyUndone
<1>8. CASE op.op = "AddFacet" /\ AddedFacet(o, op, inverse, mid)
  <2>1. RetiredFacet(mid, inverse, again, post)
    <3>1. inverse.op = "RetireFacet"
      BY <1>8 DEF AddedFacet
    <3> QED BY <3>1 DEF Took
  <2>2. op.prop \notin Facets(o, op.uri)
    BY <1>8 DEF Irreversible
  <2> QED BY <1>8, <2>1, <2>2, AddFacetUndone
<1>9. CASE op.op = "RetireFacet" /\ RetiredFacet(o, op, inverse, mid)
  <2>1. AddedFacet(mid, inverse, again, post)
    <3>1. inverse.op = "AddFacet"
      BY <1>9 DEF RetiredFacet
    <3> QED BY <3>1 DEF Took
  <2> QED BY <1>9, <2>1, RetireFacetUndone
<1>10. CASE op.op = "RetypeProperty" /\ RetypedProperty(o, op, inverse, mid)
  <2>1. RetypedProperty(mid, inverse, again, post)
    <3>1. inverse.op = "RetypeProperty"
      BY <1>10 DEF RetypedProperty
    <3> QED BY <3>1 DEF Took
  <2> QED BY <1>10, <2>1, RetypePropertyUndone
<1>11. CASE op.op = "Generalize" /\ GeneralizedProperty(o, op, inverse, mid)
  <2>1. SpecializedProperty(mid, inverse, again, post)
    <3>1. inverse.op = "Specialize"
      BY <1>11 DEF GeneralizedProperty
    <3> QED BY <3>1 DEF Took
  <2> QED BY <1>0, <1>11, <2>1, GeneralizeUndone
<1>12. CASE op.op = "Specialize" /\ SpecializedProperty(o, op, inverse, mid)
  <2>1. GeneralizedProperty(mid, inverse, again, post)
    <3>1. inverse.op = "Generalize"
      BY <1>12 DEF SpecializedProperty
    <3> QED BY <3>1 DEF Took
  <2>2. op.uri # op.parent => ~HasProp(o, op.uri, op.prop)
    BY <1>0, <1>12 DEF Collides
  <2> QED BY <1>0, <1>12, <2>1, <2>2, SpecializeUndone
<1>13. CASE op.op = "SplitClass" /\ PartedClass(o, op, inverse, mid)
  <2>1. MergedClasses(mid, inverse, again, post)
    <3>1. inverse.op = "MergeClasses"
      BY <1>13 DEF PartedClass
    <3> QED BY <3>1 DEF Took
  <2>2. Facets(o, op.uri) \subseteq Names(o[op.uri].props)
    BY <1>13 DEF Irreversible
  <2> QED BY <1>13, <2>1, <2>2, SplitUndone
<1>14. CASE op.op = "MergeClasses" /\ MergedClasses(o, op, inverse, mid)
  <2>1. inverse # NoOp
    BY DEF Took, NoOp
  <2>2. PartedClass(mid, inverse, again, post)
    <3>1. inverse.op = "SplitClass"
      BY <1>14, <2>1 DEF MergedClasses
    <3> QED BY <3>1 DEF Took
  <2>3. /\ ~Unlike(o, op.parts[1].uri, op.parts[2].uri)
        /\ Facets(o, op.parts[2].uri) \subseteq Names(o[op.parts[2].uri].props)
    BY <1>14 DEF Irreversible
  <2> QED BY <1>14, <2>1, <2>2, <2>3, MergeUndone
<1>15. CASE op.op = "PromoteProperty" /\ PromotedProperty(o, op, inverse, mid)
  <2>1. DemotedClass(mid, inverse, again, post)
    <3>1. inverse.op = "DemoteClass"
      BY <1>15 DEF PromotedProperty
    <3> QED BY <3>1 DEF Took
  <2> QED BY <1>0, <1>15, <2>1, PromoteUndone
<1>16. CASE op.op = "DemoteClass" /\ DemotedClass(o, op, inverse, mid)
  <2>1. PromotedProperty(mid, inverse, again, post)
    <3>1. inverse.op = "PromoteProperty"
      BY <1>16 DEF DemotedClass
    <3> QED BY <3>1 DEF Took
  <2>2. MadeOfValues(o, op.new) /\ Prop(o, op.uri, op.prop).unit = 0
    BY <1>16 DEF Irreversible
  <2> QED BY <1>0, <1>16, <2>1, <2>2, DemoteUndone
<1> QED
  BY <1>1, <1>2, <1>3, <1>4, <1>5, <1>6, <1>7, <1>8, <1>9, <1>10, <1>11, <1>12, <1>13, <1>14, <1>15, <1>16
     DEF Took, DroppedClass, DroppedProperty

-----------------------------------------------------------------------------
(* What the commits of an operator make of the cells. *)

IsList(s) == s \in Seq(ToSet(s))
IsBatches(bs) == IsList(bs) /\ \A i \in DOMAIN bs : IsData(bs[i])

LEMMA ListOf ==
    ASSUME NEW n \in Nat, NEW s, DOMAIN s = 1 .. n, s = [i \in 1 .. n |-> s[i]]
    PROVE  IsList(s) /\ Len(s) = n
<1>1. s \in [1 .. n -> ToSet(s)]
  BY DEF ToSet
<1> QED BY <1>1 DEF IsList

LEMMA Appended ==
    ASSUME NEW s, IsList(s), NEW e
    PROVE  /\ IsList(Append(s, e)) /\ Len(s) \in Nat /\ Len(Append(s, e)) = Len(s) + 1
           /\ DOMAIN s = 1 .. Len(s) /\ DOMAIN Append(s, e) = 1 .. Len(s) + 1
           /\ \A i \in 1 .. Len(s) : Append(s, e)[i] = s[i]
           /\ Append(s, e)[Len(s) + 1] = e
<1> DEFINE S == ToSet(s) \cup {e}
           t == Append(s, e)
<1>1. s \in Seq(S) /\ e \in S
  BY DEF IsList
<1>2. /\ t \in Seq(S) /\ Len(s) \in Nat /\ Len(t) = Len(s) + 1 /\ DOMAIN s = 1 .. Len(s)
      /\ DOMAIN t = 1 .. Len(s) + 1
      /\ \A i \in 1 .. Len(s) : t[i] = s[i]
      /\ t[Len(s) + 1] = e
  BY <1>1
<1> HIDE DEF t
<1>3. t = [i \in 1 .. Len(s) + 1 |-> t[i]]
  <2>1. t \in Seq(S) /\ Len(t) = Len(s) + 1
    BY <1>2
  <2>2. t \in [1 .. Len(t) -> S]
    BY <2>1
  <2> QED BY <2>1, <2>2
<1> QED BY <1>2, <1>3, ListOf DEF t

LEMMA TakenBatches ==
    ASSUME NEW bs, IsBatches(bs), NEW n \in 0 .. Len(bs) - 1
    PROVE  IsBatches(SubSeq(bs, 1, n))
<1>1. bs \in Seq(ToSet(bs))
  BY DEF IsBatches, IsList
<1>2. n \in Nat /\ SubSeq(bs, 1, n) = [i \in 1 .. n |-> bs[i]] /\ 1 .. n \subseteq DOMAIN bs
  BY <1>1
<1> QED BY <1>2, ListOf DEF IsBatches

(* What is left of commits when those without a cell are dropped.            *)
Keeps(kept, bs) == IsBatches(kept) /\ \A m \in DOMAIN kept : \E i \in DOMAIN bs : kept[m] = bs[i]

LEMMA FilledBatches ==
    ASSUME NEW n \in Nat, NEW bs, DOMAIN bs = 1 .. n, bs = [i \in 1 .. n |-> bs[i]],
           \A i \in 1 .. n : IsData(bs[i])
    PROVE  Keeps(Filled(bs), bs)
<1> DEFINE I == {i \in DOMAIN bs : DOMAIN bs[i] # {}}
<1>1. Filled(bs) = At(bs, I)
  BY DEF Filled, Where
<1>2. bs \in Seq(ToSet(bs)) /\ I \in SUBSET DOMAIN bs
  BY ListOf DEF IsList
<1> HIDE DEF I
<1>3. /\ Cardinality(I) \in Nat /\ DOMAIN At(bs, I) = 1 .. Cardinality(I)
      /\ \A m \in DOMAIN At(bs, I) : Nth(I, m) \in I /\ At(bs, I)[m] = bs[Nth(I, m)]
  BY <1>2, AtPositions
<1>4. At(bs, I) = [m \in 1 .. Cardinality(I) |-> At(bs, I)[m]]
  BY DEF At
<1>5. IsList(At(bs, I))
  BY <1>3, <1>4, ListOf
<1> QED BY <1>1, <1>2, <1>3, <1>5 DEF IsBatches, Keeps

(* A cell written is one of a batch, the others stay.                        *)
CameTo(d, bs, t) ==
    /\ DOMAIN t = DOMAIN d \cup UNION {DOMAIN bs[i] : i \in DOMAIN bs}
    /\ \A x \in DOMAIN t :
          \/ \E i \in DOMAIN bs : x \in DOMAIN bs[i] /\ t[x] = bs[i][x]
          \/ /\ x \in DOMAIN d /\ t[x] = d[x]
             /\ \A i \in DOMAIN bs : x \notin DOMAIN bs[i]

LEMMA WrittenIs ==
    ASSUME NEW d, NEW bs, IsList(bs)
    PROVE  CameTo(d, bs, Written(d, bs))
<1>1. DOMAIN Written(d, bs) = DOMAIN d \cup UNION {DOMAIN bs[i] : i \in DOMAIN bs}
  BY DEF Written
<1> SUFFICES ASSUME NEW x \in DOMAIN Written(d, bs)
             PROVE  \/ \E i \in DOMAIN bs : x \in DOMAIN bs[i] /\ Written(d, bs)[x] = bs[i][x]
                    \/ /\ x \in DOMAIN d /\ Written(d, bs)[x] = d[x]
                       /\ \A i \in DOMAIN bs : x \notin DOMAIN bs[i]
  BY <1>1 DEF CameTo
<1> DEFINE W == {i \in DOMAIN bs : x \in DOMAIN bs[i]}
<1>2. Written(d, bs)[x] = IF W = {} THEN d[x] ELSE bs[Max(W)][x]
  BY DEF Written
<1>3. CASE W = {}
  BY <1>1, <1>2, <1>3
<1>4. CASE W # {}
  <2>1. W \in SUBSET Nat /\ IsFiniteSet(W)
    <3>1. Len(bs) \in Nat /\ DOMAIN bs = 1 .. Len(bs)
      BY DEF IsList
    <3>2. IsFiniteSet(1 .. Len(bs))
      BY <3>1, FS_Interval
    <3> QED BY <3>1, <3>2, FS_Subset
  <2> HIDE DEF W
  <2>2. PICK m \in W : \A i \in W : i <= m
    BY <2>1, <1>4, LastPosition
  <2>3. \A i \in W : m >= i
    BY <2>1, <2>2
  <2>4. Max(W) \in W
    BY <2>3 DEF Max
  <2> QED BY <2>4, <1>2, <1>4 DEF W
<1> QED BY <1>3, <1>4

LEMMA WrittenData ==
    ASSUME NEW d, NEW bs, IsData(d), IsBatches(bs)
    PROVE  IsData(Written(d, bs))
<1>1. IsList(bs) /\ \A i \in DOMAIN bs : IsData(bs[i])
  BY DEF IsBatches
<1> SUFFICES ASSUME NEW x \in DOMAIN Written(d, bs)
             PROVE  /\ x = <<x[1], x[2], x[3]>>
                    /\ Written(d, bs)[x][1] \in {"n", "entity", "minted", "class", "specialize"}
  BY DEF IsData
<1>2. \/ \E i \in DOMAIN bs : x \in DOMAIN bs[i] /\ Written(d, bs)[x] = bs[i][x]
      \/ x \in DOMAIN d /\ Written(d, bs)[x] = d[x]
  BY <1>1, WrittenIs DEF CameTo
<1> QED BY <1>1, <1>2 DEF IsData

-----------------------------------------------------------------------------
(* One application: whole, cut short, or unrecorded. *)

(* Every entry of the record tells how its version came from the one before. *)
LogTook == \A i \in DOMAIN log : Took(snapshots[i], log[i].op, log[i].inverse, snapshots[i + 1])

(* The inductive invariant: OntologyClosed over lists, with the inverses     *)
(* typed that the clients may send back, and the record true.                *)
TemperInv ==
    /\ IsList(snapshots) /\ IsList(log) /\ IsList(chain) /\ IsList(said)
    /\ \A s \in DOMAIN snapshots : WellMade(snapshots[s])
    /\ IsData(cells)
    /\ \A i \in DOMAIN log : IsOperator(log[i].inverse)
    /\ Len(snapshots) = Len(log) + 1 /\ Len(said) = Len(snapshots)
    /\ Len(chain) \in Len(log) .. Len(log) + failures
    /\ failures \in 0 .. MaxFailures /\ torn \in BOOLEAN
    /\ Collided \/ NamesApart(onto)
    /\ LogTook

(* A commit that no question about the ontology sees: it writes to classes   *)
(* that are not in it, or adds a mark to entities that are there already.    *)
Harmless(b) ==
    \A x \in DOMAIN b : x[1] \in DOMAIN onto =>
        x[2] \in Extent(cells, x[1]) /\ x[3] \notin {"prop"} \X STRING
Unseen(op, batches) ==
    \A n \in 0 .. Len(batches) - 1 : ~Tears(op, n) => \A i \in 1 .. n : Harmless(batches[i])

(* What an operator hands to the engine.                                     *)
Fit(op, post, batches, inverse) ==
    /\ WellMade(post)
    /\ NamesApart(onto) => NamesApart(post) \/ Collides(onto, op)
    /\ IsBatches(batches) /\ Unseen(op, batches) /\ IsOperator(inverse)
    /\ Took(onto, op, inverse, post)

Answered == failures' > failures /\ ~torn' => Answers(onto, cells)' = Answers(onto, cells)

LEMMA LiveVersion ==
    ASSUME TemperInv
    PROVE  /\ Len(snapshots) \in Nat \ {0} /\ DOMAIN snapshots = 1 .. Len(snapshots)
           /\ onto = snapshots[Len(snapshots)] /\ WellMade(onto)
<1>1. snapshots \in Seq(ToSet(snapshots)) /\ log \in Seq(ToSet(log))
  BY DEF TemperInv, IsList
<1>2. Len(snapshots) = Len(log) + 1
  BY DEF TemperInv
<1>3. Len(snapshots) \in Nat \ {0} /\ DOMAIN snapshots = 1 .. Len(snapshots)
  BY <1>1, <1>2
<1> QED BY <1>3 DEF TemperInv, onto, Last

LEMMA AppliedKeeps ==
    ASSUME TemperInv, NEW op, NEW post, NEW batches, NEW inverse, Fit(op, post, batches, inverse),
           Applied(op, post, batches, inverse)
    PROVE  TemperInv'
<1> DEFINE entry == [op |-> op, inverse |-> inverse]
           view == [pre |-> Len(snapshots), op |-> op, onto |-> onto]
<1>1. /\ cells' = Written(cells, batches)
      /\ snapshots' = Append(snapshots, post) /\ log' = Append(log, entry)
      /\ chain' = Append(chain, view)
      /\ failures' = failures /\ torn' = torn
  BY DEF Applied
<1>2. PICK answers : said' = Append(said, answers)
  BY DEF Applied
<1>3. /\ IsList(snapshots) /\ IsList(log) /\ IsList(chain) /\ IsList(said)
      /\ Len(snapshots) = Len(log) + 1 /\ Len(said) = Len(snapshots)
      /\ Len(chain) \in Len(log) .. Len(log) + failures
      /\ failures \in 0 .. MaxFailures /\ torn \in BOOLEAN
  BY DEF TemperInv
<1> HIDE DEF entry, view
<1>4. /\ IsList(snapshots') /\ Len(snapshots) \in Nat /\ Len(snapshots') = Len(snapshots) + 1
      /\ DOMAIN snapshots = 1 .. Len(snapshots) /\ DOMAIN snapshots' = 1 .. Len(snapshots) + 1
      /\ \A i \in 1 .. Len(snapshots) : snapshots'[i] = snapshots[i]
      /\ snapshots'[Len(snapshots) + 1] = post
  BY <1>1, <1>3, Appended
<1>5. /\ IsList(log') /\ Len(log) \in Nat /\ Len(log') = Len(log) + 1
      /\ DOMAIN log = 1 .. Len(log) /\ DOMAIN log' = 1 .. Len(log) + 1
      /\ \A i \in 1 .. Len(log) : log'[i] = log[i]
      /\ log'[Len(log) + 1] = entry
  BY <1>1, <1>3, Appended
<1>6. IsList(chain') /\ Len(chain) \in Nat /\ Len(chain') = Len(chain) + 1
  BY <1>1, <1>3, Appended
<1>7. IsList(said') /\ Len(said) \in Nat /\ Len(said') = Len(said) + 1
  BY <1>2, <1>3, Appended
<1>8. onto' = post
  BY <1>4 DEF onto, Last
<1>9. \A s \in DOMAIN snapshots' : WellMade(snapshots'[s])
  BY <1>4 DEF TemperInv, Fit
<1>10. IsData(cells')
  BY <1>1, WrittenData DEF TemperInv, Fit
<1>11. \A i \in DOMAIN log' : IsOperator(log'[i].inverse)
  BY <1>5 DEF TemperInv, Fit, entry
<1>12. Collided' \/ NamesApart(onto)'
  <2>1. CASE Collided
    <3>1. PICK i \in DOMAIN log : Collides(snapshots[i], log[i].op)
      BY <2>1 DEF Collided
    <3>2. i \in DOMAIN log' /\ snapshots'[i] = snapshots[i] /\ log'[i] = log[i]
      BY <1>3, <1>4, <1>5
    <3> QED BY <3>1, <3>2 DEF Collided
  <2>2. CASE Collides(onto, op)
    <3>1. onto = snapshots'[Len(log) + 1]
      BY <1>3, <1>4, LiveVersion
    <3>2. Len(log) + 1 \in DOMAIN log' /\ log'[Len(log) + 1].op = op
      BY <1>5 DEF entry
    <3> QED BY <2>2, <3>1, <3>2 DEF Collided
  <2>3. CASE NamesApart(post)
    BY <2>3, <1>8
  <2> QED BY <2>1, <2>2, <2>3 DEF TemperInv, Fit
<1>13. Len(chain') \in Len(log') .. Len(log') + failures'
  BY <1>1, <1>3, <1>5, <1>6, MaxFailuresAssumption
<1>14. LogTook'
  <2> SUFFICES ASSUME NEW i \in DOMAIN log'
               PROVE  Took(snapshots'[i], log'[i].op, log'[i].inverse, snapshots'[i + 1])
    BY DEF LogTook
  <2>1. CASE i \in DOMAIN log
    <3>1. log'[i] = log[i] /\ snapshots'[i] = snapshots[i] /\ snapshots'[i + 1] = snapshots[i + 1]
      BY <2>1, <1>3, <1>4, <1>5
    <3> QED BY <2>1, <3>1 DEF TemperInv, LogTook
  <2>2. CASE i = Len(log) + 1
    <3>1. log'[i].op = op /\ log'[i].inverse = inverse
      BY <2>2, <1>5 DEF entry
    <3>2. i = Len(snapshots) /\ snapshots'[i] = onto /\ snapshots'[i + 1] = post
      BY <2>2, <1>3, <1>4, LiveVersion
    <3> QED BY <3>1, <3>2 DEF Fit
  <2> QED BY <2>1, <2>2, <1>5
<1> QED
  BY <1>1, <1>3, <1>4, <1>5, <1>6, <1>7, <1>9, <1>10, <1>11, <1>12, <1>13, <1>14 DEF TemperInv

(* A step that leaves ontology and record alone.                             *)
LEMMA UnmovedKeeps ==
    ASSUME TemperInv, UNCHANGED <<snapshots, log, said>>, IsData(cells)', failures < MaxFailures,
           failures' = failures + 1, torn' \in BOOLEAN, IsList(chain'), Len(chain') \in Len(chain) .. Len(chain) + 1
    PROVE  TemperInv'
<1>1. Len(log) \in Nat /\ Len(chain) \in Len(log) .. Len(log) + failures /\ failures \in 0 .. MaxFailures
  BY Appended DEF TemperInv
<1>2. Len(chain') \in Len(log) .. Len(log) + failures' /\ failures' \in 0 .. MaxFailures
  BY <1>1, MaxFailuresAssumption
<1>3. onto' = onto /\ Collided' = Collided /\ LogTook' = LogTook
  BY DEF onto, Collided, LogTook
<1> QED BY <1>2, <1>3 DEF TemperInv

-----------------------------------------------------------------------------
(* What is answered from cells that differ elsewhere. *)

LEMMA SubtreeWithin ==
    ASSUME NEW o, NEW c
    PROVE  Subtree(o, c) \subseteq DOMAIN o
BY DEF Subtree

LEMMA SameRows ==
    ASSUME NEW o, NEW c, NEW d1, NEW d2, \A u \in DOMAIN o : Extent(d1, u) = Extent(d2, u)
    PROVE  Rows(o, d1, c) = Rows(o, d2, c)
<1>1. [u \in Subtree(o, c) |-> Extent(d1, u)] = [u \in Subtree(o, c) |-> Extent(d2, u)]
  BY SubtreeWithin
<1> QED BY <1>1 DEF Rows

LEMMA RowOf ==
    ASSUME NEW o, NEW c, NEW d, NEW row \in Rows(o, d, c)
    PROVE  row = <<row[1], row[2]>> /\ row[1] \in DOMAIN o
<1> DEFINE extents == [u \in Subtree(o, c) |-> Extent(d, u)]
           shard(e) == CHOOSE u \in DOMAIN extents : e \in extents[u]
<1>1. PICK e \in UNION {extents[u] : u \in DOMAIN extents} : row = <<shard(e), e>>
  BY DEF Rows, RowsOf
<1>2. PICK u \in DOMAIN extents : e \in extents[u]
  OBVIOUS
<1>3. shard(e) \in DOMAIN extents
  BY <1>2
<1>4. DOMAIN extents \subseteq DOMAIN o
  BY SubtreeWithin
<1> HIDE DEF shard, extents
<1> QED BY <1>1, <1>3, <1>4

LEMMA KeyIsProp ==
    ASSUME NEW o, WellMade(o), NEW c \in DOMAIN o, NEW name, Resolve(o, c, name) # {}
    PROVE  KeyOf(o, c, name) \in {"prop"} \X STRING
<1>1. ASSUME NEW u \in DOMAIN o, HasProp(o, u, name) PROVE Prop(o, u, name) \in PropertyDef
  BY <1>1, ClassTypes, PropFound DEF HasProp, Prop
<1>2. AncestorsOf(o, c) \subseteq DOMAIN o
  BY DEF AncestorsOf
<1>3. \A p \in Resolve(o, c, name) : p \in PropertyDef
  BY <1>1, <1>2 DEF Resolve
<1>4. \A p \in PropertyDef : p.key \in {"prop"} \X STRING
  BY DEF PropertyDef
<1> QED BY <1>3, <1>4 DEF KeyOf

LEMMA SameAnswers ==
    ASSUME NEW o, WellMade(o), NEW d1, NEW d2, \A u \in DOMAIN o : Extent(d1, u) = Extent(d2, u),
           \A u \in DOMAIN o : \A e : \A k \in {"prop"} \X STRING : CellAt(d1, u, e, k) = CellAt(d2, u, e, k)
    PROVE  Answers(o, d1) = Answers(o, d2)
<1>1. ASSUME NEW q \in Queries(o) PROVE Execute(o, d1, q, Lift(o, q)) = Execute(o, d2, q, Lift(o, q))
  <2> DEFINE k == KeyOf(o, q.class, q.prop)
             b == Direct(q.class, k)
             Read(d) == {<<row[2], Value(o, d, b, row)>> : row \in Rows(o, d, q.class)}
  <2>1. q.class \in DOMAIN o /\ Resolve(o, q.class, q.prop) # {}
    BY DEF Queries
  <2>2. k \in {"prop"} \X STRING
    BY <2>1, KeyIsProp
  <2> HIDE DEF k
  <2>3. /\ b.class = q.class /\ b.hops = <<>> /\ b.key = k /\ b.shift = 0 /\ b.origins = {}
        /\ b.regroup = <<>>
    BY DEF Direct
  <2>4. Lift(o, q) = {b}
    BY DEF Lift, k
  <2> HIDE DEF b
  <2>5. ASSUME NEW d PROVE Execute(o, d, q, {b}) = Read(d)
    BY <2>1, <2>3 DEF Execute
  <2>6. Rows(o, d1, q.class) = Rows(o, d2, q.class)
    BY SameRows
  <2>7. ASSUME NEW row \in Rows(o, d1, q.class) PROVE Value(o, d1, b, row) = Value(o, d2, b, row)
    <3>1. CellAt(d1, row[1], row[2], k) = CellAt(d2, row[1], row[2], k)
      BY <2>2, RowOf
    <3> QED BY <3>1, <2>3 DEF Value
  <2>8. Read(d1) = Read(d2)
    BY <2>6, <2>7
  <2> QED BY <2>4, <2>5, <2>8
<1> QED BY <1>1 DEF Answers

LEMMA HarmlessUnseen ==
    ASSUME TemperInv, NEW bs, IsBatches(bs), \A i \in DOMAIN bs : Harmless(bs[i])
    PROVE  Answers(onto, Written(cells, bs)) = Answers(onto, cells)
<1> DEFINE d == Written(cells, bs)
<1>0. IsList(bs)
  BY DEF IsBatches
<1>1. CameTo(cells, bs, d)
  BY <1>0, WrittenIs
<1> HIDE DEF d
<1>2. ASSUME NEW u \in DOMAIN onto PROVE Extent(d, u) = Extent(cells, u)
  <2>1. Extent(cells, u) \subseteq Extent(d, u)
    BY <1>1 DEF CameTo, Extent
  <2>2. ASSUME NEW x \in DOMAIN d, x[1] = u PROVE x[2] \in Extent(cells, u)
    <3>1. CASE x \in DOMAIN cells
      BY <3>1, <2>2 DEF Extent
    <3>2. CASE x \notin DOMAIN cells
      BY <3>2, <2>2, <1>1 DEF CameTo, Harmless
    <3> QED BY <3>1, <3>2
  <2>3. Extent(d, u) \subseteq Extent(cells, u)
    BY <2>2 DEF Extent
  <2> QED BY <2>1, <2>3
<1>3. ASSUME NEW u \in DOMAIN onto, NEW e, NEW k \in {"prop"} \X STRING
      PROVE  CellAt(d, u, e, k) = CellAt(cells, u, e, k)
  <2> DEFINE x == <<u, e, k>>
  <2>1. \A i \in DOMAIN bs : x \notin DOMAIN bs[i]
    BY DEF Harmless
  <2>2. x \in DOMAIN d <=> x \in DOMAIN cells
    BY <1>1, <2>1 DEF CameTo
  <2>3. x \in DOMAIN cells => d[x] = cells[x]
    BY <1>1, <2>1 DEF CameTo
  <2> QED BY <2>2, <2>3 DEF CellAt
<1>4. WellMade(onto)
  BY LiveVersion
<1> QED BY <1>2, <1>3, <1>4, SameAnswers DEF d

LEMMA EffectAnswered ==
    ASSUME TemperInv, NEW op, NEW post, NEW batches, NEW inverse, Fit(op, post, batches, inverse),
           Effect(op, post, batches, inverse)
    PROVE  Answered
<1> SUFFICES ASSUME failures' > failures, ~torn'
             PROVE  Answers(onto, cells)' = Answers(onto, cells)
  BY DEF Answered
<1>1. ~Applied(op, post, batches, inverse)
  BY DEF Applied, TemperInv
<1>2. ~Unrecorded(op, post, batches)
  BY DEF Unrecorded
<1>3. Raised(op, post, batches)
  BY <1>1, <1>2 DEF Effect
<1>4. PICK n \in 0 .. Len(batches) - 1 :
         cells' = Written(cells, SubSeq(batches, 1, n)) /\ torn' = (torn \/ Tears(op, n))
  BY <1>3 DEF Raised
<1> DEFINE bs == SubSeq(batches, 1, n)
<1>5. IsBatches(bs) /\ \A i \in DOMAIN bs : Harmless(bs[i])
  <2>1. IsBatches(bs)
    BY TakenBatches DEF Fit
  <2>2. batches \in Seq(ToSet(batches))
    BY DEF Fit, IsBatches, IsList
  <2>3. bs = [i \in 1 .. n |-> batches[i]]
    BY <2>2
  <2>4. ~Tears(op, n)
    BY <1>4
  <2> QED BY <2>1, <2>3, <2>4 DEF Fit, Unseen
<1>6. onto' = onto
  BY <1>3 DEF Raised, onto
<1>7. Answers(onto, cells)' = Answers(onto, cells')
  BY <1>6 DEF Answers
<1> QED BY <1>4, <1>5, <1>7, HarmlessUnseen

LEMMA EffectKeeps ==
    ASSUME TemperInv, NEW op, NEW post, NEW batches, NEW inverse, Fit(op, post, batches, inverse),
           Effect(op, post, batches, inverse)
    PROVE  TemperInv' /\ Answered
<1> SUFFICES TemperInv'
  BY EffectAnswered
<1>1. CASE Applied(op, post, batches, inverse)
  BY <1>1, AppliedKeeps
<1>2. CASE Raised(op, post, batches)
  <2>1. /\ UNCHANGED <<snapshots, log, said>> /\ chain' = chain
        /\ failures < MaxFailures /\ failures' = failures + 1
    BY <1>2 DEF Raised
  <2>2. PICK n \in 0 .. Len(batches) - 1 :
           cells' = Written(cells, SubSeq(batches, 1, n)) /\ torn' = (torn \/ Tears(op, n))
    BY <1>2 DEF Raised
  <2>3. IsBatches(SubSeq(batches, 1, n))
    BY TakenBatches DEF Fit
  <2>4. IsData(cells')
    BY <2>2, <2>3, WrittenData DEF TemperInv
  <2>5. torn' \in BOOLEAN
    BY <2>2
  <2>6. IsList(chain') /\ Len(chain') \in Len(chain) .. Len(chain) + 1
    BY <2>1, Appended DEF TemperInv
  <2> QED BY <2>1, <2>4, <2>5, <2>6, UnmovedKeeps
<1>3. CASE Unrecorded(op, post, batches)
  <2> DEFINE view == [pre |-> Len(snapshots), op |-> op, onto |-> onto]
  <2>1. /\ UNCHANGED <<snapshots, log, said>> /\ chain' = Append(chain, view)
        /\ failures < MaxFailures /\ failures' = failures + 1
        /\ cells' = Written(cells, batches) /\ torn' = TRUE
    BY <1>3 DEF Unrecorded
  <2> HIDE DEF view
  <2>2. IsData(cells')
    BY <2>1, WrittenData DEF TemperInv, Fit
  <2>3. IsList(chain') /\ Len(chain') \in Len(chain) .. Len(chain) + 1
    BY <2>1, Appended DEF TemperInv
  <2> QED BY <2>1, <2>2, <2>3, UnmovedKeeps
<1> QED BY <1>1, <1>2, <1>3 DEF Effect

-----------------------------------------------------------------------------
(* Every operator hands the engine what fits. *)

LEMMA NoBatches ==
    ASSUME NEW op
    PROVE  IsBatches(<<>>) /\ Unseen(op, <<>>)
<1>1. <<>> \in Seq(ToSet(<<>>)) /\ Len(<<>>) = 0
  OBVIOUS
<1>2. \A n \in 0 .. 0 - 1 : FALSE
  OBVIOUS
<1> QED BY <1>1, <1>2 DEF IsBatches, IsList, Unseen

LEMMA EvolvingFits ==
    ASSUME TemperInv, NEW op, NEW post, NEW batches, NEW inverse, Evolves(onto, post), IsBatches(batches),
           Unseen(op, batches), IsOperator(inverse), Took(onto, op, inverse, post)
    PROVE  Fit(op, post, batches, inverse)
BY DEF Evolves, Fit

LEMMA AddClassKeeps ==
    ASSUME TemperInv, NEW op, IsOperator(op), op.op = "AddClass", AddClass(op)
    PROVE  TemperInv' /\ Answered
<1> DEFINE post == Plus(onto, op.uri, NewClass(op.name, {op.parent} \ {NoClass}, <<>>))
           inverse == [op |-> "DropClass", uri |-> op.uri]
<1>1. op.uri \in STRING /\ op.name \in STRING /\ op.parent \in STRING
  BY OperatorFields
<1>2. /\ op.uri \notin DOMAIN onto /\ (op.parent # NoClass => op.parent \in DOMAIN onto)
      /\ Effect(op, post, <<>>, inverse)
  BY DEF AddClass, Live
<1>3. IsOperator(inverse)
  BY <1>1 DEF IsOperator, PlainOperator
<1>4. Evolves(onto, post)
  BY <1>1, <1>2, AddClassRewrites, LiveVersion
<1>5. Took(onto, op, inverse, post)
  BY <1>2 DEF Took, AddedClass
<1> HIDE DEF post, inverse
<1> QED BY <1>2, <1>3, <1>4, <1>5, EvolvingFits, EffectKeeps, NoBatches

LEMMA DropClassKeeps ==
    ASSUME TemperInv, NEW op, IsOperator(op), op.op = "DropClass", DropClass(op)
    PROVE  TemperInv' /\ Answered
<1> DEFINE post == Minus(onto, {op.uri})
<1>1. /\ Children(onto, op.uri) = {} /\ InboundRanges(onto, op.uri) = {}
      /\ Effect(op, post, <<>>, NoOp)
  BY DEF DropClass
<1>2. IsOperator(NoOp)
  BY DEF IsOperator, PlainOperator
<1>3. Evolves(onto, post)
  BY <1>1, UnreferencedGo, LiveVersion
<1>4. Took(onto, op, NoOp, post)
  BY DEF Took, DroppedClass
<1> HIDE DEF post
<1> QED BY <1>1, <1>2, <1>3, <1>4, EvolvingFits, EffectKeeps, NoBatches

LEMMA RenameClassKeeps ==
    ASSUME TemperInv, NEW op, IsOperator(op), op.op = "RenameClass", RenameClass(op)
    PROVE  TemperInv' /\ Answered
<1> DEFINE post == [onto EXCEPT ![op.uri].name = op.name]
           inverse == [op EXCEPT !.name = onto[op.uri].name]
<1>1. op \in [op : {"RenameClass"}, uri : STRING, name : STRING]
  BY OperatorFields
<1>2. op.uri \in DOMAIN onto /\ Effect(op, post, <<>>, inverse)
  BY DEF RenameClass, Live
<1>3. onto[op.uri].name \in STRING
  BY <1>2, ClassTypes, LiveVersion DEF ClassDef
<1>4. IsOperator(inverse)
  BY <1>1, <1>3 DEF IsOperator, PlainOperator
<1>5. Evolves(onto, post)
  BY <1>1, <1>2, RenameClassRewrites, LiveVersion
<1>6. Took(onto, op, inverse, post)
  BY <1>1, <1>2 DEF Took, RenamedClass
<1> HIDE DEF post, inverse
<1> QED BY <1>2, <1>4, <1>5, <1>6, EvolvingFits, EffectKeeps, NoBatches

LEMMA RenamePropertyKeeps ==
    ASSUME TemperInv, NEW op, IsOperator(op), op.op = "RenameProperty", RenameProperty(op)
    PROVE  TemperInv' /\ Answered
<1> DEFINE post == [onto EXCEPT
                      ![op.uri].props = Changed(@, op.prop, LAMBDA p : [p EXCEPT !.name = op.name]),
                      ![op.uri].shapes = ReplaceAll(@, op.prop, op.name)]
           inverse == [op EXCEPT !.prop = op.name, !.name = op.prop]
<1>1. op \in [op : {"RenameProperty"}, uri : STRING, prop : STRING, name : STRING]
  BY OperatorFields
<1>2. op.uri \in DOMAIN onto /\ ~HasProp(onto, op.uri, op.name)
  BY DEF RenameProperty, Live
<1>3. Effect(op, post, <<>>, inverse)
  BY DEF RenameProperty
<1>4. IsOperator(inverse)
  BY <1>1 DEF IsOperator, PlainOperator
<1>5. Evolves(onto, post)
  BY <1>1, <1>2, RenamePropertyRewrites, LiveVersion
<1>6. Took(onto, op, inverse, post)
  BY <1>1, <1>2 DEF Took, RenamedProperty, HasProp
<1> HIDE DEF post, inverse
<1> QED BY <1>3, <1>4, <1>5, <1>6, EvolvingFits, EffectKeeps, NoBatches

LEMMA RetireClassKeeps ==
    ASSUME TemperInv, NEW op, IsOperator(op), op.op = "RetireClass", RetireClass(op)
    PROVE  TemperInv' /\ Answered
<1> DEFINE post == [onto EXCEPT ![op.uri].retired = TRUE]
           inverse == [op EXCEPT !.op = "UnretireClass"]
<1>1. op \in [op : {"RetireClass"}, uri : STRING]
  BY OperatorFields
<1>2. op.uri \in DOMAIN onto /\ Effect(op, post, <<>>, inverse)
  BY DEF RetireClass, Live
<1>3. IsOperator(inverse)
  BY <1>1 DEF IsOperator, PlainOperator
<1>4. Evolves(onto, post)
  BY <1>2, RetireRewrites, LiveVersion
<1>5. Took(onto, op, inverse, post)
  <2>1. ~onto[op.uri].retired
    BY DEF RetireClass, Live
  <2> QED BY <1>1, <1>2, <2>1 DEF Took, RetiredClass
<1> HIDE DEF post, inverse
<1> QED BY <1>2, <1>3, <1>4, <1>5, EvolvingFits, EffectKeeps, NoBatches

LEMMA UnretireClassKeeps ==
    ASSUME TemperInv, NEW op, IsOperator(op), op.op = "UnretireClass", UnretireClass(op)
    PROVE  TemperInv' /\ Answered
<1> DEFINE post == [onto EXCEPT ![op.uri].retired = FALSE]
           inverse == [op EXCEPT !.op = "RetireClass"]
<1>1. op \in [op : {"UnretireClass"}, uri : STRING]
  BY OperatorFields
<1>2. op.uri \in DOMAIN onto /\ Effect(op, post, <<>>, inverse)
  BY DEF UnretireClass
<1>3. IsOperator(inverse)
  BY <1>1 DEF IsOperator, PlainOperator
<1>4. Evolves(onto, post)
  BY <1>2, RetireRewrites, LiveVersion
<1>5. Took(onto, op, inverse, post)
  <2>1. onto[op.uri].retired
    BY DEF UnretireClass
  <2> QED BY <1>1, <1>2, <2>1 DEF Took, UnretiredClass
<1> HIDE DEF post, inverse
<1> QED BY <1>2, <1>3, <1>4, <1>5, EvolvingFits, EffectKeeps, NoBatches

LEMMA AddPropertyKeeps ==
    ASSUME TemperInv, NEW op, IsOperator(op), op.op = "AddProperty", AddProperty(op)
    PROVE  TemperInv' /\ Answered
<1> DEFINE post == [onto EXCEPT ![op.uri].props =
                      Append(@, [name |-> op.prop, key |-> Key(op.prop), range |-> op.range, unit |-> 0])]
           inverse == [op |-> "DropProperty", uri |-> op.uri, prop |-> op.prop]
<1>1. op \in [op : {"AddProperty"}, uri : STRING, prop : STRING, range : STRING]
  BY OperatorFields
<1>2. /\ op.uri \in DOMAIN onto /\ Resolve(onto, op.uri, op.prop) = {}
      /\ op.range # NoClass => op.range \in DOMAIN onto
  BY DEF AddProperty, Live
<1>3. Effect(op, post, <<>>, inverse)
  BY DEF AddProperty
<1>4. IsOperator(inverse)
  BY <1>1 DEF IsOperator, PlainOperator
<1>5. Evolves(onto, post)
  BY <1>1, <1>2, AddPropertyRewrites, LiveVersion
<1>6. Took(onto, op, inverse, post)
  <2> DEFINE p == [name |-> op.prop, key |-> Key(op.prop), range |-> op.range, unit |-> 0]
  <2>1. op.prop \notin Names(onto[op.uri].props)
    BY <1>2 DEF Resolve, HasProp
  <2>2. p \in PropertyDef /\ p.name = op.prop
    BY <1>1 DEF PropertyDef, Key
  <2>3. AddedProperty(onto, op, inverse, post)
    BY <1>2, <2>1, <2>2 DEF AddedProperty
  <2> QED BY <2>3 DEF Took
<1> HIDE DEF post, inverse
<1> QED BY <1>3, <1>4, <1>5, <1>6, EvolvingFits, EffectKeeps, NoBatches

LEMMA DropPropertyKeeps ==
    ASSUME TemperInv, NEW op, IsOperator(op), op.op = "DropProperty", DropProperty(op)
    PROVE  TemperInv' /\ Answered
<1> DEFINE post == [onto EXCEPT ![op.uri].props = Without(@, op.prop),
                                ![op.uri].shapes = Where(@, LAMBDA s : s # op.prop)]
<1>1. op \in [op : {"DropProperty"}, uri : STRING, prop : STRING]
  BY OperatorFields
<1>2. op.uri \in DOMAIN onto /\ Effect(op, post, <<>>, NoOp)
  BY DEF DropProperty, Live
<1>3. IsOperator(NoOp)
  BY DEF IsOperator, PlainOperator
<1>4. Evolves(onto, post)
  BY <1>1, <1>2, DropPropertyRewrites, LiveVersion
<1>5. Took(onto, op, NoOp, post)
  BY <1>2 DEF Took, DroppedProperty
<1> HIDE DEF post
<1> QED BY <1>2, <1>3, <1>4, <1>5, EvolvingFits, EffectKeeps, NoBatches

LEMMA AddFacetKeeps ==
    ASSUME TemperInv, NEW op, IsOperator(op), op.op = "AddFacet", AddFacet(op)
    PROVE  TemperInv' /\ Answered
<1> DEFINE post == [onto EXCEPT ![op.uri].shapes = InsertedAt(@, op.prop, op.index)]
           inverse == [op EXCEPT !.op = "RetireFacet", !.index = 0]
<1>1. op \in [op : {"AddFacet"}, uri : STRING, prop : STRING, index : Nat]
  BY OperatorFields
<1>2. op.uri \in DOMAIN onto /\ Effect(op, post, <<>>, inverse)
  BY DEF AddFacet, Live
<1>3. IsOperator(inverse)
  BY <1>1 DEF IsOperator, PlainOperator
<1>4. Evolves(onto, post)
  BY <1>1, <1>2, AddFacetRewrites, LiveVersion
<1>5. Took(onto, op, inverse, post)
  BY <1>1, <1>2 DEF Took, AddedFacet
<1> HIDE DEF post, inverse
<1> QED BY <1>2, <1>3, <1>4, <1>5, EvolvingFits, EffectKeeps, NoBatches

LEMMA RetireFacetKeeps ==
    ASSUME TemperInv, NEW op, IsOperator(op), op.op = "RetireFacet", RetireFacet(op)
    PROVE  TemperInv' /\ Answered
<1> DEFINE shapes == onto[op.uri].shapes
           at == SelectInSeq(shapes, LAMBDA s : s = op.prop)
           post == [onto EXCEPT ![op.uri].shapes = RemoveAt(@, at)]
           inverse == [op EXCEPT !.op = "AddFacet", !.index = at]
<1>1. op \in [op : {"RetireFacet"}, uri : STRING, prop : STRING, index : Nat]
  BY OperatorFields
<1>2. op.uri \in DOMAIN onto /\ op.prop \in ToSet(shapes) /\ Effect(op, post, <<>>, inverse)
  BY DEF RetireFacet, Live
<1>3. at \in 1 .. Len(shapes) /\ DOMAIN shapes = 1 .. Len(shapes) /\ shapes[at] = op.prop
  <2>1. shapes \in Seq(STRING)
    BY <1>2, ClassTypes, LiveVersion
  <2> DEFINE I == {i \in DOMAIN shapes : shapes[i] = op.prop}
  <2>2. I # {} /\ I \in SUBSET Nat /\ DOMAIN shapes = 1 .. Len(shapes)
    BY <1>2, <2>1 DEF ToSet
  <2>3. PICK i \in I : \A j \in I : i <= j
    BY <2>2, FirstPosition
  <2>4. at = Min(I)
    BY <2>2 DEF SelectInSeq
  <2>5. Min(I) \in I
    BY <2>3 DEF Min
  <2> QED BY <2>2, <2>4, <2>5
<1>4. IsOperator(inverse)
  <2>1. at \in Nat
    BY <1>3
  <2> HIDE DEF at
  <2>2. inverse \in [op : {"AddFacet"}, uri : STRING, prop : STRING, index : Nat]
    BY <1>1, <2>1
  <2> QED BY <2>2 DEF IsOperator, PlainOperator
<1>5. Evolves(onto, post)
  BY <1>2, <1>3, RetireFacetRewrites, LiveVersion
<1>6. Took(onto, op, inverse, post)
  <2>1. at \in DOMAIN shapes /\ shapes[at] = op.prop
    BY <1>3
  <2> HIDE DEF at
  <2>2. RetiredFacet(onto, op, inverse, post)
    BY <1>1, <1>2, <2>1 DEF RetiredFacet
  <2> QED BY <2>2 DEF Took
<1> HIDE DEF post, inverse, at
<1> QED BY <1>2, <1>4, <1>5, <1>6, EvolvingFits, EffectKeeps, NoBatches

LEMMA SubtreeFinite ==
    ASSUME NEW o, NEW c, IsOntology(o)
    PROVE  IsFiniteSet(Subtree(o, c))
BY FS_Subset DEF Subtree, IsOntology

(* The commits of an operator that goes over the classes of a set.           *)
LEMMA ClassBatches ==
    ASSUME NEW C, IsFiniteSet(C), NEW bs, DOMAIN bs = 1 .. Cardinality(C), bs = [i \in DOMAIN bs |-> bs[i]],
           \A i \in DOMAIN bs : IsData(bs[i])
    PROVE  Keeps(Filled(bs), bs)
<1>1. Cardinality(C) \in Nat
  BY FS_CardinalityType
<1> QED BY <1>1, FilledBatches

LEMMA InPlaceUnseen ==
    ASSUME NEW op, op.op \in {"RetypeProperty", "DemoteClass"}, NEW batches, IsBatches(batches)
    PROVE  Unseen(op, batches)
<1>1. Len(batches) \in Nat
  BY DEF IsBatches, IsList
<1>2. \A n \in 0 .. Len(batches) - 1 : ~Tears(op, n) => n = 0
  BY <1>1 DEF Tears
<1> QED BY <1>2 DEF Unseen

LEMMA HarmlessBatches ==
    ASSUME NEW op, NEW batches, IsBatches(batches), \A m \in DOMAIN batches : Harmless(batches[m])
    PROVE  Unseen(op, batches)
<1>1. Len(batches) \in Nat /\ DOMAIN batches = 1 .. Len(batches)
  BY DEF IsBatches, IsList
<1> QED BY <1>1 DEF Unseen

LEMMA KeptHarmless ==
    ASSUME NEW kept, NEW bs, Keeps(kept, bs), \A i \in DOMAIN bs : Harmless(bs[i])
    PROVE  IsBatches(kept) /\ \A m \in DOMAIN kept : Harmless(kept[m])
BY DEF Keeps

LEMMA HeldCell ==
    ASSUME NEW d, NEW c, NEW k, NEW x \in {c} \X Holders(d, c, k) \X {k}, IsData(d)
    PROVE  /\ x = <<c, x[2], k>> /\ x[2] \in Holders(d, c, k) /\ x \in DOMAIN d
           /\ d[x][1] \in {"n", "entity", "minted", "class", "specialize"}
BY DEF Holders, IsData

LEMMA RetypePropertyKeeps ==
    ASSUME TemperInv, NEW op, IsOperator(op), op.op = "RetypeProperty", RetypeProperty(op)
    PROVE  TemperInv' /\ Answered
<1> DEFINE key == Prop(onto, op.uri, op.prop).key
           Converted(c) == [x \in {c} \X Holders(cells, c, key) \X {key} |-> Shifted(cells[x], op.by)]
           post == [onto EXCEPT ![op.uri].props =
                      Changed(@, op.prop, LAMBDA q : [q EXCEPT !.unit = @ + op.by])]
           order == SetToSeq(Subtree(onto, op.uri))
           bs == [i \in 1 .. Cardinality(Subtree(onto, op.uri)) |-> Converted(order[i])]
           batches == Filled(bs)
           inverse == [op EXCEPT !.by = 0 - op.by]
<1>1. op \in [op : {"RetypeProperty"}, uri : STRING, prop : STRING, by : Int]
  BY OperatorFields
<1>2. op.uri \in DOMAIN onto /\ Effect(op, post, batches, inverse)
  BY DEF RetypeProperty, Live, PerClass
<1>3. IsOperator(inverse)
  <2>1. 0 - op.by \in Int
    BY <1>1
  <2>2. inverse \in [op : {"RetypeProperty"}, uri : STRING, prop : STRING, by : Int]
    BY <1>1, <2>1
  <2> QED BY <2>2 DEF IsOperator, PlainOperator
<1>4. Evolves(onto, post)
  <2>1. op.by \in Int
    BY <1>1
  <2>2. post = Retyped(onto, op.uri, op.prop, op.by)
    BY DEF Retyped
  <2> QED BY <1>2, <2>1, <2>2, RetypeRewrites, LiveVersion
<1>5. ASSUME NEW c PROVE IsData(Converted(c))
  <2>1. ASSUME NEW x \in {c} \X Holders(cells, c, key) \X {key}
        PROVE  /\ x = <<x[1], x[2], x[3]>>
               /\ Shifted(cells[x], op.by)[1] \in {"n", "entity", "minted", "class", "specialize"}
    BY HeldCell DEF TemperInv, Shifted
  <2> QED BY <2>1 DEF IsData
<1> HIDE DEF Converted
<1>6. IsBatches(batches)
  <2>1. IsFiniteSet(Subtree(onto, op.uri))
    BY SubtreeFinite, LiveVersion DEF WellMade
  <2> QED BY <1>5, <2>1, ClassBatches DEF Keeps
<1>8. Took(onto, op, inverse, post)
  <2>1. post = Retyped(onto, op.uri, op.prop, op.by)
    BY DEF Retyped
  <2>2. op.uri \in DOMAIN onto /\ op.by \in Int /\ inverse.op = "RetypeProperty" /\ inverse.uri = op.uri
        /\ inverse.prop = op.prop /\ inverse.by = 0 - op.by
    BY <1>1, <1>2
  <2> HIDE DEF post, inverse
  <2> QED BY <2>1, <2>2 DEF Took, RetypedProperty
<1> HIDE DEF post, inverse, batches
<1>7. Unseen(op, batches)
  BY <1>6, InPlaceUnseen
<1> QED BY <1>2, <1>3, <1>4, <1>6, <1>7, <1>8, EvolvingFits, EffectKeeps

LEMMA GeneralizeKeeps ==
    ASSUME TemperInv, NEW op, IsOperator(op), op.op = "Generalize", Generalize(op)
    PROVE  TemperInv' /\ Answered
<1> DEFINE at == Position(onto[op.uri].props, op.prop)
           post == MovedProp(onto, op.uri, op.parent, op.prop, op.index)
           inverse == [op EXCEPT !.op = "Specialize", !.index = at]
<1>1. op \in [op : {"Generalize"}, uri : STRING, parent : STRING, prop : STRING, index : Nat]
  BY OperatorFields
<1>2. /\ op.uri \in DOMAIN onto /\ op.parent \in DOMAIN onto
      /\ HasProp(onto, op.uri, op.prop) /\ Resolve(onto, op.parent, op.prop) = {}
      /\ Effect(op, post, <<>>, inverse)
  BY DEF Generalize, Live
<1>3. IsOperator(inverse)
  <2>1. at \in Nat
    BY <1>2, PropFound, ClassTypes, LiveVersion DEF HasProp
  <2> HIDE DEF at
  <2>2. inverse \in [op : {"Specialize"}, uri : STRING, parent : STRING, prop : STRING, index : Nat]
    BY <1>1, <2>1
  <2> QED BY <2>2 DEF IsOperator, PlainOperator
<1>4. ~HasProp(onto, op.parent, op.prop)
  BY <1>2 DEF Resolve
<1>5. Evolves(onto, post)
  BY <1>1, <1>2, <1>4, MovedProperty, LiveVersion DEF Evolves
<1>6. Took(onto, op, inverse, post)
  <2>1. op.uri # op.parent
    BY <1>2, <1>4
  <2>2. inverse.op = "Specialize" /\ inverse.uri = op.uri /\ inverse.parent = op.parent
        /\ inverse.prop = op.prop /\ inverse.index = at /\ op.index \in Nat
    BY <1>1
  <2> HIDE DEF inverse
  <2> QED BY <1>2, <1>4, <2>1, <2>2 DEF Took, GeneralizedProperty
<1> HIDE DEF post, inverse
<1> QED BY <1>2, <1>3, <1>5, <1>6, EvolvingFits, EffectKeeps, NoBatches

LEMMA SpecializeKeeps ==
    ASSUME TemperInv, NEW op, IsOperator(op), op.op = "Specialize", Specialize(op)
    PROVE  TemperInv' /\ Answered
<1> DEFINE key == Prop(onto, op.parent, op.prop).key
           Marked(c) == [x \in {c} \X Holders(cells, c, key) \X {Quarantine} |->
                            <<"specialize", op.prop, op.uri>>]
           at == Position(onto[op.parent].props, op.prop)
           post == MovedProp(onto, op.parent, op.uri, op.prop, op.index)
           C == Subtree(onto, op.parent) \ Subtree(onto, op.uri)
           order == SetToSeq(C)
           bs == [i \in 1 .. Cardinality(C) |-> Marked(order[i])]
           batches == Filled(bs)
           inverse == [op EXCEPT !.op = "Generalize", !.index = at]
<1>1. op \in [op : {"Specialize"}, uri : STRING, parent : STRING, prop : STRING, index : Nat]
  BY OperatorFields
<1>2. /\ op.uri \in DOMAIN onto /\ op.parent \in DOMAIN onto
      /\ HasProp(onto, op.parent, op.prop)
      /\ Effect(op, post, batches, inverse)
  BY DEF Specialize, Live, PerClass
<1>3. IsOperator(inverse)
  <2>1. at \in Nat
    BY <1>2, PropFound, ClassTypes, LiveVersion DEF HasProp
  <2> HIDE DEF at
  <2>2. inverse \in [op : {"Generalize"}, uri : STRING, parent : STRING, prop : STRING, index : Nat]
    BY <1>1, <2>1
  <2> QED BY <2>2 DEF IsOperator, PlainOperator
<1>4. WellMade(post) /\ (NamesApart(onto) => NamesApart(post) \/ Collides(onto, op))
  <2>1. WellMade(post)
    BY <1>1, <1>2, MovedProperty, LiveVersion
  <2>2. NamesApart(onto) /\ (op.uri = op.parent \/ ~HasProp(onto, op.uri, op.prop)) => NamesApart(post)
    BY <1>1, <1>2, MovedProperty, LiveVersion
  <2> QED BY <2>1, <2>2 DEF Collides
<1>5. ASSUME NEW c PROVE IsData(Marked(c)) /\ Harmless(Marked(c))
  <2>1. IsData(Marked(c))
    BY DEF IsData
  <2>2. Quarantine \notin {"prop"} \X STRING
    BY DEF Quarantine
  <2>3. Holders(cells, c, key) \subseteq Extent(cells, c)
    BY DEF Holders
  <2>4. Harmless(Marked(c))
    BY <2>2, <2>3 DEF Harmless
  <2> QED BY <2>1, <2>4
<1> HIDE DEF Marked
<1>6. IsBatches(batches) /\ \A m \in DOMAIN batches : Harmless(batches[m])
  <2>1. IsFiniteSet(C)
    BY SubtreeFinite, LiveVersion, FS_Subset DEF WellMade
  <2> HIDE DEF C
  <2>2. /\ DOMAIN bs = 1 .. Cardinality(C) /\ bs = [i \in DOMAIN bs |-> bs[i]]
        /\ \A i \in DOMAIN bs : IsData(bs[i]) /\ Harmless(bs[i])
    BY <1>5
  <2> HIDE DEF bs
  <2>3. Keeps(Filled(bs), bs)
    BY <2>1, <2>2, ClassBatches
  <2> QED BY <2>2, <2>3, KeptHarmless
<1>8. Took(onto, op, inverse, post)
  <2>1. inverse.op = "Generalize" /\ inverse.uri = op.uri /\ inverse.parent = op.parent
        /\ inverse.prop = op.prop /\ inverse.index = at /\ op.index \in Nat
    BY <1>1
  <2> HIDE DEF inverse, batches
  <2> QED BY <1>2, <2>1 DEF Took, SpecializedProperty
<1> HIDE DEF post, inverse, batches
<1>7. Unseen(op, batches)
  BY <1>6, HarmlessBatches
<1> QED BY <1>2, <1>3, <1>4, <1>6, <1>7, <1>8, EffectKeeps DEF Fit

LEMMA FrontedBatches ==
    ASSUME NEW b, IsData(b), NEW bs, IsBatches(bs)
    PROVE  IsBatches(Filled(<<b>> \o bs))
<1> DEFINE S == ToSet(bs) \cup {b}
           t == <<b>> \o bs
           n == Len(bs) + 1
<1>1. bs \in Seq(S) /\ <<b>> \in Seq(S) /\ \A i \in DOMAIN bs : IsData(bs[i])
  BY DEF IsBatches, IsList
<1>2. t \in Seq(S) /\ n \in Nat /\ Len(t) = n
  BY <1>1
<1>3. \A i \in 1 .. n : IsData(t[i])
  BY <1>1
<1> HIDE DEF t
<1>4. t \in [1 .. Len(t) -> S]
  BY <1>2
<1>5. DOMAIN t = 1 .. n /\ t = [i \in 1 .. n |-> t[i]]
  BY <1>2, <1>4
<1> QED BY <1>2, <1>3, <1>5, FilledBatches DEF t, Keeps

LEMMA ListedSet ==
    ASSUME NEW C, IsFiniteSet(C)
    PROVE  \A i \in 1 .. Cardinality(C) : SetToSeq(C)[i] \in C
<1>1. ExistsBijection(1 .. Cardinality(C), C)
  BY FS_CardinalityType
<1>2. PICK f : f \in Bijection(1 .. Cardinality(C), C)
  BY <1>1 DEF ExistsBijection
<1>3. f \in [1 .. Cardinality(C) -> C] /\ IsInjective(f)
  BY <1>2 DEF Bijection, Injection, IsInjective
<1>4. SetToSeq(C) \in [1 .. Cardinality(C) -> C]
  BY <1>3 DEF SetToSeq
<1> QED BY <1>4

(* The front of a list of commits is the first of them, unless it is empty.  *)
LEMMA FirstBatch ==
    ASSUME NEW b, IsData(b), Harmless(b), NEW bs, IsBatches(bs),
           DOMAIN b = {} => \A m \in DOMAIN bs : DOMAIN bs[m] = {},
           DOMAIN Filled(<<b>> \o bs) # {}
    PROVE  Harmless(Filled(<<b>> \o bs)[1])
<1> DEFINE S == ToSet(bs) \cup {b}
           t == <<b>> \o bs
           I == {i \in DOMAIN t : DOMAIN t[i] # {}}
<1>1. bs \in Seq(S) /\ <<b>> \in Seq(S)
  BY DEF IsBatches, IsList
<1>2. /\ t \in Seq(S) /\ Len(t) = Len(bs) + 1 /\ Len(bs) \in Nat /\ t[1] = b
      /\ DOMAIN bs = 1 .. Len(bs) /\ DOMAIN t = 1 .. Len(bs) + 1
      /\ \A i \in 2 .. Len(bs) + 1 : t[i] = bs[i - 1]
  BY <1>1
<1>3. Filled(t) = At(t, I)
  BY DEF Filled, Where
<1> HIDE DEF t
<1>4. I \in SUBSET DOMAIN t /\ (DOMAIN b # {} => 1 \in I)
  BY <1>2
<1>5. DOMAIN b # {}
  <2>1. SUFFICES ASSUME DOMAIN b = {} PROVE I = {}
    <3>1. I = {} => DOMAIN At(t, I) = {}
      BY FS_EmptySet DEF At
    <3> QED BY <2>1, <3>1, <1>3 DEF t
  <2>2. ASSUME NEW i \in DOMAIN t PROVE DOMAIN t[i] = {}
    <3>1. CASE i = 1
      BY <3>1, <2>1, <1>2
    <3>2. CASE i # 1
      <4>1. i \in 2 .. Len(bs) + 1 /\ i - 1 \in DOMAIN bs
        BY <3>2, <1>2
      <4> QED BY <4>1, <2>1, <1>2
    <3> QED BY <3>1, <3>2
  <2> QED BY <2>2
<1> HIDE DEF I
<1>6. /\ DOMAIN At(t, I) = 1 .. Cardinality(I) /\ Cardinality(I) \in Nat
      /\ \A n \in DOMAIN At(t, I) : Nth(I, n) \in I /\ At(t, I)[n] = t[Nth(I, n)]
      /\ \A i \in I : \E n \in DOMAIN At(t, I) : Nth(I, n) = i
      /\ \A m, n \in DOMAIN At(t, I) : m < n => Nth(I, m) < Nth(I, n)
  BY <1>2, <1>4, AtPositions
<1>7. PICK n \in DOMAIN At(t, I) : Nth(I, n) = 1
  BY <1>4, <1>5, <1>6
<1>8. n = 1
  <2>1. 1 \in DOMAIN At(t, I) /\ n \in Nat /\ n >= 1
    BY <1>6, <1>7
  <2>2. Nth(I, 1) \in DOMAIN t
    BY <2>1, <1>4, <1>6
  <2>3. Nth(I, 1) >= 1
    BY <2>2, <1>2
  <2>4. 1 < n => Nth(I, 1) < 1
    BY <2>1, <1>6, <1>7
  <2> QED BY <2>1, <2>2, <2>3, <2>4, <1>2
<1>9. At(t, I)[1] = b
  BY <1>2, <1>6, <1>7, <1>8
<1> QED BY <1>3, <1>9 DEF t

LEMMA FirstUnseen ==
    ASSUME NEW op, op.op = "PromoteProperty", NEW batches, IsBatches(batches),
           DOMAIN batches # {} => Harmless(batches[1])
    PROVE  Unseen(op, batches)
<1>1. Len(batches) \in Nat /\ DOMAIN batches = 1 .. Len(batches)
  BY DEF IsBatches, IsList
<1> SUFFICES ASSUME NEW n \in 0 .. Len(batches) - 1, ~Tears(op, n), NEW i \in 1 .. n
             PROVE  Harmless(batches[i])
  BY DEF Unseen
<1>2. n \in Int /\ ~(n > 1)
  BY <1>1 DEF Tears
<1>3. i = 1 /\ DOMAIN batches # {}
  BY <1>1, <1>2
<1> QED BY <1>3

LEMMA PromotePropertyKeeps ==
    ASSUME TemperInv, NEW op, IsOperator(op), op.op = "PromoteProperty", PromoteProperty(op)
    PROVE  TemperInv' /\ Answered
<1> DEFINE C == Subtree(onto, op.uri)
           p == Prop(onto, op.uri, op.prop)
           key == p.key
           Linked(c) == [x \in {c} \X Holders(cells, c, key) \X {key} |-> Minted(op.new, cells[x])]
           values == UNION {{cells[<<c, e, key>>] : e \in Holders(cells, c, key)} : c \in C}
           minted == [x \in {<<op.new, Minted(op.new, v), ValueKey>> : v \in values} |-> x[2][3]]
           post == Promoted(onto, op.uri, op.prop, op.new, op.name)
           order == SetToSeq(C)
           bs == [i \in 1 .. Cardinality(C) |-> Linked(order[i])]
           batches == Filled(<<minted>> \o Filled(bs))
           inverse == [op EXCEPT !.op = "DemoteClass"]
<1>1. op \in [op : {"PromoteProperty"}, uri : STRING, prop : STRING, new : STRING, name : STRING]
  BY OperatorFields
<1>2. op.uri \in DOMAIN onto /\ HasProp(onto, op.uri, op.prop) /\ op.new \notin DOMAIN onto
  BY DEF PromoteProperty, Live
<1>3. Effect(op, post, batches, inverse)
  BY DEF PromoteProperty, PerClass, Promoted
<1>4. IsOperator(inverse)
  BY <1>1 DEF IsOperator, PlainOperator
<1>5. Evolves(onto, post)
  BY <1>1, <1>2, PromoteRewrites, LiveVersion
<1>6. ASSUME NEW c PROVE IsData(Linked(c))
  <2>1. ASSUME NEW x \in {c} \X Holders(cells, c, key) \X {key}
        PROVE  /\ x = <<x[1], x[2], x[3]>> /\ Minted(op.new, cells[x])[1] = "minted"
    BY HeldCell DEF TemperInv, Minted
  <2> QED BY <2>1 DEF IsData
<1>7. IsData(minted)
  <2>1. ASSUME NEW x \in DOMAIN minted
        PROVE  /\ x = <<x[1], x[2], x[3]>>
               /\ minted[x][1] \in {"n", "entity", "minted", "class", "specialize"}
    <3>1. PICK v \in values : x = <<op.new, Minted(op.new, v), ValueKey>>
      OBVIOUS
    <3>2. PICK c \in C : \E e \in Holders(cells, c, key) : v = cells[<<c, e, key>>]
      OBVIOUS
    <3>3. PICK e \in Holders(cells, c, key) : v = cells[<<c, e, key>>]
      BY <3>2
    <3>4. v[1] \in {"n", "entity", "minted", "class", "specialize"}
      BY <3>3 DEF Holders, TemperInv, IsData
    <3>5. minted[x] = v
      BY <3>1 DEF Minted
    <3> QED BY <3>1, <3>4, <3>5
  <2> QED BY <2>1 DEF IsData
<1>9. Harmless(minted)
  <2>1. ASSUME NEW x \in DOMAIN minted PROVE x[1] = op.new
    OBVIOUS
  <2> HIDE DEF minted
  <2> QED BY <1>2, <2>1 DEF Harmless
<1>10. DOMAIN minted = {} => \A c \in C : DOMAIN Linked(c) = {}
  <2>1. ASSUME NEW c \in C, NEW x \in DOMAIN Linked(c) PROVE DOMAIN minted # {}
    <3>1. x[2] \in Holders(cells, c, key)
      OBVIOUS
    <3>2. cells[<<c, x[2], key>>] \in values
      BY <3>1
    <3> HIDE DEF values
    <3> QED BY <3>2
  <2> QED BY <2>1
<1> HIDE DEF Linked, minted
<1>8. IsBatches(batches)
  <2>1. IsFiniteSet(C)
    BY SubtreeFinite, LiveVersion DEF WellMade
  <2>2. IsBatches(Filled(bs))
    BY <1>6, <2>1, ClassBatches DEF Keeps
  <2> QED BY <1>7, <2>2, FrontedBatches
<1>11. DOMAIN batches # {} => Harmless(batches[1])
  <2>1. IsFiniteSet(C)
    BY SubtreeFinite, LiveVersion DEF WellMade
  <2>2. \A i \in 1 .. Cardinality(C) : order[i] \in C
    BY <2>1, ListedSet
  <2>3. Keeps(Filled(bs), bs)
    <3>1. /\ DOMAIN bs = 1 .. Cardinality(C) /\ bs = [i \in DOMAIN bs |-> bs[i]]
          /\ \A i \in DOMAIN bs : IsData(bs[i])
      BY <1>6
    <3> HIDE DEF bs, C
    <3> QED BY <3>1, <2>1, ClassBatches
  <2>4. DOMAIN minted = {} => \A m \in DOMAIN Filled(bs) : DOMAIN Filled(bs)[m] = {}
    BY <1>10, <2>2, <2>3 DEF Keeps
  <2> QED BY <1>7, <1>9, <2>3, <2>4, FirstBatch DEF Keeps
<1>13. Took(onto, op, inverse, post)
  <2>1. Prop(onto, op.uri, op.prop).range = NoClass
    BY DEF PromoteProperty
  <2>2. inverse.op = "DemoteClass" /\ inverse.uri = op.uri /\ inverse.prop = op.prop /\ inverse.new = op.new
    BY <1>1
  <2> HIDE DEF inverse
  <2> QED BY <1>2, <2>1, <2>2 DEF Took, PromotedProperty
<1> HIDE DEF post, inverse, batches
<1>12. Unseen(op, batches)
  BY <1>8, <1>11, FirstUnseen
<1> QED BY <1>3, <1>4, <1>5, <1>8, <1>12, <1>13, EvolvingFits, EffectKeeps

LEMMA DemoteClassKeeps ==
    ASSUME TemperInv, NEW op, IsOperator(op), op.op = "DemoteClass", DemoteClass(op)
    PROVE  TemperInv' /\ Answered
<1> DEFINE C == Subtree(onto, op.uri)
           p == Prop(onto, op.uri, op.prop)
           vp == Prop(onto, op.new, "value")
           Joined(c) == [x \in {y \in {c} \X Holders(cells, c, p.key) \X {p.key} :
                                  cells[y] \in Holders(cells, op.new, vp.key)} |->
                            cells[<<op.new, cells[x], vp.key>>]]
           post == Demoted(onto, op.uri, op.prop, op.new)
           order == SetToSeq(C)
           bs == [i \in 1 .. Cardinality(C) |-> Joined(order[i])]
           batches == Filled(bs)
           inverse == [op EXCEPT !.op = "PromoteProperty", !.name = onto[op.new].name]
<1>1. op \in [op : {"DemoteClass"}, uri : STRING, prop : STRING, new : STRING, name : STRING]
  BY OperatorFields
<1>2. /\ op.uri \in DOMAIN onto /\ op.new \in DOMAIN onto /\ HasProp(onto, op.new, "value")
      /\ Children(onto, op.new) = {} /\ InboundRanges(onto, op.new) = {<<op.uri, op.prop>>}
  BY DEF DemoteClass, Live
<1>3. Effect(op, post, batches, inverse)
  BY DEF DemoteClass, PerClass, Demoted
<1>4. IsOperator(inverse)
  <2>1. onto[op.new].name \in STRING
    BY <1>2, ClassTypes, LiveVersion DEF ClassDef
  <2> QED BY <1>1, <2>1 DEF IsOperator, PlainOperator
<1>5. Evolves(onto, post)
  BY <1>1, <1>2, DemoteRewrites, LiveVersion
<1>6. ASSUME NEW c PROVE IsData(Joined(c))
  <2>1. ASSUME NEW x \in DOMAIN Joined(c)
        PROVE  /\ x = <<x[1], x[2], x[3]>>
               /\ Joined(c)[x][1] \in {"n", "entity", "minted", "class", "specialize"}
    <3>1. x \in {c} \X Holders(cells, c, p.key) \X {p.key} /\ cells[x] \in Holders(cells, op.new, vp.key)
      OBVIOUS
    <3>2. <<op.new, cells[x], vp.key>> \in DOMAIN cells
      BY <3>1 DEF Holders
    <3>3. Joined(c)[x] = cells[<<op.new, cells[x], vp.key>>]
      OBVIOUS
    <3> QED BY <3>1, <3>2, <3>3 DEF TemperInv, IsData
  <2> QED BY <2>1 DEF IsData
<1> HIDE DEF Joined
<1>7. IsBatches(batches)
  <2>1. IsFiniteSet(C)
    BY SubtreeFinite, LiveVersion DEF WellMade
  <2> QED BY <1>6, <2>1, ClassBatches DEF Keeps
<1>9. Took(onto, op, inverse, post)
  <2>1. HasProp(onto, op.uri, op.prop) /\ Prop(onto, op.uri, op.prop).range = op.new
    BY DEF DemoteClass
  <2>2. inverse.op = "PromoteProperty" /\ inverse.uri = op.uri /\ inverse.prop = op.prop /\ inverse.new = op.new
        /\ inverse.name = onto[op.new].name
    BY <1>1
  <2> HIDE DEF inverse
  <2> QED BY <1>2, <2>1, <2>2 DEF Took, DemotedClass
<1> HIDE DEF post, inverse, batches
<1>8. Unseen(op, batches)
  BY <1>7, InPlaceUnseen
<1> QED BY <1>3, <1>4, <1>5, <1>7, <1>8, <1>9, EvolvingFits, EffectKeeps

LEMMA RowCell ==
    ASSUME NEW d, IsData(d), NEW c, NEW e, NEW k \in Row(d, c, e)
    PROVE  <<c, e, k>> \in DOMAIN d /\ d[<<c, e, k>>][1] \in {"n", "entity", "minted", "class", "specialize"}
BY DEF Row, IsData

LEMMA TwoBatches ==
    ASSUME NEW bs, DOMAIN bs = 1 .. 2, bs = [i \in 1 .. 2 |-> bs[i]], IsData(bs[1]), IsData(bs[2])
    PROVE  Keeps(Filled(bs), bs)
<1>1. \A i \in 1 .. 2 : IsData(bs[i])
  <2> SUFFICES ASSUME NEW i \in 1 .. 2 PROVE IsData(bs[i])
    OBVIOUS
  <2>1. i = 1 \/ i = 2
    OBVIOUS
  <2> QED BY <2>1
<1>2. 2 \in Nat
  OBVIOUS
<1> QED BY <1>1, <1>2, FilledBatches

LEMMA SplitClassKeeps ==
    ASSUME TemperInv, NEW op, IsOperator(op), op.op = "SplitClass", SplitClass(op)
    PROVE  TemperInv' /\ Answered
<1> DEFINE c == op.uri
           u1 == op.parts[1].uri
           u2 == op.parts[2].uri
           key == IF op.disc.by[1] = "origin" THEN op.disc.by ELSE KeyOf(onto, c, op.disc.by[2])
           First(e) == CellAt(cells, c, e, key) \in op.disc.values
           Routed(i) == {e \in Extent(cells, c) : First(e) <=> i = 1}
           Moved(i) == [x \in UNION {{<<op.parts[i].uri, e, k>> : k \in Row(cells, c, e)} : e \in Routed(i)} |->
                           cells[<<c, x[2], x[3]>>]]
           bs == [i \in 1 .. 2 |-> Moved(i)]
           batches == Filled(bs)
           post == Plus(Plus(Minus(onto, {c}), u1, [onto[c] EXCEPT !.name = op.parts[1].name]),
                        u2, [onto[c] EXCEPT !.name = op.parts[2].name])
           inverse == [op |-> "MergeClasses", parts |-> op.parts, uri |-> c, name |-> onto[c].name,
                       align |-> <<>>, origin |-> Origin(u1)]
<1>1. op.uri \in STRING /\ op.parts \in PartDef \X PartDef
  BY OperatorFields
<1>2. /\ u1 \in STRING /\ u2 \in STRING
      /\ op.parts[1].name \in STRING /\ op.parts[2].name \in STRING
  BY <1>1 DEF PartDef
<1>3. /\ c \in DOMAIN onto /\ {u1, u2} \cap DOMAIN onto = {} /\ u1 # u2
      /\ Children(onto, c) = {} /\ InboundRanges(onto, c) = {}
  BY DEF SplitClass, Live
<1>4. Effect(op, post, batches, inverse)
  BY DEF SplitClass
<1>5. IsOperator(inverse)
  <2>1. onto[c].name \in STRING
    BY <1>3, ClassTypes, LiveVersion DEF ClassDef
  <2> QED BY <1>1, <2>1 DEF IsOperator
<1>6. Evolves(onto, post)
  BY <1>2, <1>3, SplitRewrites, LiveVersion
<1>7. ASSUME NEW i PROVE IsData(Moved(i))
  <2>1. ASSUME NEW x \in DOMAIN Moved(i)
        PROVE  /\ x = <<x[1], x[2], x[3]>>
               /\ Moved(i)[x][1] \in {"n", "entity", "minted", "class", "specialize"}
    <3>1. PICK e \in Routed(i) : \E k \in Row(cells, c, e) : x = <<op.parts[i].uri, e, k>>
      OBVIOUS
    <3>2. PICK k \in Row(cells, c, e) : x = <<op.parts[i].uri, e, k>>
      BY <3>1
    <3>3. Moved(i)[x] = cells[<<c, e, k>>]
      BY <3>2
    <3> QED BY <3>2, <3>3, RowCell DEF TemperInv
  <2> QED BY <2>1 DEF IsData
<1>8. Harmless(Moved(1)) /\ Harmless(Moved(2))
  BY <1>3 DEF Harmless
<1> HIDE DEF Moved
<1>9. IsBatches(batches) /\ \A m \in DOMAIN batches : Harmless(batches[m])
  <2>1. \A i \in DOMAIN bs : Harmless(bs[i])
    <3> SUFFICES ASSUME NEW i \in 1 .. 2 PROVE Harmless(bs[i])
      OBVIOUS
    <3>1. i = 1 \/ i = 2
      OBVIOUS
    <3> QED BY <3>1, <1>8
  <2>2. Keeps(Filled(bs), bs)
    BY <1>7, TwoBatches
  <2> HIDE DEF bs
  <2> QED BY <2>1, <2>2, KeptHarmless
<1>11. Took(onto, op, inverse, post)
  <2>1. PartedClass(onto, op, inverse, post)
    BY <1>3 DEF PartedClass
  <2> QED BY <2>1 DEF Took
<1> HIDE DEF post, inverse, batches
<1>10. Unseen(op, batches)
  BY <1>9, HarmlessBatches
<1> QED BY <1>4, <1>5, <1>6, <1>9, <1>10, <1>11, EvolvingFits, EffectKeeps

LEMMA MergeClassesKeeps ==
    ASSUME TemperInv, NEW op, IsOperator(op), op.op = "MergeClasses", MergeClasses(op)
    PROVE  TemperInv' /\ Answered
<1> DEFINE c1 == op.parts[1].uri
           c2 == op.parts[2].uri
           fold == FoldMap(onto, op)
           Map(i) == IF i = 1 THEN <<>> ELSE KeyMap(onto, op)
           Source(i, x) == CHOOSE k \in Row(cells, op.parts[i].uri, x[2]) : Mapped(Map(i), k) = x[3]
           moved(i) == UNION {{<<op.uri, e, Mapped(Map(i), k)>> : k \in Row(cells, op.parts[i].uri, e)} :
                                 e \in Extent(cells, op.parts[i].uri)}
           tagged(i) == {op.uri} \X Extent(cells, op.parts[i].uri) \X {op.origin}
           Copied(i) == [x \in tagged(i) \cup moved(i) |->
                           IF x \in tagged(i) THEN <<"class", op.parts[i].uri>>
                           ELSE cells[<<op.parts[i].uri, x[2], Source(i, x)>>]]
           bs == [i \in 1 .. 2 |-> Copied(i)]
           batches == Filled(bs)
           post == MergedInto(onto, c1, c2, op.uri, op.name, DOMAIN fold)
           apart == [op |-> "SplitClass", uri |-> op.uri,
                     parts |-> <<[uri |-> c1, name |-> onto[c1].name], [uri |-> c2, name |-> onto[c2].name]>>,
                     disc |-> [by |-> op.origin, values |-> {<<"class", c1>>}]]
           inverse == IF DOMAIN fold # Names(onto[c2].props) THEN NoOp ELSE apart
<1>1. op.uri \in STRING /\ op.parts \in PartDef \X PartDef /\ op.name \in STRING
  BY OperatorFields
<1>2. /\ c1 \in DOMAIN onto /\ c2 \in DOMAIN onto /\ op.uri \notin DOMAIN onto
      /\ \A c \in {c1, c2} : Children(onto, c) = {} /\ InboundRanges(onto, c) = {}
  BY DEF MergeClasses, Live
<1>3. Effect(op, post, batches, inverse)
  BY DEF MergeClasses, MergedInto
<1>4. IsOperator(inverse)
  <2>1. /\ c1 \in STRING /\ onto[c1].name \in STRING
        /\ c2 \in STRING /\ onto[c2].name \in STRING
    BY <1>2, ClassTypes, LiveVersion DEF ClassDef
  <2>2. IsOperator(apart)
    BY <1>1, <2>1 DEF IsOperator, PartDef
  <2>3. IsOperator(NoOp)
    BY DEF IsOperator, PlainOperator
  <2> QED BY <2>2, <2>3
<1>5. \A x \in Names(onto[c2].props) : HasProp(onto, c1, x) => x \in DOMAIN fold
  BY DEF FoldMap
<1>6. Evolves(onto, post)
  <2> HIDE DEF fold
  <2> QED BY <1>1, <1>2, <1>5, MergeRewrites, LiveVersion
<1>7. ASSUME NEW i PROVE IsData(Copied(i))
  <2>1. ASSUME NEW x \in tagged(i) \cup moved(i)
        PROVE  /\ x = <<x[1], x[2], x[3]>>
               /\ Copied(i)[x][1] \in {"n", "entity", "minted", "class", "specialize"}
    <3>1. CASE x \in tagged(i)
      BY <3>1
    <3>2. CASE x \notin tagged(i)
      <4>1. PICK e \in Extent(cells, op.parts[i].uri) :
               \E k \in Row(cells, op.parts[i].uri, e) : x = <<op.uri, e, Mapped(Map(i), k)>>
        BY <3>2
      <4>2. PICK k \in Row(cells, op.parts[i].uri, e) : x = <<op.uri, e, Mapped(Map(i), k)>>
        BY <4>1
      <4>3. x = <<x[1], x[2], x[3]>> /\ x[2] = e /\ x[3] = Mapped(Map(i), k)
        BY <4>2
      <4> HIDE DEF Map
      <4>4. Source(i, x) \in Row(cells, op.parts[i].uri, x[2])
        BY <4>3
      <4>5. Copied(i)[x] = cells[<<op.parts[i].uri, x[2], Source(i, x)>>]
        BY <3>2
      <4> HIDE DEF Copied, Source
      <4> QED BY <4>3, <4>4, <4>5, RowCell DEF TemperInv
    <3> QED BY <3>1, <3>2
  <2> QED BY <2>1 DEF IsData
<1>8. ASSUME NEW i PROVE Harmless(Copied(i))
  <2>1. ASSUME NEW x \in tagged(i) \cup moved(i) PROVE x[1] = op.uri
    OBVIOUS
  <2>2. DOMAIN Copied(i) = tagged(i) \cup moved(i)
    OBVIOUS
  <2> HIDE DEF Copied, tagged, moved
  <2> QED BY <1>2, <2>1, <2>2 DEF Harmless
<1> HIDE DEF Copied
<1>9. IsBatches(batches) /\ \A m \in DOMAIN batches : Harmless(batches[m])
  <2>1. \A i \in DOMAIN bs : Harmless(bs[i])
    BY <1>8
  <2>2. Keeps(Filled(bs), bs)
    BY <1>7, TwoBatches
  <2> HIDE DEF bs
  <2> QED BY <2>1, <2>2, KeptHarmless
<1>11. Took(onto, op, inverse, post)
  <2>1. c1 # c2
    BY DEF MergeClasses
  <2>2. DOMAIN fold \subseteq Names(onto[c2].props)
    BY DEF FoldMap
  <2>3. \/ inverse = NoOp
        \/ /\ inverse.op = "SplitClass" /\ inverse.uri = op.uri
           /\ inverse.parts = <<[uri |-> c1, name |-> onto[c1].name], [uri |-> c2, name |-> onto[c2].name]>>
    OBVIOUS
  <2> HIDE DEF fold, inverse
  <2>4. MergedClasses(onto, op, inverse, post)
    BY <1>2, <1>5, <2>1, <2>2, <2>3 DEF MergedClasses
  <2> QED BY <2>4 DEF Took
<1> HIDE DEF post, inverse, batches
<1>10. Unseen(op, batches)
  BY <1>9, HarmlessBatches
<1> QED BY <1>3, <1>4, <1>6, <1>9, <1>10, <1>11, EvolvingFits, EffectKeeps

-----------------------------------------------------------------------------
(* The engine as a whole. *)

LEMMA DoKeeps ==
    ASSUME TemperInv, NEW op, IsOperator(op), Do(op)
    PROVE  TemperInv' /\ Answered
BY AddClassKeeps, DropClassKeeps, RenameClassKeeps, RenamePropertyKeeps, RetireClassKeeps, UnretireClassKeeps,
   AddPropertyKeeps, DropPropertyKeeps, AddFacetKeeps, RetireFacetKeeps, RetypePropertyKeeps, GeneralizeKeeps,
   SpecializeKeeps, SplitClassKeeps, MergeClassesKeeps, PromotePropertyKeeps, DemoteClassKeeps
   DEF Do

LEMMA TemperBegins == TemperInit => TemperInv
<1> SUFFICES ASSUME TemperInit PROVE TemperInv
  OBVIOUS
<1>1. PICK base \in Bases : snapshots = <<base.onto>> /\ cells = base.cells
  BY DEF TemperInit
<1>2. chain = <<>> /\ log = <<>> /\ failures = 0 /\ torn = FALSE
  BY DEF TemperInit
<1>3. PICK answers : said = <<answers>>
  BY DEF TemperInit
<1>4. WellMade(base.onto) /\ NamesApart(base.onto) /\ IsData(base.cells)
  BY BasesAssumption DEF WellMade
<1>5. /\ IsList(snapshots) /\ IsList(log) /\ IsList(chain) /\ IsList(said)
      /\ Len(snapshots) = 1 /\ Len(log) = 0 /\ Len(chain) = 0 /\ Len(said) = 1
  <2>1. ASSUME NEW e PROVE IsList(<<e>>) /\ Len(<<e>>) = 1
    <3>1. <<e>> \in Seq(ToSet(<<e>>))
      BY DEF ToSet
    <3> QED BY <3>1 DEF IsList
  <2>2. IsList(<<>>) /\ Len(<<>>) = 0
    BY NoBatches DEF IsBatches
  <2> QED BY <2>1, <2>2, <1>1, <1>2, <1>3
<1>6. \A s \in DOMAIN snapshots : WellMade(snapshots[s])
  BY <1>1, <1>4
<1>7. onto = base.onto
  BY <1>1 DEF onto, Last
<1>8. \A i \in DOMAIN log : IsOperator(log[i].inverse)
  BY <1>2
<1>9. IsData(cells) /\ NamesApart(onto)
  BY <1>1, <1>4, <1>7
<1>10. /\ Len(snapshots) = Len(log) + 1 /\ Len(said) = Len(snapshots)
       /\ Len(chain) \in Len(log) .. Len(log) + failures
       /\ failures \in 0 .. MaxFailures /\ torn \in BOOLEAN
  <2>1. failures = 0 /\ torn = FALSE /\ Len(snapshots) = 1 /\ Len(log) = 0 /\ Len(chain) = 0 /\ Len(said) = 1
    BY <1>2, <1>5
  <2>2. Len(snapshots) = Len(log) + 1 /\ Len(said) = Len(snapshots) /\ torn \in BOOLEAN
    <3>1. 0 + 1 = 1
      OBVIOUS
    <3>2. Len(log) + 1 = 1
      BY <2>1, <3>1
    <3> QED BY <2>1, <3>2
  <2>3. 0 \in 0 .. 0 + 0 /\ 0 \in 0 .. MaxFailures
    BY MaxFailuresAssumption
  <2> QED BY <2>1, <2>2, <2>3
<1>11. LogTook
  BY <1>2 DEF LogTook
<1> QED
  BY <1>5, <1>6, <1>8, <1>9, <1>10, <1>11 DEF TemperInv

LEMMA TemperMoves ==
    ASSUME TemperInv, TemperNext
    PROVE  TemperInv' /\ Answered
<1>1. CASE Propose
  BY <1>1, MenuAssumption, DoKeeps DEF Propose
<1>2. CASE Undo
  BY <1>2, DoKeeps DEF Undo, TemperInv
<1> QED BY <1>1, <1>2 DEF TemperNext

LEMMA TemperSteps == TemperInv /\ [TemperNext]_temperVars => TemperInv'
<1>1. TemperInv /\ UNCHANGED temperVars => TemperInv'
  BY DEF temperVars, TemperInv, onto, Collided, LogTook
<1> QED BY <1>1, TemperMoves

(* The engine keeps its snapshots sound and its books in step, whatever is   *)
(* proposed, undone or raised half way.                                      *)
THEOREM TemperInvariant == TemperSpec => []TemperInv
BY TemperBegins, TemperSteps, PTL DEF TemperSpec

(* No sequence of the seventeen operators and of undo tokens, of any length  *)
(* and over any populated ontology, leaves a parent or the range of a link   *)
(* dangling in any version, nor, unless a property was specialized onto      *)
(* another of its name, two properties of a class with one name.             *)
THEOREM OntologyStaysClosed == TemperSpec => []OntologyClosed
<1>1. TemperInv => OntologyClosed
  BY DEF TemperInv, OntologyClosed, TemperTypeOK, WellMade
<1> QED BY <1>1, TemperInvariant, PTL

(* An application that raises half way leaves every answer as it was, unless *)
(* it was converting cells in place: until the ontology is swapped, a commit *)
(* goes to classes it does not know or marks entities that are there.        *)
THEOREM FailureStaysInvisible == TemperSpec => FailureInvisible
<1>1. TemperInv /\ [TemperNext]_temperVars =>
         [failures' > failures /\ ~torn' => Answers(onto, cells)' = Answers(onto, cells)]_temperVars
  BY TemperMoves DEF Answered
<1> QED BY <1>1, TemperInvariant, PTL DEF TemperSpec, FailureInvisible

(* Whatever was applied before, a token that is used at once brings back the *)
(* ontology it was given out over, unless the operator did what no inverse   *)
(* can tell apart: the half of UndoRestores about the ontology.              *)
THEOREM UndoRestoresOntology == TemperSpec => []OntologyRestored
<1>1. TemperInv => OntologyRestored
  <2> SUFFICES ASSUME TemperInv, UndoneAtOnce PROVE onto = snapshots[Len(log) - 1]
    BY DEF OntologyRestored
  <2> DEFINE n == Len(log)
  <2>1. n > 1 /\ log[n].op = log[n - 1].inverse /\ ~Irreversible(snapshots[n - 1], log[n - 1].op)
    BY DEF UndoneAtOnce
  <2>2. n \in Nat /\ DOMAIN log = 1 .. n /\ DOMAIN snapshots = 1 .. n + 1 /\ onto = snapshots[n + 1]
    <3>1. log \in Seq(ToSet(log)) /\ Len(snapshots) = Len(log) + 1
      BY DEF TemperInv, IsList
    <3>2. DOMAIN snapshots = 1 .. Len(snapshots) /\ onto = snapshots[Len(snapshots)]
      BY LiveVersion
    <3> QED BY <3>1, <3>2
  <2> HIDE DEF n
  <2>3. /\ n - 1 \in DOMAIN log /\ n \in DOMAIN log /\ n - 1 + 1 = n
        /\ {n - 1, n, n + 1} \subseteq DOMAIN snapshots
    BY <2>1, <2>2
  <2>4. WellMade(snapshots[n - 1]) /\ WellMade(snapshots[n]) /\ WellMade(snapshots[n + 1])
    BY <2>3 DEF TemperInv
  <2>5. /\ Took(snapshots[n - 1], log[n - 1].op, log[n - 1].inverse, snapshots[n])
        /\ Took(snapshots[n], log[n - 1].inverse, log[n].inverse, snapshots[n + 1])
    BY <2>1, <2>3 DEF TemperInv, LogTook
  <2>6. snapshots[n + 1] = snapshots[n - 1]
    BY <2>1, <2>4, <2>5, TakenBack
  <2> QED BY <2>2, <2>6 DEF n
<1> QED BY <1>1, TemperInvariant, PTL

=============================================================================

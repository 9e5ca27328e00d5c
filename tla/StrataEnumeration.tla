-------------------------- MODULE StrataEnumeration --------------------------
(***************************************************************************)
(* How build_lattice finds the closed extents: Close-by-One over the       *)
(* attributes that are left when those with equal extents are merged and   *)
(* those that are intersections of larger ones are dropped.                *)
(***************************************************************************)
EXTENDS StrataLattice

Extents(ctx, attrs) == {AttrExtent(ctx, a) : a \in attrs}

\* clarified_attributes: the first attribute of each extent.
ClarifiedAttributes(ctx) ==
  {a \in AllAttributes(ctx) :
     \A b \in AllAttributes(ctx) : AttrExtent(ctx, b) = AttrExtent(ctx, a) => a <= b}

\* The extents of other representatives that are strictly larger.
Larger(ctx, E) == {F \in Extents(ctx, ClarifiedAttributes(ctx)) : E \subseteq F /\ E # F}

\* (a bug: an attribute that holds of some of a larger one is dropped)
ReducibleInside(ctx, E) == Larger(ctx, E) # {}
Reducible(ctx, E) ==
  /\ Larger(ctx, E) # {}
  /\ {g \in DOMAIN ctx : \A F \in Larger(ctx, E) : g \in F} = E

\* reduced_attributes
ReducedAttributes(ctx) ==
  {a \in ClarifiedAttributes(ctx) : ~Reducible(ctx, AttrExtent(ctx, a))}

RepClosure(ctx, E) == {a \in ReducedAttributes(ctx) : E \subseteq AttrExtent(ctx, a)}

\* The attributes that process() tries next: not in the intent, from the given
\* one on, above the threshold, and such that no earlier one newly appears.
Branches(ctx, s, E, from) ==
  {a \in ReducedAttributes(ctx) \ RepClosure(ctx, E) :
     LET E2 == E \cap AttrExtent(ctx, a)
     IN  /\ a >= from
         /\ Cardinality(E2) >= s
         /\ \A b \in RepClosure(ctx, E2) \ RepClosure(ctx, E) : b >= a}

\* process(extent, from): the extents found below an extent.
Process(ctx, s) ==
  LET froms == {0} \cup {a + 1 : a \in Attributes}
      process[E \in SUBSET DOMAIN ctx] ==
        [from \in froms |->
           {E} \cup UNION {process[E \cap AttrExtent(ctx, a)][a + 1] : a \in Branches(ctx, s, E, from)}]
  IN  process

\* _enumerate_closed_extents
Enumerate(ctx, s) ==
  IF Cardinality(DOMAIN ctx) >= s THEN Process(ctx, s)[DOMAIN ctx][0] ELSE {}

\* The enumeration finds every closed extent above the threshold and no other:
\* neither the reduction nor the pruning nor the canonicity test loses one.
EnumerationComplete == Enumerate(objects, sigma) = ClosedExtents(objects, sigma)
=============================================================================

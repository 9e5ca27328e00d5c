--------------------------- MODULE StrataAdmission ---------------------------
(***************************************************************************)
(* Admission of the lattice's concepts (strata/admission.py), and the      *)
(* facade that inserts candidates, admits again and proposes the changes   *)
(* (strata/strata.py, diff_admissions of strata/incremental.py), over the  *)
(* lattice of StrataLattice.                                               *)
(*                                                                         *)
(* A concept is known by its intent.  What the tiers above T0 make of its  *)
(* features is any outcome, the same whenever the features are.            *)
(***************************************************************************)
EXTENDS StrataLattice

CONSTANTS
  Properties,  \* the attributes that are full properties (has-prop)
  Starts,      \* contexts that induce may be given
  Deltas       \* sets of candidates that insert_delta may be given

ASSUME PropertiesAssumption == Properties \subseteq Attributes
ASSUME StartsAssumption == Starts \subseteq Contexts
ASSUME DeltasAssumption ==
  \A delta \in Deltas : \A d \in delta :
    d.id \in Candidates /\ d.attrs \in AttributeSets /\ d.hub \in BOOLEAN

VARIABLES
  mode,       \* "idle", "inserting" or "admitting"
  pending,    \* candidates of insert_delta still to be inserted
  round,      \* AdmissionEngine.process so far: intent -> outcome and target
  admission,  \* Strata.admission: the last complete round
  cache,      \* AdmissionEngine._cache
  behind,     \* history: insert_delta raised, and the lattice is ahead
  applied     \* history: the outcomes that the proposals so far add up to

strata == <<mode, pending, round, admission, cache, behind, applied>>
allVars == <<vars, strata>>

Outcomes == {"admit", "merge", "discard"}
None == {}   \* no admitted concept has an empty intent: see AdmittedAddsSomething

Put(f, x, y) == [z \in DOMAIN f \cup {x} |-> IF z = x THEN y ELSE f[z]]

-----------------------------------------------------------------------------
(* One pass over the lattice, from the top down.                           *)

\* (a bug: the smallest concepts first)
BottomUpNext(undecided) ==
  CHOOSE c \in undecided : \A d \in undecided :
    Cardinality(c.extent) <= Cardinality(d.extent)
\* top_down: by decreasing support.
TopDownNext(undecided) ==
  CHOOSE c \in undecided : \A d \in undecided :
    Cardinality(c.extent) >= Cardinality(d.extent)

Undecided == {c \in lattice : c.intent \notin DOMAIN round}

Ancestors(c) == {d \in lattice : c.extent \subseteq d.extent /\ c.extent # d.extent}
AdmittedIn(result) == {c \in lattice : c.intent \in DOMAIN result /\ result[c.intent].outcome = "admit"}

\* The object concept of some candidate.
Protected(c) == \E g \in c.extent : objects[g] = c.intent

Smallest(S) == CHOOSE n \in S : \A m \in S : n <= m
SupportOf(c) == Cardinality(c.extent)

\* concept_features.
Features(c, above) ==
  LET new == c.intent \ UNION {d.intent : d \in above}
  IN [support |-> SupportOf(c), objects |-> Cardinality(DOMAIN objects),
      stability |-> c.stability,
      weight |-> Cardinality(new), props |-> Cardinality(new \cap Properties),
      parent |-> Smallest({SupportOf(d) : d \in above} \cup {Cardinality(DOMAIN objects)}),
      protected |-> Protected(c),
      hub |-> \E g \in hubs : objects[g] = c.intent]

\* (a bug: the object concepts are kept whatever they add)
WeakUnlessProtected(f) == ~f.protected /\ (f.weight = 0 \/ f.props = 0)
\* t0_weak_concept_rule.
Weak(f) == f.weight = 0 \/ (f.props = 0 /\ ~f.protected)

\* (a bug: the admitted ancestor with the largest extent)
FarthestAdmitted(c, above) ==
  IF above = {} THEN None
  ELSE (CHOOSE d \in above : \A e \in above : SupportOf(d) >= SupportOf(e)).intent
\* _nearest_admitted.
NearestAdmitted(c, above) ==
  IF above = {} THEN None
  ELSE (CHOOSE d \in above : \A e \in above : SupportOf(d) <= SupportOf(e)).intent

\* The structural root: every candidate, and no property.
IsRoot(c) == c.extent = DOMAIN objects /\ c.intent \cap Properties = {}

\* What the spine may decide: the T0 rule first, then what was decided before.
Decisions(c, f) ==
  IF Weak(f) THEN {"merge"}
  ELSE IF <<c.intent, f>> \in DOMAIN cache THEN {cache[<<c.intent, f>>]} ELSE Outcomes

\* process, one concept of it.
AdmitNext ==
  /\ mode = "admitting" /\ Undecided # {}
  /\ LET c == TopDownNext(Undecided)
         above == Ancestors(c) \cap AdmittedIn(round)
         f == Features(c, above)
     IN IF IsRoot(c)
        THEN /\ round' = Put(round, c.intent, [outcome |-> "discard", target |-> None, root |-> TRUE])
             /\ UNCHANGED cache
        ELSE \E outcome \in Decisions(c, f) :
               /\ round' = Put(round, c.intent,
                                [outcome |-> outcome, root |-> FALSE,
                                 target |-> IF outcome = "merge" THEN NearestAdmitted(c, above) ELSE None])
               /\ cache' = Put(cache, <<c.intent, f>>, outcome)
  /\ UNCHANGED <<vars, mode, pending, admission, behind, applied>>

-----------------------------------------------------------------------------
(* induce and insert_delta.                                                *)

OutcomeIn(result, ih) == IF ih \in DOMAIN result THEN result[ih].outcome ELSE ""

\* (a bug: only what the spine has decided is compared)
ProposalsOfDecisions(before, after) ==
  LET decided(result) == {ih \in DOMAIN result : ~result[ih].root}
  IN {<<ih, OutcomeIn(after, ih)>> :
        ih \in {x \in decided(before) \cup decided(after) : OutcomeIn(before, x) # OutcomeIn(after, x)}}
\* diff_admissions: a proposal for every outcome that differs.
Proposals(before, after) ==
  {<<ih, OutcomeIn(after, ih)>> :
     ih \in {x \in DOMAIN before \cup DOMAIN after : OutcomeIn(before, x) # OutcomeIn(after, x)}}

\* The outcomes once the proposals have been carried out.
Carried(outcomes, proposals) ==
  LET changed == {p[1] : p \in proposals}
      kept == DOMAIN outcomes \ changed
      new == {p \in proposals : p[2] # ""}
  IN [ih \in kept \cup {p[1] : p \in new} |->
        IF ih \in kept THEN outcomes[ih] ELSE (CHOOSE p \in new : p[1] = ih)[2]]

InduceAll(ctx, hubsIn) ==
  /\ Induce(ctx, hubsIn)
  /\ mode' = "admitting"
  /\ UNCHANGED <<pending, round, admission, cache, behind, applied>>

InsertDelta(delta) ==
  /\ mode = "idle" /\ induced
  /\ mode' = "inserting" /\ pending' = delta
  /\ UNCHANGED <<vars, round, admission, cache, behind, applied>>

\* A candidate enters the context and the lattice.
InsertOne(d) ==
  /\ mode = "inserting" /\ d \in pending
  /\ Insert(d.id, d.attrs, d.hub)
  /\ pending' = pending \ {d}
  /\ UNCHANGED <<mode, round, admission, cache, behind, applied>>

\* add_object refuses an id it knows: the call ends there.
InsertRefused(d) ==
  /\ mode = "inserting" /\ d \in pending /\ d.id \in DOMAIN objects
  /\ mode' = "idle" /\ pending' = {} /\ behind' = TRUE
  /\ UNCHANGED <<vars, round, admission, cache, applied>>

Inserted ==
  /\ mode = "inserting" /\ pending = {}
  /\ mode' = "admitting" /\ round' = <<>>
  /\ UNCHANGED <<vars, pending, admission, cache, behind, applied>>

\* The pass is complete: it replaces the last one, and is compared with it.
Admitted ==
  /\ mode = "admitting" /\ Undecided = {}
  /\ mode' = "idle"
  /\ admission' = round
  /\ applied' = Carried(applied, Proposals(admission, round))
  /\ behind' = FALSE
  /\ UNCHANGED <<vars, pending, round, cache>>

AdmissionInit ==
  /\ Init
  /\ mode = "idle" /\ pending = {} /\ round = <<>> /\ admission = <<>>
  /\ cache = <<>> /\ behind = FALSE /\ applied = <<>>

AdmissionNext ==
  \/ \E ctx \in Starts : \E hubsIn \in SUBSET DOMAIN ctx : InduceAll(ctx, hubsIn)
  \/ \E delta \in Deltas : InsertDelta(delta)
  \/ \E d \in pending : InsertOne(d) \/ InsertRefused(d)
  \/ Inserted \/ AdmitNext \/ Admitted

AdmissionSpec == AdmissionInit /\ [][AdmissionNext]_allVars

-----------------------------------------------------------------------------
(* Properties.                                                             *)

Settled == mode = "idle" /\ induced /\ ~behind

\* After a delta, every concept of the lattice has its outcome, and what is
\* merged is merged into an admitted ancestor with no admitted concept in between:
\* also when an earlier call stopped halfway and left the lattice ahead.
TargetsNearest ==
  Settled =>
    /\ DOMAIN admission = {c.intent : c \in lattice}
    /\ \A c \in lattice :
         LET target == admission[c.intent].target
         IN IF target = None
            THEN admission[c.intent].outcome = "merge" => Ancestors(c) \cap AdmittedIn(admission) = {}
            ELSE /\ \E t \in Ancestors(c) \cap AdmittedIn(admission) : t.intent = target
                 /\ ~\E d \in Ancestors(c) \cap AdmittedIn(admission) :
                       target \subseteq d.intent /\ target # d.intent

\* An admitted concept has an attribute that none of its admitted ancestors
\* has: a property, unless it is some candidate's own concept.
AdmittedAddsSomething ==
  Settled =>
    \A c \in AdmittedIn(admission) :
      LET new == c.intent \ UNION {d.intent : d \in Ancestors(c) \cap AdmittedIn(admission)}
      IN new # {} /\ (Protected(c) \/ new \cap Properties # {})

\* "no flip is ever silent": carrying out the proposals of every delta, one
\* after the other, gives the outcomes of the current admission.
ProposalsReplay ==
  mode = "idle" => applied = [ih \in DOMAIN admission |-> admission[ih].outcome]

=============================================================================

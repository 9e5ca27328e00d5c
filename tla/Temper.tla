------------------------------- MODULE Temper -------------------------------
(* TEMPER, the evolution of a populated ontology (temper/ops.py, apply.py,   *)
(* views.py): typed operators with a precondition, a rewrite of the          *)
(* ontology, a migration of the current cells in one or more commits and an  *)
(* inverse; a snapshot of every version; and the chain of backward views     *)
(* through which a query written against an old version is answered from     *)
(* the cells of today.  Wherever commit_cells may raise, an application may  *)
(* stop: what it has committed stays.                                        *)
(* An operator is the record that op_to_dict makes of it.  A class keeps its *)
(* properties and shapes in order; a property keeps its name, the stable key *)
(* of its cells, its range (NoClass unless it is a link) and its unit, which *)
(* "linear:1:b" moves by b.  Cell values are tagged tuples, so that numbers, *)
(* entities and class URIs can stand side by side under one key.             *)
EXTENDS Integers, SequencesExt, FiniteSetsExt, Subsequences

CONSTANTS
    Bases,        \* the worlds an engine may be made over: [onto, cells]
    Menu,         \* the operators that clients propose, besides undo tokens
    MaxOps,       \* bound: operators applied to one engine
    MaxFailures,  \* bound: applications that raise half way
    CleanShards   \* new classes are never put over shards with other data

VARIABLES
    snapshots,  \* the ontology of every version, the live one last
    cells,      \* the current cells of all shards: <<class, entity, key>> -> value
    chain,      \* the backward views: [pre, op, onto], in order of application
    log,        \* the morphism ledger and the tokens given out: [op, inverse]
    failures,   \* how many applications have raised
    said,       \* history: what every version answered when it was live
    torn        \* history: a failed application has left cells half converted

temperVars == <<snapshots, cells, chain, log, failures, said, torn>>

NoClass == ""
NoOp == [op |-> "None"]
Missing == <<"none">>
Key(name) == <<"prop", name>>
ValueKey == Key("value")
Quarantine == <<"quarantine", "">>
Origin(uri) == <<"origin", uri>>
Minted(uri, value) == <<"minted", uri, value>>

onto == Last(snapshots)

(* What the clients hand over: typed operators, and closed ontologies over   *)
(* cells with tagged values.                                                 *)
PropertyDef == [name : STRING, key : {"prop"} \X STRING, range : STRING, unit : Int]
ClassDef == [name : STRING, parents : SUBSET STRING, props : Seq(PropertyDef),
             shapes : Seq(STRING), retired : BOOLEAN]
IsOntology(o) ==
    IsFiniteSet(DOMAIN o) /\ DOMAIN o \subseteq STRING /\ o \in [DOMAIN o -> ClassDef]
Closed(o) ==
    \A c \in DOMAIN o :
        /\ o[c].parents \subseteq DOMAIN o
        /\ \A p \in ToSet(o[c].props) : p.range \in DOMAIN o \cup {NoClass}
NamesApart(o) ==
    \A c \in DOMAIN o : IsInjective([i \in DOMAIN o[c].props |-> o[c].props[i].name])
IsData(d) ==
    \A x \in DOMAIN d : /\ x = <<x[1], x[2], x[3]>>
                        /\ d[x][1] \in {"n", "entity", "minted", "class", "specialize"}

PartDef == [uri : STRING, name : STRING]
PlainOperator ==
    [op : {"AddClass"}, uri : STRING, name : STRING, parent : STRING]
    \cup [op : {"DropClass", "RetireClass", "UnretireClass"}, uri : STRING]
    \cup [op : {"RenameClass"}, uri : STRING, name : STRING]
    \cup [op : {"RenameProperty"}, uri : STRING, prop : STRING, name : STRING]
    \cup [op : {"AddProperty"}, uri : STRING, prop : STRING, range : STRING]
    \cup [op : {"DropProperty"}, uri : STRING, prop : STRING]
    \cup [op : {"AddFacet", "RetireFacet"}, uri : STRING, prop : STRING, index : Nat]
    \cup [op : {"RetypeProperty"}, uri : STRING, prop : STRING, by : Int]
    \cup [op : {"Generalize", "Specialize"}, uri : STRING, parent : STRING, prop : STRING, index : Nat]
    \cup [op : {"PromoteProperty", "DemoteClass"}, uri : STRING, prop : STRING, new : STRING, name : STRING]
    \cup {NoOp}
IsOperator(op) ==
    \/ op \in PlainOperator
    \/ /\ op.op \in {"SplitClass", "MergeClasses"}
       /\ op.uri \in STRING /\ op.parts \in PartDef \X PartDef
       /\ op.op = "MergeClasses" => op.name \in STRING

ASSUME BasesAssumption ==
    \A base \in Bases : IsOntology(base.onto) /\ Closed(base.onto) /\ NamesApart(base.onto) /\ IsData(base.cells)
ASSUME TextsAssumption == {NoClass, "value"} \subseteq STRING
ASSUME MenuAssumption == \A op \in Menu : IsOperator(op)
ASSUME MaxFailuresAssumption == MaxFailures \in Nat

-----------------------------------------------------------------------------
(* Ontologies. *)

Names(ps) == {ps[i].name : i \in DOMAIN ps}
HasProp(o, c, name) == name \in Names(o[c].props)
Position(ps, name) ==
    CHOOSE i \in DOMAIN ps : /\ ps[i].name = name
                             /\ \A j \in DOMAIN ps : ps[j].name = name => i <= j
Prop(o, c, name) == o[c].props[Position(o[c].props, name)]
Without(ps, name) == Where(ps, LAMBDA p : p.name # name)
(* (a bug: the property comes back at the end) *)
InsertedLast(ps, p, i) == Append(ps, p)
InsertedAt(ps, p, i) ==
    InsertAt(ps, IF i = 0 \/ i > Len(ps) THEN Len(ps) + 1 ELSE i, p)
Changed(ps, name, new(_)) ==
    [i \in DOMAIN ps |-> IF ps[i].name = name THEN new(ps[i]) ELSE ps[i]]

AncestorsOf(o, c) ==
    IF o[c].parents = {} THEN {} ELSE
    LET up[n \in Nat] ==
          IF n = 0 THEN {c}
          ELSE UNION {o[x].parents : x \in up[n - 1] \cap DOMAIN o} \cup up[n - 1]
    IN  (up[Cardinality(DOMAIN o)] \cap DOMAIN o) \ {c}
Subtree(o, c) == {u \in DOMAIN o : u = c \/ c \in AncestorsOf(o, u)}
Children(o, c) == {u \in DOMAIN o : c \in o[u].parents}
(* (a bug: links that point at the class are not looked for) *)
InboundRangesUnseen(o, c) == {}
InboundRanges(o, c) ==
    UNION {{<<u, p.name>> : p \in {q \in ToSet(o[u].props) : q.range = c}} : u \in DOMAIN o}
Live(c) == c \in DOMAIN onto /\ ~onto[c].retired

(* The properties a name may stand for on a class: its own, or else those of *)
(* its ancestors; where several have it, the order of their URIs decides,    *)
(* here an arbitrary but fixed one.                                          *)
Resolve(o, c, name) ==
    IF HasProp(o, c, name) THEN {Prop(o, c, name)}
    ELSE {Prop(o, a, name) : a \in {x \in AncestorsOf(o, c) : HasProp(o, x, name)}}
KeyOf(o, c, name) == (CHOOSE p \in Resolve(o, c, name) : TRUE).key

-----------------------------------------------------------------------------
(* Cells. *)

Extent(d, c) == {x[2] : x \in {y \in DOMAIN d : y[1] = c}}
Row(d, c, e) == {x[3] : x \in {y \in DOMAIN d : y[1] = c /\ y[2] = e}}
CellAt(d, c, e, k) == IF <<c, e, k>> \in DOMAIN d THEN d[<<c, e, k>>] ELSE Missing
Holders(d, c, k) == {e \in Extent(d, c) : <<c, e, k>> \in DOMAIN d}
Shifted(v, by) == IF v[1] = "n" THEN <<"n", v[2] + by>> ELSE v
(* (a bug: an entity's old cells are given up as its new ones are written) *)
WrittenMoved(d, batches) ==
    FoldLeft(LAMBDA acc, b : LET moved == {x[2] : x \in DOMAIN b}
                             IN  b @@ [x \in {y \in DOMAIN acc : y[2] \notin moved} |-> acc[x]],
             d, batches)
Written(d, batches) ==
    LET Writing(x) == {i \in DOMAIN batches : x \in DOMAIN batches[i]}
    IN  [x \in DOMAIN d \cup UNION {DOMAIN batches[i] : i \in DOMAIN batches} |->
            IF Writing(x) = {} THEN d[x] ELSE batches[Max(Writing(x))][x]]
Filled(batches) == Where(batches, LAMBDA b : DOMAIN b # {})
PerClass(classes, Batch(_)) ==
    LET order == SetToSeq(classes) IN Filled([i \in 1..Cardinality(classes) |-> Batch(order[i])])

-----------------------------------------------------------------------------
(* The second class' properties folded into the first's: those aligned, and  *)
(* those of the same name.                                                   *)
FoldMap(o, op) ==
    LET c1 == op.parts[1].uri
        c2 == op.parts[2].uri
        own == DOMAIN op.align
    IN  [name \in {x \in Names(o[c2].props) : x \in own \/ HasProp(o, c1, x)} |->
            IF name \in own THEN op.align[name] ELSE name]
KeyMap(o, op) ==
    LET fold == FoldMap(o, op)
        KeyIn(i, name) == Prop(o, op.parts[i].uri, name).key
    IN  [k \in {KeyIn(2, name) : name \in DOMAIN fold} |->
            KeyIn(1, fold[CHOOSE name \in DOMAIN fold : KeyIn(2, name) = k])]
Mapped(map, k) == IF k \in DOMAIN map THEN map[k] ELSE k

-----------------------------------------------------------------------------
(* Backward views.  A plan is a set of branches; a branch reads the rows of  *)
(* a class, or entities made again from the values of a demoted one, follows *)
(* links, and reads one key, shifted back to the unit of the query.          *)

Direct(c, k) == [class |-> c, hops |-> <<>>, key |-> k, shift |-> 0,
                 origins |-> {}, regroup |-> <<>>]
Lift(o, q) == {Direct(q.class, KeyOf(o, q.class, q.prop))}
Queries(o) ==
    {q \in [class : DOMAIN o, prop : UNION {Names(o[c].props) : c \in DOMAIN o}] :
        Resolve(o, q.class, q.prop) # {}}

ReadFrom(b) == IF b.hops = <<>> THEN {b.class} ELSE Last(b.hops).targets
Retargeted(b, from, to) ==
    [b EXCEPT !.hops = [i \in DOMAIN @ |->
        IF @[i].targets \cap from = {} THEN @[i]
        ELSE [@[i] EXCEPT !.targets = (@ \ from) \cup to]]]

RetypeView(op, o, b) ==
    IF /\ b.key = Prop(o, op.uri, op.prop).key
       /\ ReadFrom(b) \cap Subtree(o, op.uri) # {}
    THEN {[b EXCEPT !.shift = @ - op.by]} ELSE {b}

SplitView(op, o, b) ==
    LET parts == {op.parts[1].uri, op.parts[2].uri}
        r == Retargeted(b, {op.uri}, parts)
    IN  IF b.class = op.uri THEN {[r EXCEPT !.class = c] : c \in parts} ELSE {r}

(* (a bug: the view reads the merged class without its origins) *)
MergeViewUnfiltered(op, o, b) ==
    {Retargeted(IF b.class \in {op.parts[1].uri, op.parts[2].uri} THEN [b EXCEPT !.class = op.uri] ELSE b,
                {op.parts[1].uri, op.parts[2].uri}, {op.uri})}
MergeView(op, o, b) ==
    LET c1 == op.parts[1].uri
        c2 == op.parts[2].uri
        remapped == IF b.class = c2 THEN [b EXCEPT !.key = Mapped(KeyMap(o, op), @)] ELSE b
        kept == IF b.class \in {c1, c2}
                THEN [remapped EXCEPT !.class = op.uri, !.origins = @ \cup {<<op.origin, b.class>>}]
                ELSE b
    IN  {Retargeted(kept, {c1, c2}, {op.uri})}

PromoteView(op, o, b) ==
    LET key == Prop(o, op.uri, op.prop).key
    IN  IF b.key = key /\ ReadFrom(b) \cap Subtree(o, op.uri) # {}
        THEN {[b EXCEPT !.hops = Append(@, [key |-> key, targets |-> {op.new}]), !.key = ValueKey]}
        ELSE {b}

DemoteView(op, o, b) ==
    LET key == Prop(o, op.uri, op.prop).key
        Collapses == /\ b.hops # <<>>
                     /\ Last(b.hops).key = key
                     /\ op.new \in Last(b.hops).targets
    IN  IF b.class = op.new
        THEN {[b EXCEPT !.class = op.uri, !.regroup = <<op.uri, key, Prop(o, op.new, "value").key>>]}
        ELSE IF Collapses THEN {[b EXCEPT !.hops = Front(@), !.key = key]} ELSE {b}

View(op, o, b) ==
    CASE op.op = "RetypeProperty" -> RetypeView(op, o, b)
      [] op.op = "SplitClass" -> SplitView(op, o, b)
      [] op.op = "MergeClasses" -> MergeView(op, o, b)
      [] op.op = "PromoteProperty" -> PromoteView(op, o, b)
      [] op.op = "DemoteClass" -> DemoteView(op, o, b)
      [] OTHER -> {b}

(* The plan for a query of version s through the whole chain.                *)
Rewritten(s, q) ==
    FoldLeft(LAMBDA plan, step : IF step.pre < s THEN plan
                                 ELSE UNION {View(step.op, step.onto, b) : b \in plan},
             Lift(snapshots[s], q), chain)

-----------------------------------------------------------------------------
(* Execution: rows of the classes of the ontology, and of their descendants. *)

RowsOf(extents) ==
    LET shard(e) == CHOOSE u \in DOMAIN extents : e \in extents[u]
    IN  {<<shard(e), e>> : e \in UNION {extents[u] : u \in DOMAIN extents}}
Rows(o, d, c) == RowsOf([u \in Subtree(o, c) |-> Extent(d, u)])
Lookup(o, d, e, targets) ==
    LET shards == {u \in UNION {IF t \in DOMAIN o THEN Subtree(o, t) ELSE {t} : t \in targets} :
                      e \in Extent(d, u)}
    IN  IF shards = {} THEN Missing ELSE <<CHOOSE u \in shards : TRUE, e>>
Value(o, d, b, row) ==
    LET Follow(at, hop) ==
          IF at = Missing THEN Missing ELSE Lookup(o, d, CellAt(d, at[1], at[2], hop.key), hop.targets)
        end == IF b.hops = <<>> THEN row ELSE FoldLeft(Follow, row, b.hops)
    IN  IF end = Missing THEN Missing ELSE Shifted(CellAt(d, end[1], end[2], b.key), b.shift)

Regrouped(o, d, b, q) ==
    LET values == {CellAt(d, row[1], row[2], b.regroup[2]) : row \in Rows(o, d, b.regroup[1])} \ {Missing}
    IN  {<<Minted(q.class, v), IF b.key = b.regroup[3] THEN Shifted(v, b.shift) ELSE Missing>> : v \in values}

Execute(o, d, q, plan) ==
    UNION {IF b.regroup # <<>>
           THEN IF b.regroup[1] \in DOMAIN o THEN Regrouped(o, d, b, q) ELSE {}
           ELSE IF b.class \notin DOMAIN o THEN {}
           ELSE {<<row[2], Value(o, d, b, row)>> :
                    row \in {r \in Rows(o, d, b.class) :
                               \A f \in b.origins : CellAt(d, r[1], r[2], f[1]) = <<"class", f[2]>>}}
           : b \in plan}

Answers(o, d) == [q \in Queries(o) |-> Execute(o, d, q, Lift(o, q))]
Answer(s, q) == Execute(onto, cells, q, Rewritten(s, q))

-----------------------------------------------------------------------------
(* The engine.  Cells are migrated first, in several commits, any of which   *)
(* may raise; then come the view, the record and the swap of the ontology.   *)
(* A gated operator that the spine does not accept changes nothing.          *)

(* A client that keeps shards clean names a new class only where no shard    *)
(* holds an entity which the operator itself will not write again.           *)
Stale(post, batches) ==
    \E c \in DOMAIN post \ DOMAIN onto :
        \E x \in {y \in DOMAIN cells : y[1] = c} :
            \A i \in DOMAIN batches : x \notin DOMAIN batches[i]

Viewed == {"RetypeProperty", "SplitClass", "MergeClasses", "PromoteProperty", "DemoteClass"}
Tears(op, n) ==
    \/ op.op \in {"RetypeProperty", "DemoteClass"} /\ n > 0
    \/ op.op = "PromoteProperty" /\ n > 1

Applied(op, post, batches, inverse) ==
    /\ CleanShards => ~Stale(post, batches)
    /\ cells' = Written(cells, batches)
    /\ snapshots' = Append(snapshots, post)
    /\ chain' = Append(chain, [pre |-> Len(snapshots), op |-> op, onto |-> onto])
    /\ log' = Append(log, [op |-> op, inverse |-> inverse])
    /\ said' = Append(said, Answers(post, cells'))
    /\ UNCHANGED <<failures, torn>>

Raised(op, post, batches) ==
    /\ CleanShards => ~Stale(post, batches)
    /\ failures < MaxFailures
    /\ failures' = failures + 1
    /\ \E n \in 0..Len(batches) - 1 :
        /\ cells' = Written(cells, SubSeq(batches, 1, n))
        /\ torn' = (torn \/ Tears(op, n))
    /\ UNCHANGED <<snapshots, chain, log, said>>

(* The record is written after the view is registered: when that raises, the *)
(* cells and the chain have moved and the ontology has not (operators with   *)
(* an identity view leave nothing of this to see).                           *)
Unrecorded(op, post, batches) ==
    /\ CleanShards => ~Stale(post, batches)
    /\ op.op \in Viewed
    /\ failures < MaxFailures
    /\ failures' = failures + 1
    /\ cells' = Written(cells, batches)
    /\ chain' = Append(chain, [pre |-> Len(snapshots), op |-> op, onto |-> onto])
    /\ torn' = TRUE
    /\ UNCHANGED <<snapshots, log, said>>

Effect(op, post, batches, inverse) ==
    \/ Applied(op, post, batches, inverse)
    \/ Raised(op, post, batches)
    \/ Unrecorded(op, post, batches)

ValueProp(unit) == [name |-> "value", key |-> ValueKey, range |-> NoClass, unit |-> unit]
NewClass(name, parents, props) ==
    [name |-> name, parents |-> parents, props |-> props, shapes |-> <<>>, retired |-> FALSE]
Plus(o, c, class) == [u \in DOMAIN o \cup {c} |-> IF u = c THEN class ELSE o[u]]
Minus(o, classes) == [c \in DOMAIN o \ classes |-> o[c]]

-----------------------------------------------------------------------------
(* Operators on labels and axioms: no cell moves. *)

AddClass(op) ==
    /\ op.uri \notin DOMAIN onto
    /\ op.parent # NoClass => Live(op.parent)
    /\ Effect(op, Plus(onto, op.uri, NewClass(op.name, {op.parent} \ {NoClass}, <<>>)), <<>>,
              [op |-> "DropClass", uri |-> op.uri])

DropClass(op) ==
    /\ op.uri \in DOMAIN onto
    /\ Children(onto, op.uri) = {}
    /\ InboundRanges(onto, op.uri) = {}
    /\ Extent(cells, op.uri) = {}
    /\ Effect(op, Minus(onto, {op.uri}), <<>>, NoOp)

RenameClass(op) ==
    /\ Live(op.uri)
    /\ Effect(op, [onto EXCEPT ![op.uri].name = op.name], <<>>,
              [op EXCEPT !.name = onto[op.uri].name])

RenameProperty(op) ==
    /\ Live(op.uri)
    /\ HasProp(onto, op.uri, op.prop)
    /\ ~HasProp(onto, op.uri, op.name)
    /\ Effect(op,
              [onto EXCEPT
                 ![op.uri].props = Changed(@, op.prop, LAMBDA p : [p EXCEPT !.name = op.name]),
                 ![op.uri].shapes = ReplaceAll(@, op.prop, op.name)],
              <<>>, [op EXCEPT !.prop = op.name, !.name = op.prop])

RetireClass(op) ==
    /\ Live(op.uri)
    /\ Effect(op, [onto EXCEPT ![op.uri].retired = TRUE], <<>>, [op EXCEPT !.op = "UnretireClass"])

UnretireClass(op) ==
    /\ op.uri \in DOMAIN onto /\ onto[op.uri].retired
    /\ Effect(op, [onto EXCEPT ![op.uri].retired = FALSE], <<>>, [op EXCEPT !.op = "RetireClass"])

AddProperty(op) ==
    /\ Live(op.uri)
    /\ Resolve(onto, op.uri, op.prop) = {}
    /\ op.range # NoClass => op.range \in DOMAIN onto
    /\ Effect(op,
              [onto EXCEPT ![op.uri].props =
                 Append(@, [name |-> op.prop, key |-> Key(op.prop), range |-> op.range, unit |-> 0])],
              <<>>, [op |-> "DropProperty", uri |-> op.uri, prop |-> op.prop])

DropProperty(op) ==
    /\ Live(op.uri)
    /\ HasProp(onto, op.uri, op.prop)
    /\ \A c \in Subtree(onto, op.uri) : Holders(cells, c, Prop(onto, op.uri, op.prop).key) = {}
    /\ Effect(op,
              [onto EXCEPT ![op.uri].props = Without(@, op.prop),
                           ![op.uri].shapes = Where(@, LAMBDA s : s # op.prop)],
              <<>>, NoOp)

(* A facet is told by the property it constrains; index 0 stands for None. *)
AddFacet(op) ==
    /\ Live(op.uri)
    /\ Resolve(onto, op.uri, op.prop) # {}
    /\ Effect(op, [onto EXCEPT ![op.uri].shapes = InsertedAt(@, op.prop, op.index)], <<>>,
              [op EXCEPT !.op = "RetireFacet", !.index = 0])

RetireFacet(op) ==
    /\ Live(op.uri)
    /\ op.prop \in ToSet(onto[op.uri].shapes)
    /\ LET at == SelectInSeq(onto[op.uri].shapes, LAMBDA s : s = op.prop)
       IN  Effect(op, [onto EXCEPT ![op.uri].shapes = RemoveAt(@, at)], <<>>,
                  [op EXCEPT !.op = "AddFacet", !.index = at])

-----------------------------------------------------------------------------
(* Operators that touch cells. *)

RetypeProperty(op) ==
    /\ Live(op.uri)
    /\ HasProp(onto, op.uri, op.prop)
    /\ LET p == Prop(onto, op.uri, op.prop)
           Converted(c) == [x \in {c} \X Holders(cells, c, p.key) \X {p.key} |->
                               Shifted(cells[x], op.by)]
       IN  /\ p.range = NoClass
           /\ Effect(op,
                     [onto EXCEPT ![op.uri].props =
                        Changed(@, op.prop, LAMBDA q : [q EXCEPT !.unit = @ + op.by])],
                     PerClass(Subtree(onto, op.uri), Converted),
                     [op EXCEPT !.by = 0 - op.by])

MovedProp(o, from, to, prop, index) ==
    LET removed == [o EXCEPT ![from].props = Without(@, prop)]
    IN  [removed EXCEPT ![to].props = InsertedAt(@, Prop(o, from, prop), index)]

Generalize(op) ==
    /\ Live(op.uri)
    /\ Live(op.parent)
    /\ op.parent \in onto[op.uri].parents
    /\ HasProp(onto, op.uri, op.prop)
    /\ Resolve(onto, op.parent, op.prop) = {}
    /\ Effect(op,
              MovedProp(onto, op.uri, op.parent, op.prop, op.index), <<>>,
              [op EXCEPT !.op = "Specialize", !.index = Position(onto[op.uri].props, op.prop)])

Specialize(op) ==
    /\ Live(op.parent)
    /\ Live(op.uri)
    /\ op.parent \in onto[op.uri].parents
    /\ HasProp(onto, op.parent, op.prop)
    /\ LET p == Prop(onto, op.parent, op.prop)
           Marked(c) == [x \in {c} \X Holders(cells, c, p.key) \X {Quarantine} |->
                            <<"specialize", op.prop, op.uri>>]
       IN  Effect(op,
                  MovedProp(onto, op.parent, op.uri, op.prop, op.index),
                  PerClass(Subtree(onto, op.parent) \ Subtree(onto, op.uri), Marked),
                  [op EXCEPT !.op = "Generalize", !.index = Position(onto[op.parent].props, op.prop)])

(* A discriminator is a property, or the retained origin of a merge, and the *)
(* values that lead to the first part.                                       *)
SplitClass(op) ==
    LET c == op.uri
        parts == {op.parts[1].uri, op.parts[2].uri}
        retained == op.disc.by[1] = "origin"
        key == IF retained THEN op.disc.by ELSE KeyOf(onto, c, op.disc.by[2])
        First(e) == CellAt(cells, c, e, key) \in op.disc.values
        Routed(i) == {e \in Extent(cells, c) : First(e) <=> i = 1}
        Moved(i) == [x \in UNION {{<<op.parts[i].uri, e, k>> : k \in Row(cells, c, e)} : e \in Routed(i)} |->
                        cells[<<c, x[2], x[3]>>]]
        Part(i) == [onto[c] EXCEPT !.name = op.parts[i].name]
    IN  /\ Live(c)
        /\ parts \cap DOMAIN onto = {} /\ op.parts[1].uri # op.parts[2].uri
        /\ Children(onto, c) = {} /\ InboundRanges(onto, c) = {}
        /\ retained \/ Resolve(onto, c, op.disc.by[2]) # {}
        /\ Holders(cells, c, key) = Extent(cells, c)
        /\ Effect(op,
                  Plus(Plus(Minus(onto, {c}), op.parts[1].uri, Part(1)), op.parts[2].uri, Part(2)),
                  Filled([i \in 1..2 |-> Moved(i)]),
                  [op |-> "MergeClasses", parts |-> op.parts, uri |-> c, name |-> onto[c].name,
                   align |-> <<>>, origin |-> Origin(op.parts[1].uri)])

MergeClasses(op) ==
    LET c1 == op.parts[1].uri
        c2 == op.parts[2].uri
        fold == FoldMap(onto, op)
        Map(i) == IF i = 1 THEN <<>> ELSE KeyMap(onto, op)
        Copied(i) ==
            LET c == op.parts[i].uri
                Source(x) == CHOOSE k \in Row(cells, c, x[2]) : Mapped(Map(i), k) = x[3]
                moved == UNION {{<<op.uri, e, Mapped(Map(i), k)>> : k \in Row(cells, c, e)} : e \in Extent(cells, c)}
                tagged == {op.uri} \X Extent(cells, c) \X {op.origin}
            IN  [x \in tagged \cup moved |->
                    IF x \in tagged THEN <<"class", c>> ELSE cells[<<c, x[2], Source(x)>>]]
        merged == [onto[c1] EXCEPT
                     !.name = op.name,
                     !.parents = @ \cup onto[c2].parents,
                     !.props = @ \o Where(onto[c2].props, LAMBDA p : p.name \notin DOMAIN fold),
                     !.shapes = @ \o Where(onto[c2].shapes, LAMBDA s : s \notin DOMAIN fold)]
    IN  /\ Live(c1) /\ Live(c2) /\ c1 # c2
        /\ op.uri \notin DOMAIN onto
        /\ \A c \in {c1, c2} : Children(onto, c) = {} /\ InboundRanges(onto, c) = {}
        /\ \A x \in DOMAIN op.align : HasProp(onto, c2, x) /\ HasProp(onto, c1, op.align[x])
        /\ \A x \in DOMAIN fold :
              (Prop(onto, c2, x).range = NoClass) <=> (Prop(onto, c1, fold[x]).range = NoClass)
        /\ Extent(cells, c1) \cap Extent(cells, c2) = {}
        /\ Effect(op, Plus(Minus(onto, {c1, c2}), op.uri, merged),
                  Filled([i \in 1..2 |-> Copied(i)]),
                  IF DOMAIN fold # Names(onto[c2].props) THEN NoOp
                  ELSE [op |-> "SplitClass", uri |-> op.uri,
                        parts |-> <<[uri |-> c1, name |-> onto[c1].name], [uri |-> c2, name |-> onto[c2].name]>>,
                        disc |-> [by |-> op.origin, values |-> {<<"class", c1>>}]])

PromoteProperty(op) ==
    /\ Live(op.uri)
    /\ HasProp(onto, op.uri, op.prop)
    /\ op.new \notin DOMAIN onto
    /\ LET p == Prop(onto, op.uri, op.prop)
           Linked(c) == [x \in {c} \X Holders(cells, c, p.key) \X {p.key} |-> Minted(op.new, cells[x])]
           values == UNION {{cells[<<c, e, p.key>>] : e \in Holders(cells, c, p.key)} : c \in Subtree(onto, op.uri)}
           minted == [x \in {<<op.new, Minted(op.new, v), ValueKey>> : v \in values} |-> x[2][3]]
       IN  /\ p.range = NoClass
           /\ Effect(op,
                     Plus([onto EXCEPT ![op.uri].props =
                             Changed(@, op.prop, LAMBDA q : [q EXCEPT !.range = op.new, !.unit = 0])],
                          op.new, NewClass(op.name, {}, <<ValueProp(p.unit)>>)),
                     Filled(<<minted>> \o PerClass(Subtree(onto, op.uri), Linked)),
                     [op EXCEPT !.op = "DemoteClass"])

DemoteClass(op) ==
    /\ Live(op.uri) /\ Live(op.new)
    /\ HasProp(onto, op.uri, op.prop)
    /\ LET p == Prop(onto, op.uri, op.prop)
           vp == Prop(onto, op.new, "value")
           Joined(c) == [x \in {y \in {c} \X Holders(cells, c, p.key) \X {p.key} :
                                  cells[y] \in Holders(cells, op.new, vp.key)} |->
                            cells[<<op.new, cells[x], vp.key>>]]
       IN  /\ p.range = op.new
           /\ HasProp(onto, op.new, "value")
           /\ Children(onto, op.new) = {}
           /\ InboundRanges(onto, op.new) = {<<op.uri, op.prop>>}
           /\ Effect(op,
                     Minus([onto EXCEPT ![op.uri].props =
                              Changed(@, op.prop, LAMBDA q : [q EXCEPT !.range = NoClass, !.unit = vp.unit])],
                           {op.new}),
                     PerClass(Subtree(onto, op.uri), Joined),
                     [op EXCEPT !.op = "PromoteProperty", !.name = onto[op.new].name])

-----------------------------------------------------------------------------

Do(op) ==
    \/ op.op = "AddClass" /\ AddClass(op)
    \/ op.op = "DropClass" /\ DropClass(op)
    \/ op.op = "RenameClass" /\ RenameClass(op)
    \/ op.op = "RenameProperty" /\ RenameProperty(op)
    \/ op.op = "RetireClass" /\ RetireClass(op)
    \/ op.op = "UnretireClass" /\ UnretireClass(op)
    \/ op.op = "AddProperty" /\ AddProperty(op)
    \/ op.op = "DropProperty" /\ DropProperty(op)
    \/ op.op = "AddFacet" /\ AddFacet(op)
    \/ op.op = "RetireFacet" /\ RetireFacet(op)
    \/ op.op = "RetypeProperty" /\ RetypeProperty(op)
    \/ op.op = "Generalize" /\ Generalize(op)
    \/ op.op = "Specialize" /\ Specialize(op)
    \/ op.op = "SplitClass" /\ SplitClass(op)
    \/ op.op = "MergeClasses" /\ MergeClasses(op)
    \/ op.op = "PromoteProperty" /\ PromoteProperty(op)
    \/ op.op = "DemoteClass" /\ DemoteClass(op)

TemperInit ==
    /\ \E base \in Bases : snapshots = <<base.onto>> /\ cells = base.cells
    /\ chain = <<>> /\ log = <<>>
    /\ failures = 0
    /\ said = <<Answers(onto, cells)>>
    /\ torn = FALSE

Propose == \E op \in Menu : Do(op)
Undo == \E i \in DOMAIN log : Do(log[i].inverse)
TemperNext == Len(log) < MaxOps /\ (Propose \/ Undo)
TemperSpec == TemperInit /\ [][TemperNext]_temperVars

-----------------------------------------------------------------------------

(* Every snapshot is an ontology of classes with properties, every cell has  *)
(* a tagged value, and chain and log tell of the same versions.              *)
TemperTypeOK ==
    /\ \A s \in DOMAIN snapshots : IsOntology(snapshots[s])
    /\ IsData(cells)
    /\ \A i \in DOMAIN log : IsOperator(log[i].inverse)
    /\ Len(snapshots) = Len(log) + 1 /\ Len(said) = Len(snapshots)
    /\ Len(chain) \in Len(log)..Len(log) + failures
    /\ failures \in 0..MaxFailures /\ torn \in BOOLEAN

(* Specialize does not look for a property of that name on the child, which  *)
(* a rename may have put there (AddProperty and Generalize do look).         *)
Collides(o, op) ==
    op.op = "Specialize" /\ op.uri # op.parent /\ HasProp(o, op.uri, op.prop)
Collided == \E i \in DOMAIN log : Collides(snapshots[i], log[i].op)

(* No sequence of operators and undo tokens leaves a parent or the range of  *)
(* a link dangling in any version, nor, unless a property was specialized    *)
(* onto another of its name, two properties of a class with one name.        *)
OntologyClosed ==
    /\ TemperTypeOK
    /\ \A s \in DOMAIN snapshots : Closed(snapshots[s])
    /\ Collided \/ NamesApart(onto)

(* Where an operator changes what a branch reads and its view cannot say so: *)
(* a conversion below the class that is asked (or of values regrouped since  *)
(* a demotion), a merge into or out of an extent above it, the raw value     *)
(* that a demotion puts in place of a link.                                  *)
Inside(o, b, c) == b.class # c /\ c \in Subtree(o, b.class)
ReadsOneOf(b, ks) == b.key \in ks \/ \E i \in DOMAIN b.hops : b.hops[i].key \in ks

BlindToConversion(op, o, b) ==
    LET key == Prop(o, op.uri, op.prop).key
    IN  \/ Inside(o, b, op.uri) /\ ReadsOneOf(b, {key})
        \/ b.regroup # <<>> /\ b.regroup[2] = key
BlindToSplit(op, b) == b.regroup # <<>> /\ b.class = op.uri
BlindToMerge(op, o, b) ==
    LET c1 == op.parts[1].uri
        c2 == op.parts[2].uri
        folded == DOMAIN KeyMap(o, op)
    IN  \/ Inside(o, b, c1) # Inside(o, b, c2)
        \/ Inside(o, b, c2) /\ ReadsOneOf(b, folded)
        \/ b.class = c2 /\ \E i \in DOMAIN b.hops : b.hops[i].key \in folded
        \/ b.class \in {c1, c2} /\ b.regroup # <<>>
BlindToDemotion(op, o, b) ==
    \/ b.key = Prop(o, op.uri, op.prop).key
    \/ b.class = op.new /\ \E i \in DOMAIN chain :
          chain[i].op.op = "RetypeProperty" /\ chain[i].op.uri = op.new

Blind(op, o, b) ==
    CASE op.op \in {"RetypeProperty", "PromoteProperty"} -> BlindToConversion(op, o, b)
      [] op.op = "SplitClass" -> BlindToSplit(op, b)
      [] op.op = "MergeClasses" -> BlindToMerge(op, o, b)
      [] op.op = "DemoteClass" -> BlindToDemotion(op, o, b)
      [] OTHER -> FALSE

Preserved(s, q) ==
    FoldLeft(LAMBDA plan, step :
                 IF step.pre < s \/ plan = {} THEN plan
                 ELSE IF \E b \in plan : Blind(step.op, step.onto, b) THEN {}
                 ELSE UNION {View(step.op, step.onto, b) : b \in plan},
             Lift(snapshots[s], q), chain) # {}

(* Snapshot queryability, with its limits: whatever has been applied, undone *)
(* or has failed since, a query of a retained version is answered from the   *)
(* cells of today as it was when the version was live, unless one of the     *)
(* operators is one that its views are blind to.                             *)
SnapshotQueryable ==
    ~torn => \A s \in DOMAIN snapshots : \A q \in DOMAIN said[s] :
                Preserved(s, q) => Answer(s, q) = said[s][q]

(* What the inverse of an operator does not bring back, since it cannot tell *)
(* it from what the operator did: facets that bore the name before, or have  *)
(* no property in the class that is split or merged; what a merged class had *)
(* that the first has not; all but the value of a class that is demoted.     *)
Facets(o, c) == ToSet(o[c].shapes)
Unlike(o, c1, c2) == [o[c1] EXCEPT !.name = ""] # [o[c2] EXCEPT !.name = ""]
MadeOfValues(o, c) ==
    \E unit \in {p.unit : p \in ToSet(o[c].props)} :
        o[c] = NewClass(o[c].name, {}, <<ValueProp(unit)>>)
Irreversible(o, op) ==
    \/ ~NamesApart(o) \/ Collides(o, op)
    \/ op.op = "RenameProperty" /\ op.name \in Facets(o, op.uri)
    \/ op.op \in {"AddProperty", "AddFacet"} /\ op.prop \in Facets(o, op.uri)
    \/ op.op = "SplitClass" /\ ~(Facets(o, op.uri) \subseteq Names(o[op.uri].props))
    \/ /\ op.op = "MergeClasses"
       /\ LET c1 == op.parts[1].uri
              c2 == op.parts[2].uri
          IN  Unlike(o, c1, c2) \/ ~(Facets(o, c2) \subseteq Names(o[c2].props))
    \/ op.op = "DemoteClass" /\ ~(MadeOfValues(o, op.new) /\ Prop(o, op.uri, op.prop).unit = 0)

(* A token applied at once takes the ontology back to what it was, and every *)
(* question about it to its answer, but for what no inverse brings back.     *)
UndoneAtOnce ==
    LET n == Len(log)
    IN  n > 1 /\ log[n].op = log[n - 1].inverse /\ ~Irreversible(snapshots[n - 1], log[n - 1].op)
OntologyRestored == UndoneAtOnce => onto = snapshots[Len(log) - 1]
UndoRestores ==
    /\ OntologyRestored
    /\ UndoneAtOnce /\ ~torn => Answers(onto, cells) = said[Len(log) - 1]

(* An application that raises half way leaves every answer as it was, unless *)
(* it was converting cells in place.                                         *)
FailureInvisible ==
    [][failures' > failures /\ ~torn' => Answers(onto, cells)' = Answers(onto, cells)]_temperVars

-----------------------------------------------------------------------------
(* Claims of the repository that the code does not meet: TLC refutes each    *)
(* when it is added to the module's configuration (README, findings).        *)

(* The plain claim of temper/README.md.                                      *)
AlwaysQueryable ==
    ~torn => \A s \in DOMAIN snapshots : \A q \in DOMAIN said[s] :
                Answer(s, q) = said[s][q]

(* "Exact TEMPER undo" (engineer/operators.py:832), where "retained           *)
(* positions" (temper/README.md:60) are to make up for a property that moved. *)
AlwaysUndone ==
    LET n == Len(log)
    IN  n > 1 /\ log[n].op = log[n - 1].inverse /\ log[n - 1].op.op \in {"Generalize", "Specialize"}
        => onto = snapshots[n - 1]

=============================================================================

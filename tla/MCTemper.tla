------------------------------ MODULE MCTemper ------------------------------
(* A parent P of A and B, which share a property name, and a flat world.     *)
EXTENDS Temper

Plain(name) == [name |-> name, key |-> Key(name), range |-> NoClass, unit |-> 0]
Class(name, parents, props) ==
    [name |-> name, parents |-> parents, props |-> props, shapes |-> <<>>, retired |-> FALSE]
Cell(c, e, name, i) == <<c, <<"entity", e>>, Key(name)>> :> <<"n", i>>

MCBases ==
    {[onto |-> ("P" :> Class("P", {}, <<Plain("p")>>)) @@ ("A" :> Class("A", {"P"}, <<Plain("x")>>))
               @@ ("B" :> Class("B", {"P"}, <<Plain("x")>>)),
      cells |-> Cell("A", "e1", "x", 0) @@ Cell("A", "e1", "p", 0) @@ Cell("A", "e2", "x", 1)
                @@ Cell("B", "e3", "x", 0) @@ Cell("B", "e3", "p", 1)],
     [onto |-> ("A" :> Class("A", {}, <<Plain("p"), Plain("x")>>)) @@ ("B" :> Class("B", {}, <<Plain("y")>>)),
      cells |-> Cell("A", "e1", "x", 0) @@ Cell("A", "e2", "x", 1) @@ Cell("B", "e3", "y", 0)]}

Part(u) == [uri |-> u, name |-> u]
Retype(c, p) == [op |-> "RetypeProperty", uri |-> c, prop |-> p, by |-> 1]
Promote(c, p) == [op |-> "PromoteProperty", uri |-> c, prop |-> p, new |-> "X", name |-> "X"]
Merge(a, b, align, c) ==
    [op |-> "MergeClasses", parts |-> <<Part(a), Part(b)>>, uri |-> c, name |-> c,
     align |-> align, origin |-> Origin(c)]
Split(c, p, a, b) ==
    [op |-> "SplitClass", uri |-> c, parts |-> <<Part(a), Part(b)>>,
     disc |-> [by |-> <<"prop", p>>, values |-> {<<"n", 0>>}]]

MCMenu ==
    {[op |-> "AddClass", uri |-> "N", name |-> "N", parent |-> c] : c \in {NoClass, "P"}}
    \cup {[op |-> "DropClass", uri |-> c] : c \in {"N", "P"}}
    \cup {[op |-> "RenameClass", uri |-> "A", name |-> "Z"],
          [op |-> "RenameProperty", uri |-> "A", prop |-> "x", name |-> "z"],
          [op |-> "RenameProperty", uri |-> "A", prop |-> "x", name |-> "p"],
          [op |-> "RetireClass", uri |-> "A"],
          [op |-> "AddProperty", uri |-> "A", prop |-> "w", range |-> NoClass],
          [op |-> "AddProperty", uri |-> "A", prop |-> "w", range |-> "B"],
          [op |-> "DropProperty", uri |-> "A", prop |-> "p"],
          [op |-> "AddFacet", uri |-> "A", prop |-> "x", index |-> 0],
          [op |-> "AddFacet", uri |-> "A", prop |-> "p", index |-> 0],
          [op |-> "Generalize", uri |-> "A", parent |-> "P", prop |-> "x", index |-> 0],
          [op |-> "Specialize", uri |-> "A", parent |-> "P", prop |-> "p", index |-> 0]}
    \cup {Retype("A", "x"), Retype("P", "p"), Retype("A", "z"), Retype("A1", "x"), Retype("M", "x"), Retype("X", "value")}
    \cup {Promote("A", "x"), Promote("P", "p"), Promote("M", "x"), Promote("A1", "x")}
    \cup {Split("A", "x", "A1", "A2"), Split("M", "x", "M1", "M2"), Split("B", "x", "B1", "B2")}
    \cup {Merge("A", "B", <<>>, "M"), Merge("A", "B", [y |-> "x"], "M"), Merge("A1", "B", <<>>, "M")}

=============================================================================

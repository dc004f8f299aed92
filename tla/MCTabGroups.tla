------------------------------- MODULE MCTabGroups -------------------------------
(* Small instances of TabGroups. *)
EXTENDS TabGroups, SplitTree

CONSTANTS d1, d2, d3, p1, p2

\* Two text documents in three groups, and three, an image among them, in two.
MCRooms == {[docs |-> 2, groups |-> 3, paths |-> {p1}], [docs |-> 3, groups |-> 2, paths |-> Paths]}

Symmetry == Permutations(Docs)

MCLeavesOf(layout) == Leaves(layout)
MCOneGroup(g) == Leaf(g)
MCSplitAt(layout, g, direction, new) == Split(layout, g, direction, new)
MCWithoutGroup(layout, g) == WithoutLeaf(layout, g)

\* The rows and columns of up to three groups, no branch of fewer than two and
\* none within one of its own axis: every one that splits and removals can give.
Across(axis) == IF axis = "row" THEN "column" ELSE "row"
Arranged(form, axis, order) ==
  LET a == Leaf(order[1])
      b == Leaf(order[2])
      c == Leaf(order[3])
  IN CASE form = "one" -> a
       [] form = "two" -> Branch(axis, <<a, b>>)
       [] form = "three" -> Branch(axis, <<a, b, c>>)
       [] form = "after" -> Branch(axis, <<a, Branch(Across(axis), <<b, c>>)>>)
       [] form = "before" -> Branch(axis, <<Branch(Across(axis), <<b, c>>), a>>)
MCLayouts ==
  {Arranged(form, axis, order) : form \in {"one", "two", "three", "after", "before"},
                                 axis \in {"row", "column"}, order \in Permutations(Ids)}

ASSUME MCLayoutsAssumption == Cardinality(Layouts) = 51 /\ \A layout \in Layouts : Shaped(layout)
================================================================================

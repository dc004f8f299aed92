------------------------------- MODULE SplitTree -------------------------------
(***************************************************************************)
(* The layout of the editor groups: rows and columns whose leaves are      *)
(* groups. Source: window/split_tree.rs, without the shares of the         *)
(* children and the rectangles computed from them.                         *)
(***************************************************************************)
EXTENDS Naturals, Sequences, SequencesExt, FiniteSets

AxisOf(direction) == IF direction \in {"left", "right"} THEN "row" ELSE "column"
Before(direction) == direction \in {"left", "up"}

\* A node is a group, or a branch of nodes along an axis.
Leaf(g) == [axis |-> "leaf", group |-> g, children |-> <<>>]
Branch(axis, children) == [axis |-> axis, group |-> 0, children |-> children]
IsLeaf(node) == node.axis = "leaf"

RECURSIVE Leaves(_)
Leaves(node) ==
  IF IsLeaf(node) THEN <<node.group>>
  ELSE FlattenSeq([i \in DOMAIN node.children |-> Leaves(node.children[i])])

PlaceOf(g, children) == {i \in DOMAIN children : children[i] = Leaf(g)}

\* The new group goes beside the target: into its branch when that has the
\* direction's axis, else with it into a branch of their own.
RECURSIVE Split(_, _, _, _)
Split(node, target, direction, new) ==
  LET axis == AxisOf(direction)
      pair == IF Before(direction) THEN <<Leaf(new), Leaf(target)>> ELSE <<Leaf(target), Leaf(new)>>
      at == PlaceOf(target, node.children)
  IN IF IsLeaf(node)
     THEN IF node.group = target THEN Branch(axis, pair) ELSE node
     ELSE IF node.axis = axis /\ at # {}
     THEN LET i == CHOOSE i \in at : TRUE
          IN Branch(axis, SubSeq(node.children, 1, i - 1) \o pair
                           \o SubSeq(node.children, i + 1, Len(node.children)))
     ELSE Branch(node.axis, [i \in DOMAIN node.children |-> Split(node.children[i], target, direction, new)])

RECURSIVE RemoveLeaf(_, _)
RemoveLeaf(node, g) ==
  LET kept == SelectSeq(node.children, LAMBDA child : child # Leaf(g))
  IN IF IsLeaf(node) THEN node
     ELSE Branch(node.axis, [i \in DOMAIN kept |-> RemoveLeaf(kept[i], g)])

\* Bottom up: a child on its parent's axis gives its children to the parent,
\* and a branch of one child is that child.
RECURSIVE Collapse(_)
Collapse(node) ==
  LET collapsed == [i \in DOMAIN node.children |-> Collapse(node.children[i])]
      flat == FlattenSeq([i \in DOMAIN collapsed |->
                IF collapsed[i].axis = node.axis THEN collapsed[i].children ELSE <<collapsed[i]>>])
  IN IF IsLeaf(node) THEN node
     ELSE IF Len(flat) = 1 THEN flat[1]
     ELSE Branch(node.axis, flat)

\* The last group stays.
WithoutLeaf(tree, g) == IF tree = Leaf(g) THEN tree ELSE Collapse(RemoveLeaf(tree, g))

-----------------------------------------------------------------------------
(* What a layout is after any splits and removals: no branch of fewer than *)
(* two, none within a branch of its own axis.                              *)
RECURSIVE Shaped(_)
Shaped(node) ==
  IsLeaf(node) \/
  /\ Len(node.children) >= 2
  /\ \A i \in DOMAIN node.children :
       node.children[i].axis # node.axis /\ Shaped(node.children[i])
================================================================================

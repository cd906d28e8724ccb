----------------------------- MODULE LinkedTree -----------------------------
(***************************************************************************)
(* What treedb promises of its nodes and links, with no disk, no memory and *)
(* no restarts: nodes with a value, each linked by its hooks to parents     *)
(* that are nodes of the tree.  Every operation changes one node.           *)
(***************************************************************************)
CONSTANTS Nodes, Nil

VARIABLE tree   \* of each node: [value, parents], or Nil; parents is a set of
                \* <<hook, node>>

Init == tree = [n \in Nodes |-> Nil]

\* A node is created, with no links.
Add(old, new, n) == old[n] = Nil /\ new[n] # Nil /\ new[n].parents = {}

\* Its value changes.
Change(old, new, n) == /\ Nil \notin {old[n], new[n]}
                       /\ new[n].parents = old[n].parents

\* It is linked to other parents, which are there.
Relink(old, new, n) == /\ Nil \notin {old[n], new[n]}
                       /\ new[n].value = old[n].value
                       /\ \A link \in new[n].parents : old[link[2]] # Nil

\* It goes: only a node that has no children does.
Remove(old, new, n) ==
    /\ new[n] = Nil
    /\ \A m \in Nodes \ {n} : old[m] # Nil =>
          \A link \in old[m].parents : link[2] # n

Step(old, new) == \E n \in Nodes :
    /\ \A m \in Nodes \ {n} : new[m] = old[m]
    /\ \/ Add(old, new, n)
       \/ Change(old, new, n)
       \/ Relink(old, new, n)
       \/ Remove(old, new, n)

Next == Step(tree, tree')

Spec == Init /\ [][Next]_tree

-----------------------------------------------------------------------------
\* No link leads out of the tree.
NoDangling == \A n \in Nodes : tree[n] # Nil =>
                  \A link \in tree[n].parents : tree[link[2]] # Nil
=============================================================================

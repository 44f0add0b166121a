------------------------------ MODULE HtmlTree ------------------------------
(***************************************************************************)
(* The elements of a page, as src/selector/gumbo_helper.cpp shows them to  *)
(* the selectors.                                                          *)
(*                                                                         *)
(* Elements are numbered in document order, the root is 1.  An element has *)
(* labels, which stand for its tag, its id, its classes and attributes     *)
(* alike.                                                                  *)
(***************************************************************************)
EXTENDS Integers, Sequences, FiniteSets, FiniteSetsExt, SequencesExt, Ascending

\* parent[n] of every element n, 0 of the root; labels[n] are its labels.
Elements(tree) == DOMAIN tree.parent
IsPage(tree) ==
    /\ tree.parent \in Seq(Nat) \ {<<>>} /\ DOMAIN tree.labels = Elements(tree)
    /\ tree.parent[1] = 0
    /\ \A n \in Elements(tree) \ {1} : tree.parent[n] \in 1 .. n - 1
ParentElement(tree, n) == tree.parent[n]

\* elementChildren, in order.
ElementChildren(tree, n) == InTurn({m \in Elements(tree) : tree.parent[m] = n})

Ancestors(tree, n) ==
    LET up[m \in 0 .. Len(tree.parent)] == IF m = 0 THEN {} ELSE {m} \union up[tree.parent[m]]
    IN  up[tree.parent[n]]

\* descendants: the elements below, in document order.
Descendants(tree, n) == InTurn({m \in Elements(tree) : n \in Ancestors(tree, m)})

\* The elements with the same parent, the root alone.
Siblings(tree, n) ==
    IF tree.parent[n] = 0 THEN <<n>> ELSE ElementChildren(tree, tree.parent[n])

AnyLabel == "*"
Labelled(tree, n, label) == label = AnyLabel \/ label \in tree.labels[n]
LabelledOf(tree, nodes, label) == ItemsAt(nodes, {i \in DOMAIN nodes : Labelled(tree, nodes[i], label)})

\* findByClass, findByTagName: the element itself and those below.
FindBy(tree, n, label) == LabelledOf(tree, <<n>> \o Descendants(tree, n), label)

\* findById: the first of these.
FindById(tree, n, label) ==
    LET all == FindBy(tree, n, label) IN IF all = <<>> THEN <<>> ELSE <<all[1]>>

\* getChildrenByTag.
ChildrenBy(tree, n, label) == LabelledOf(tree, ElementChildren(tree, n), label)
=============================================================================

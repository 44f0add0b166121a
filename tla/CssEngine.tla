----------------------------- MODULE CssEngine ------------------------------
(***************************************************************************)
(* The CSS engine of src/selector/css_engine.cpp: every element of a page  *)
(* is tried against every selector of a list, from the last compound of a  *)
(* selector to its first.                                                  *)
(***************************************************************************)
EXTENDS HtmlTree

CONSTANTS CssPages,     \* bound: trees
          CssSelectors  \* bound: lists of selectors, [parts, combs] each

\* A selector is read as compounds with a combinator between each two of them.
HasItems(list) == list # <<>> /\ list \in Seq(ToSet(list))
ASSUME CssIsRead ==
    /\ \A tree \in CssPages : IsPage(tree)
    /\ \A groups \in CssSelectors :
        /\ HasItems(groups)
        /\ \A g \in DOMAIN groups :
            /\ HasItems(groups[g].parts) /\ groups[g].combs \in Seq({" ", ">", "+", "~"})
            /\ Len(groups[g].combs) = Len(groups[g].parts) - 1

VARIABLE css  \* a search: the page and the selectors, where it is, what it found

cssVars == <<css>>

CssStart(tree, groups, at) ==
    css = [tree |-> tree, groups |-> groups, at |-> at, node |-> 1, group |-> 1,
           i |-> 0, cur |-> 1, out |-> <<>>]

CssInit == \E t \in CssPages, g \in CssSelectors : CssStart(t, g, "node")

CssTypeOK ==
    /\ css.at \in {"node", "left", "done", "idle"}
    /\ css.node \in 1 .. Len(css.tree.parent) + 1 /\ css.cur \in Elements(css.tree)
    /\ css.out \in Seq(Elements(css.tree))

-----------------------------------------------------------------------------
(* One compound: a label and a pseudo class. *)

\* an + b for some n >= 0.
NthOk(index, a, b) ==
    IF a = 0 THEN index = b
    ELSE (index - b) % (IF a < 0 THEN -a ELSE a) = 0 /\ (index = b \/ (index > b) = (a > 0))

\* pseudoMatch; "nth" stands for first-child and last-child as well.
PseudoMatch(tree, n, pseudo) ==
    LET all == Siblings(tree, n)
        same == ItemsAt(all, {i \in DOMAIN all : tree.labels[all[i]] = tree.labels[n]})
        list == IF pseudo.ofType THEN same ELSE all
        place == CHOOSE i \in DOMAIN list : list[i] = n
    IN  CASE pseudo.is = "nth" ->
                NthOk(IF pseudo.last THEN Len(list) - place + 1 ELSE place, pseudo.a, pseudo.b)
          [] pseudo.is = "only" -> Len(list) = 1
          [] pseudo.is = "empty" -> ElementChildren(tree, n) = <<>>
          [] pseudo.is = "not" -> ~Labelled(tree, n, pseudo.label)
          [] pseudo.is = "has" -> \E m \in ToSet(Descendants(tree, n)) : Labelled(tree, m, pseudo.label)
          [] OTHER -> TRUE

CompoundMatch(tree, n, c) == Labelled(tree, n, c.label) /\ PseudoMatch(tree, n, c.pseudo)

-----------------------------------------------------------------------------
(* The search. *)

Complex == css.groups[css.group]

\* The next selector of the list, or the next element.
Further == IF css.group < Len(css.groups) THEN [css EXCEPT !.at = "node", !.group = @ + 1]
           ELSE [css EXCEPT !.at = IF css.node < Len(css.tree.parent) THEN "node" ELSE "done",
                            !.node = @ + 1, !.group = 1]

\* The element is tried against the last compound.
Candidate ==
    /\ css.at = "node"
    /\ LET last == Len(Complex.parts)
       IN  css' = IF CompoundMatch(css.tree, css.node, Complex.parts[last])
                  THEN [css EXCEPT !.at = "left", !.i = last - 1, !.cur = css.node]
                  ELSE Further

\* Nothing is left to match: one more element was found.
Hit ==
    /\ css.at = "left" /\ css.i = 0
    /\ css' = [css EXCEPT !.out = Append(@, css.node), !.group = 1, !.node = @ + 1,
                          !.at = IF css.node < Len(css.tree.parent) THEN "node" ELSE "done"]

-----------------------------------------------------------------------------
(* Faulty variants of operations defined below; no specification uses them. *)

\* An ancestor is looked for from the element itself on.
NearestOrSelf(matching, n) ==
    LET above == Ancestors(css.tree, n) \union {n}
    IN  {m \in matching \intersect above : \A o \in matching \intersect above : o <= m}

\* Descendant: the nearest ancestor that matches, and no other one is tried later.
Nearest(matching, n) ==
    LET above == Ancestors(css.tree, n)
    IN  {m \in matching \intersect above : \A o \in matching \intersect above : o <= m}

\* AdjacentSibling.
Adjacent(matching, n) ==
    {m \in matching \intersect ToSet(Siblings(css.tree, n)) :
        m < n /\ ~\E o \in ToSet(Siblings(css.tree, n)) : m < o /\ o < n}

\* GeneralSibling: once one before the element was found, the loop does not recognise the
\* element any more and goes on to the last sibling that matches, wherever this is.
General(matching, n) ==
    LET all == ToSet(Siblings(css.tree, n))
    IN  IF {m \in matching \intersect all : m < n} = {} THEN {} ELSE {Max(matching \intersect all)}

\* The compound to the left: where the search goes on, if it does.
Left ==
    /\ css.at = "left" /\ css.i > 0
    /\ LET tree == css.tree
           comb == Complex.combs[css.i]
           matching == {m \in Elements(tree) : CompoundMatch(tree, m, Complex.parts[css.i])}
           next == CASE comb = ">" -> matching \intersect {ParentElement(tree, css.cur)}
                     [] comb = " " -> Nearest(matching, css.cur)
                     [] comb = "+" -> Adjacent(matching, css.cur)
                     [] comb = "~" -> General(matching, css.cur)
       IN  css' = IF next = {} THEN Further
                  ELSE [css EXCEPT !.cur = CHOOSE m \in next : TRUE, !.i = @ - 1]

CssNext == Candidate \/ Hit \/ Left

CssSpec == CssInit /\ [][CssNext]_cssVars

-----------------------------------------------------------------------------
(* Properties. *)

Related(tree, comb, m, n) ==
    CASE comb = ">" -> tree.parent[n] = m
      [] comb = " " -> m \in Ancestors(tree, n)
      [] comb = "+" -> m \in Adjacent(Elements(tree), n)
      [] comb = "~" -> m < n /\ m \in ToSet(Siblings(tree, n))

\* What a selector means: elements for all its compounds, each related to the next.
Selected(tree, complex, n) ==
    \E f \in [DOMAIN complex.parts -> Elements(tree)] :
        /\ f[Len(complex.parts)] = n
        /\ \A i \in DOMAIN complex.parts : CompoundMatch(tree, f[i], complex.parts[i])
        /\ \A i \in DOMAIN complex.combs : Related(tree, complex.combs[i], f[i], f[i + 1])

Meaning(groups) ==
    {n \in Elements(css.tree) : \E g \in DOMAIN groups : Selected(css.tree, groups[g], n)}

\* Selectors for which the first element found to the left decides: every element with the
\* same parent serves as well as another, and so does every ancestor if only ancestors follow.
Decided(complex) ==
    \A i \in DOMAIN complex.combs :
        /\ complex.combs[i] = " " => \A j \in 1 .. i : complex.combs[j] = " "
        /\ complex.combs[i] = "~" => i = 1 \/ complex.combs[i - 1] \in {" ", ">"}

\* In document order, without duplicates, and what such a selector means (css_engine.h:27).
FindsWhatIsDecided ==
    css.at = "done" =>
        /\ \A i, j \in DOMAIN css.out : i < j => css.out[i] < css.out[j]
        /\ (\A g \in DOMAIN css.groups : Decided(css.groups[g])) =>
                ToSet(css.out) = Meaning(css.groups)

\* css_engine.cpp:11: "for every candidate goes back and verifies that the chain on the left
\* holds".  The search never comes back to another ancestor or sibling.
FindsWhatIsMeant == css.at = "done" => ToSet(css.out) = Meaning(css.groups)
=============================================================================

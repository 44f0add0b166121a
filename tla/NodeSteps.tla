----------------------------- MODULE NodeSteps ------------------------------
(***************************************************************************)
(* Rules that go through a page step by step: the XPath engine             *)
(* (src/selector/xpath_engine.cpp) and the rules in the style of JSoup     *)
(* (DefaultJSoupSelector of src/selector/selector_impl.cpp), with the CSS  *)
(* engine as a last resort.                                                *)
(*                                                                         *)
(* A result is the element whose text, markup or attribute it is.          *)
(***************************************************************************)
EXTENDS CssEngine

CONSTANTS StepPages,   \* bound: trees
          Paths,       \* bound: XPaths, sequences of [axis, test, preds]
          SoupRules    \* bound: sequences of the steps of a JSoup rule

ASSUME StepsAreRead ==
    /\ \A tree \in StepPages : IsPage(tree)
    /\ \A rule \in Paths \union SoupRules : HasItems(rule)
    /\ \A path \in Paths : \A i \in DOMAIN path :
        /\ "axis" \in DOMAIN path[i]
        /\ path[i].axis \in {"self", "child", "descendant", "descendant-or-self", "parent",
                            "following-sibling", "preceding-sibling", "text()", "@"}
    /\ \A rule \in SoupRules : \A i \in DOMAIN rule :
        /\ "axis" \notin DOMAIN rule[i]
        /\ rule[i].is \in {"find", "id", "children", "tag", "index", "text", "attr"}

VARIABLE steps  \* a rule at work: the page, the rule, the step that is next, the elements

stepVars == <<steps>>

StepStart(tree, rule, at) ==
    steps = [tree |-> tree, rule |-> rule, at |-> at, next |-> 1, nodes |-> <<1>>,
             extracted |-> FALSE, results |-> <<>>]

StepInit ==
    \E t \in StepPages :
        \/ \E p \in Paths : StepStart(t, p, "xpath")
        \/ \E r \in SoupRules : StepStart(t, r, "soup")

StepTypeOK ==
    /\ steps.at \in {"xpath", "soup", "resort", "done", "idle"}
    /\ steps.next \in 1 .. Len(steps.rule) + 1
    /\ {steps.nodes, steps.results} \subseteq Seq(Elements(steps.tree))

Distinct(nodes) ==
    ItemsAt(nodes, {i \in DOMAIN nodes : \A j \in 1 .. i - 1 : nodes[j] # nodes[i]})

-----------------------------------------------------------------------------
(* XPath. *)

\* applyAxis: what a step offers from one element.
Axis(tree, n, step) ==
    LET below == Descendants(tree, n)
        beside == IF n = 1 THEN <<>> ELSE Siblings(tree, n)
        all == CASE step.axis = "self" -> <<n>>
                 [] step.axis = "child" -> ElementChildren(tree, n)
                 [] step.axis = "descendant" -> below
                 [] step.axis = "descendant-or-self" -> <<n>> \o below
                 [] step.axis = "parent" -> IF n = 1 THEN <<>> ELSE <<ParentElement(tree, n)>>
                 [] step.axis = "following-sibling" -> ItemsAt(beside, {i \in DOMAIN beside : beside[i] > n})
                 [] step.axis = "preceding-sibling" -> ItemsAt(beside, {i \in DOMAIN beside : beside[i] < n})
    IN  LabelledOf(tree, all, step.test)

\* evalPredicate: every predicate sees the place among all that the step offers.
PredOk(tree, offered, place, pred) ==
    CASE pred.is = "place" -> place = pred.n
      [] pred.is = "last" -> place = Len(offered) - pred.n
      [] pred.is = "upto" -> place <= pred.n
      [] pred.is = "label" -> Labelled(tree, offered[place], pred.label)
      [] pred.is = "or" -> \E l \in pred.labels : Labelled(tree, offered[place], l)

Offered(tree, n, step) ==
    LET offered == Axis(tree, n, step)
        good == {i \in DOMAIN offered :
                    \A j \in DOMAIN step.preds : PredOk(tree, offered, i, step.preds[j])}
    IN  ItemsAt(offered, good)

\* evaluate, one step; the last one may ask for texts or for an attribute.
PathStep ==
    /\ steps.at = "xpath" /\ steps.next <= Len(steps.rule)
    /\ LET s == steps
           step == s.rule[s.next]
           found == Distinct(FlattenSeq([i \in DOMAIN s.nodes |-> Offered(s.tree, s.nodes[i], step)]))
       IN  steps' =
            IF step.axis = "text()" THEN [s EXCEPT !.at = "done", !.results = s.nodes]
            ELSE IF step.axis = "@"
                 THEN [s EXCEPT !.at = "done",
                        !.results = LabelledOf(s.tree, s.nodes, step.test)]
            ELSE [s EXCEPT !.at = IF found = <<>> THEN "done" ELSE @, !.nodes = found, !.next = @ + 1]

PathEnds ==
    /\ steps.at = "xpath" /\ steps.next > Len(steps.rule)
    /\ steps' = [steps EXCEPT !.at = "done", !.results = steps.nodes]

-----------------------------------------------------------------------------
(* JSoup. *)

\* The attribute of an element, or of the first one below that has it.
Holder(tree, n, attr) == FindById(tree, n, attr)

\* The elements of one step, from one element of the step before.
GoFrom(tree, n, step) ==
    CASE step.is = "find" -> FindBy(tree, n, step.label)
      [] step.is = "id" -> FindById(tree, n, step.label)
      [] step.is = "children" -> ElementChildren(tree, n)
      [] step.is = "tag" -> IF ChildrenBy(tree, n, step.label) # <<>>
                            THEN ChildrenBy(tree, n, step.label) ELSE FindBy(tree, n, step.label)

\* From all of them; an index takes some of these.
Go(tree, nodes, step) ==
    IF step.is = "index"
    THEN ItemsAt(nodes, {i \in DOMAIN nodes : ((i - 1) \in step.places) # step.exclude})
    ELSE FlattenSeq([i \in DOMAIN nodes |-> GoFrom(tree, nodes[i], step)])

Extracts(step) == step.is \in {"text", "attr"}

SoupStep ==
    /\ steps.at = "soup" /\ steps.next <= Len(steps.rule) /\ steps.nodes # <<>>
    /\ LET s == steps
           step == s.rule[s.next]
           got == IF step.is = "text" THEN s.nodes
                  ELSE FlattenSeq([i \in DOMAIN s.nodes |-> Holder(s.tree, s.nodes[i], step.label)])
       IN  steps' = IF Extracts(step)
                    THEN [s EXCEPT !.next = @ + 1, !.extracted = TRUE, !.results = @ \o got]
                    ELSE [s EXCEPT !.next = @ + 1, !.nodes = Go(s.tree, s.nodes, step)]

\* No step is left, or no element; without an extraction the elements are the results.
SoupEnds ==
    /\ steps.at = "soup" /\ (steps.next > Len(steps.rule) \/ steps.nodes = <<>>)
    /\ LET results == IF steps.extracted THEN steps.results ELSE steps.nodes
       IN  steps' = [steps EXCEPT !.results = results,
                                  !.at = IF results = <<>> THEN "resort" ELSE "done"]

\* The rule up to its last @ is read as CSS, which ends at the first @ of a step in front and
\* at an index to exclude; an index to take is a class or an attribute that nothing has.
Resort ==
    /\ steps.at = "resort"
    /\ LET s == steps
           first == s.rule[1]
           last == s.rule[Len(s.rule)]
           named == first.is \in {"find", "id", "tag"}
           single == \A i \in 2 .. Len(s.rule) : s.rule[i].is = "index"
           indexed == Len(s.rule) > 1 /\ s.rule[2].is = "index" /\ ~s.rule[2].exclude
           found == IF ~named \/ indexed \/ ~(single \/ Extracts(last)) THEN <<>>
                    ELSE FindBy(s.tree, 1, first.label)
       IN  steps' = [s EXCEPT !.at = "done",
                        !.results = IF last.is = "attr"
                                    THEN LabelledOf(s.tree, found, last.label)
                                    ELSE found]

StepNext == PathStep \/ PathEnds \/ SoupStep \/ SoupEnds \/ Resort

StepSpec == StepInit /\ [][StepNext]_stepVars

-----------------------------------------------------------------------------
(* Properties. *)

\* The elements an XPath leads to, one element after another.
Reached(tree, xpath) ==
    LET after[i \in 0 .. Len(xpath)] ==
            IF i = 0 THEN {1} ELSE UNION {ToSet(Offered(tree, n, xpath[i])) : n \in after[i - 1]}
    IN  after[Len(xpath)]

IsPath == steps.rule # <<>> /\ "axis" \in DOMAIN steps.rule[1]

\* What an XPath finds is where it leads, each element once (xpath_engine.h:39), if it asks for
\* texts or for an attribute only at its end.
PathsAreFollowed ==
    (/\ steps.at = "done" /\ IsPath
     /\ \A i \in 1 .. Len(steps.rule) - 1 : steps.rule[i].axis \notin {"text()", "@"}) =>
        /\ IsInjective(steps.results)
        /\ LET n == Len(steps.rule)
               last == steps.rule[n].axis
               before == SubSeq(steps.rule, 1, n - 1)
           IN  ToSet(steps.results) =
                IF last = "text()" THEN Reached(steps.tree, before)
                ELSE IF last = "@" THEN {m \in Reached(steps.tree, before) :
                                            Labelled(steps.tree, m, steps.rule[n].test)}
                ELSE Reached(steps.tree, steps.rule)

\* A rule with one step and what to take of it never takes anything else, and takes
\* something of every element of the step that has it, the last resort included.
SingleStepsAreExact ==
    LET rule == steps.rule
        all == FindBy(steps.tree, 1, rule[1].label)
    IN  (steps.at = "done" /\ Len(rule) = 2 /\ ~IsPath /\ rule[1].is = "find" /\ Extracts(rule[2])) =>
            /\ rule[2].is = "text" => steps.results = all
            /\ rule[2].is = "attr" =>
                ToSet(steps.results) = {m \in Elements(steps.tree) :
                    /\ Labelled(steps.tree, m, rule[2].label)
                    /\ \E n \in ToSet(all) : <<m>> = Holder(steps.tree, n, rule[2].label)}
=============================================================================

----------------------------- MODULE MCCssEngine -----------------------------
EXTENDS CssEngine

Plain(label) == [label |-> label, pseudo |-> [is |-> "none"]]

\* Four elements in a row, side by side, and a mixture of both.
MCCssPages ==
    [parent : {<<0, 1, 2, 3>>, <<0, 1, 1, 1>>, <<0, 1, 2, 1>>},
     labels : [1 .. 4 -> {{"a"}, {"b"}}]]

\* Chains of two and of three compounds.
Combs == {" ", ">", "+", "~"}
MCCssSelectors ==
    {<<[parts |-> <<Plain("a"), Plain("b")>>, combs |-> <<c>>]>> : c \in Combs}
    \union {<<[parts |-> <<Plain("a"), Plain("b"), Plain("a")>>, combs |-> <<c, d>>]>> :
                c \in Combs, d \in Combs}
=============================================================================

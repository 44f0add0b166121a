--------------------------- MODULE MCSourceService ---------------------------
EXTENDS SourceService

Src(url, name, searchable, grade) ==
    [url |-> url, name |-> name, searchable |-> searchable, grade |-> grade]

\* Two sources share a name; one has no search url.
MCNames == {"n1", "n2", NoName}
MCStored == << Src("a", "n1", TRUE, "unknown"), Src("b", "n2", TRUE, "good") >>
MCFeeds == { << Src("c", "n1", TRUE, "unknown"), Src("a", "n1", TRUE, "unknown") >>,
             << Src("c", "n2", FALSE, "unknown") >> }
MCRequested == { <<>>, <<"n1", "n2">>, <<"n1", "n1">> }

Work1(ks) == [k \in Kinds |-> IF k \in ks THEN 1 ELSE 0]

\* Requests that meet: every two of the list's own, and each next to a validation or a
\* streamed search.
MCWorkloads ==
    {Work1({"import", "remove", "catalog"}), Work1({"import", "sweep", "rss"}),
     Work1({"clear", "import", "search"}), Work1({"remove", "search", "catalog"}),
     Work1({"catalog", "search", "rss"}), Work1({"validate", "clear"}),
     Work1({"validate", "remove"}), Work1({"validate", "import"}),
     Work1({"validate", "stream"}), Work1({"validate", "sweep", "catalog"}),
     Work1({"stream", "import"}), Work1({"stream", "remove"})}

\* A selection, a validation that fails everywhere, a sweep and an import.
MCLongSession == {Work1({"search", "validate", "sweep", "import"})}

-----------------------------------------------------------------------------
\* Rules with brackets, and with quotes and escapes in them.
Words(alphabet, n) == UNION {[1 .. k -> alphabet] : k \in 0 .. n}
MCRules == {q \in Words({"x", "[", "]", "(", "&&", "||"}, 4) \union [1 .. 6 -> {"[", "]", "&&"}]
                  \union {<<"[">> \o w : w \in [1 .. 4 -> {"'", "\\", "]", "&&"}]} :
                q = <<>> \/ q[Len(q)] # "\\"}

Indexes == {Single(n) : n \in {-2, 0, 3}}
           \union {RangeOf(a, b, s) : a \in {-1, 0, 2}, b \in {-2, 0, 3}, s \in {1, 2, -1}}
MCIndexLists ==
    [indexes : {<<i>> : i \in Indexes}
               \union {<<i, j>> : i \in Indexes, j \in {Single(1), RangeOf(0, -1, 2)}},
     brackets : {TRUE}, exclude : BOOLEAN]
    \union [indexes : {<<Single(a)>> : a \in {-2, 0, 1}}
                      \union {<<Single(a), Single(b)>> : a \in {-1, 0}, b \in {1, 3}},
            brackets : {FALSE}, exclude : BOOLEAN]

-----------------------------------------------------------------------------
\* Two selectors that find something and one that finds nothing.
S1 == SelectRule(<<"s">>)
S2 == SelectRule(<<"n", "u">>)
Nothing == SelectRule(<<"n">>)
MCFinds == [s |-> [a |-> <<<<"a1">>, <<"a2">>>>, b |-> <<<<"b1">>>>],
            u |-> [a |-> <<<<"a3">>>>, b |-> <<<<"b2">>, <<"b3">>>>],
            n |-> [a |-> <<>>, b |-> <<>>]]
On(rule, content) == [rule |-> rule, content |-> content]
MCJobs ==
    {<<On(S1, "a"), On(S1, "b")>>, <<On(RedactRule(S1, "p"), "a"), On(S1, "a")>>,
     <<On(RedactRule(JoinRule("%%", <<S1, S2>>), "p"), "a")>>,
     <<On(JoinRule("||", <<Nothing, JoinRule("&&", <<S1, S2>>)>>), "b")>>,
     <<On(PutRule(S1, GetRule), "a"), On(GetRule, "b")>>,
     <<On(PutRule(S2, ChainRule(<<"s">>)), "b"), On(Script, "b")>>,
     <<On(RedactRule(TemplateRule(JoinRule("&&", <<S1, S2>>)), "p"), "a")>>,
     <<On(RedactRule(S2, "q"), "b"), On(RedactRule(S2, "bad"), "b")>>,
     <<On(TemplateRule(Nothing), "a"), On(GetRule, "a")>>}

Inside(rules) == rules \union UNION {Inners(r) : r \in rules}
MCPhrases == Inside(Inside(Inside({w[1].rule : w \in MCJobs} \union {Last(w).rule : w \in MCJobs})))
MCLength[rule \in MCPhrases] == 1 + Max({0} \union {MCLength[r] : r \in Inners(rule)})

-----------------------------------------------------------------------------
\* Pages of four elements in every shape that matters, and deeper and wider ones.
PageOf(parents, labels) == [parent |-> parents, labels |-> labels]
Plainly(labels) == [n \in DOMAIN labels |-> {labels[n]}]
MCCssPages ==
    {PageOf(p, Plainly(l)) : p \in {<<0, 1, 2, 3>>, <<0, 1, 1, 1>>, <<0, 1, 2, 1>>},
                             l \in [1 .. 4 -> {"a", "b"}]}
    \union {PageOf(<<0, 1, 2, 3, 4>>, Plainly(l)) :
                l \in {<<"a", "b", "b", "a", "b">>, <<"b", "a", "b", "b", "a">>}}
    \union {PageOf(<<0, 1, 1, 1, 1>>, Plainly(l)) :
                l \in {<<"a", "b", "b", "a", "b">>, <<"b", "a", "b", "a", "a">>}}

Pseudo(kind, other) ==
    [is |-> kind, ofType |-> other, last |-> other, a |-> 2, b |-> 1, label |-> "a"]
Part1(label, pseudo) == [label |-> label, pseudo |-> pseudo]
Simple(label) == Part1(label, Pseudo("none", FALSE))
Combs == {" ", ">", "+", "~"}
Pair(comb) == [parts |-> <<Simple("a"), Simple("b")>>, combs |-> <<comb>>]
Triple(c, d, label) == [parts |-> <<Simple("a"), Simple("b"), Simple(label)>>, combs |-> <<c, d>>]
MCCssSelectors ==
    {<<Pair(c)>> : c \in Combs}
    \union {<<Triple(c, d, l)>> : c \in Combs, d \in Combs, l \in {"a", "b"}}
    \union {<<[parts |-> <<Part1("*", Pseudo(k, o))>>, combs |-> <<>>]>> :
                k \in {"nth", "only", "empty", "not", "has"}, o \in BOOLEAN}
    \union {<<[parts |-> <<Simple("a")>>, combs |-> <<>>], Pair(">")>>}

-----------------------------------------------------------------------------
\* Pages for the rules in steps: "h" is an attribute.
MCStepPages ==
    {PageOf(p, l) : p \in {<<0, 1, 2, 3>>, <<0, 1, 1, 1>>},
                    l \in [1 .. 4 -> {{"a"}, {"b", "h"}}]}
    \union {PageOf(<<0, 1, 2, 2, 1, 5>>, <<{}, {"a"}, {"b"}, {"b", "h"}, {"a"}, {"b"}>>),
            PageOf(<<0, 1, 2, 3, 1, 1>>, <<{}, {"a"}, {"a"}, {"b", "h"}, {"b"}, {"a", "h"}>>)}

OneStep(axis, test, preds) == [axis |-> axis, test |-> test, preds |-> preds]
Slashes == OneStep("descendant-or-self", "*", <<>>)
Pred(kind, n) == [is |-> kind, n |-> n, label |-> "h", labels |-> {"a", "h"}]
Axes == {"self", "child", "descendant", "parent", "following-sibling", "preceding-sibling"}
Preds == {<<>>, <<Pred("place", 1)>>, <<Pred("last", 1)>>, <<Pred("or", 0)>>,
          <<Pred("upto", 2), Pred("label", 0)>>}
MCXPaths ==
    {<<Slashes, OneStep("child", "a", p), OneStep(x, "b", <<>>)>> : p \in Preds, x \in Axes}
    \union {<<Slashes, OneStep(x, "*", p), OneStep("text()", "*", <<>>)>> : x \in Axes, p \in Preds}
    \union {<<Slashes, OneStep("child", "*", p), Slashes, OneStep("@", "h", <<>>)>> : p \in Preds}

SoupOf(kind, label) == [is |-> kind, label |-> label, places |-> {0}, exclude |-> FALSE]
Taking(exclude, places) == [is |-> "index", label |-> "", places |-> places, exclude |-> exclude]
Finals == {<<>>, <<SoupOf("text", "")>>, <<SoupOf("attr", "h")>>}
MCSoupRules ==
    {<<SoupOf(k, "a")>> \o f : k \in {"find", "id", "tag"}, f \in Finals}
    \union {<<SoupOf("find", "a"), Taking(e, p)>> \o f : e \in BOOLEAN, p \in {{0}, {1}}, f \in Finals}
    \union {<<SoupOf("find", "a"), SoupOf(k, "b")>> \o f :
                k \in {"find", "tag", "children"}, f \in Finals}

-----------------------------------------------------------------------------
\* Objects in arrays in objects, and every token in every place.
Row(v) == Obj([a |-> Leaf(v), b |-> Null])
Matrix == Arr(<<Arr(<<Leaf("1"), Leaf("2"), Leaf("3")>>), Leaf("4"), Null>>)
Rows == Arr(<<Row("1"), Row("2"), Row("3")>>)
MCJsonValues ==
    {Obj([a |-> Rows, b |-> Leaf("5")]), Rows, Matrix, Matrix.val[1], Arr(<<>>), Null,
     Arr(<<Leaf("1"), Leaf("2"), Leaf("3"), Leaf("4")>>)}
    \union {Row(i) : i \in {"1", "2", "3"}} \union {Leaf(i) : i \in {"1", "2", "3", "4", "5"}}
Slices == {SliceOf(f, t, s) : f \in {Open, <<0>>, <<1>>, <<-2>>}, t \in {Open, <<2>>, <<-1>>, <<9>>},
                              s \in {Open, <<1>>, <<2>>}}
Tokens == {Field("a"), Field("b"), Element(0), Element(2), Element(-1), Every, Unfollowed}
MCJsonRules ==
    {q \o l : q \in {<<>>} \union {<<t>> : t \in Tokens} \union {<<t, u>> : t \in Tokens, u \in Tokens},
             l \in {<<>>} \union {<<s>> : s \in Slices} \union {<<Every>>}}

-----------------------------------------------------------------------------
\* Sources of one name that found the same book, one that found it twice, another book by
\* another author, and one that does not answer.
BookAt(url, fit, author) == [url |-> url, name |-> fit, author |-> author, ms |-> 2]
TaskFor(n, answering, books) == [name |-> n, answers |-> answering, books |-> books]
MCOffers ==
    [author : BOOLEAN,
     sources : {<<>>,
                <<TaskFor("n1", TRUE, <<BookAt("u", "same", "same"), BookAt("u", "same", "none")>>),
                  TaskFor("n1", TRUE, <<BookAt("u", "same", "same"), BookAt("v", "part", "other")>>),
                  TaskFor("n2", FALSE, <<>>)>>,
                <<TaskFor("n1", TRUE, <<BookAt("u", "other", "same"), BookAt("v", "part", "none")>>),
                  TaskFor("n2", TRUE, <<BookAt("v", "same", "part"), BookAt("w", "part", "other")>>),
                  TaskFor("n3", TRUE, <<>>)>>}]
=============================================================================

--------------------------- MODULE MCReaderService ---------------------------
EXTENDS ReaderService

Ch(u) == [url |-> u, titled |-> TRUE]

\* A book of two chapters, one of which disappears, and a failed parse.
MCCatalogs == { <<>>, <<Ch("a"), Ch("b")>>, <<Ch("b")>>, <<[url |-> "x", titled |-> FALSE]>> }

Only(ks) == [k \in Requests |-> IF k \in ks THEN 1 ELSE 0]

Fresh == {[plan |-> Only(ks), stored |-> <<>>] :
            ks \in {{"download", "refresh", "read"}, {"download", "remove", "add"},
                    {"download", "clear"}, {"download", "open"}, {"download", "die"},
                    {"open", "read", "refresh", "export"},
                    {"refresh", "save", "remove", "open"},
                    {"clear", "open", "refresh", "read"}, {"download", "change"}}}

\* A failed parse was stored; a long catalog was stored and the source now has a short one.
MCSessions == Fresh \union
    {[plan |-> Only({"download", "open"}), stored |-> <<[url |-> "x", titled |-> FALSE]>>],
     [plan |-> Only({"open", "refresh", "read"}),
      stored |-> <<Ch("a"), Ch("b"), Ch("c"), Ch("d")>>]}

-----------------------------------------------------------------------------
\* Two items with a link of their own, and one without.
Post(link, summary, image) ==
    [link |-> link, inline |-> FALSE, summary |-> summary, image |-> image]
MCItems == {Post("l1", TRUE, FALSE), Post("l2", FALSE, FALSE), Post(NoLink, FALSE, TRUE)}
MCFeedPages == {<<>>, <<Post("l1", TRUE, FALSE), Post(NoLink, FALSE, TRUE)>>,
                <<Post("l2", FALSE, FALSE)>>}
MCPages == [down : BOOLEAN, login : BOOLEAN, readable : BOOLEAN,
            rule : {"text", "form", "nothing", "error"}]
MCChannels == <<TRUE, FALSE>>

Count1(list, k) == Cardinality({i \in DOMAIN list : list[i] = k})
Both(f, g) == [c \in Clients |-> [k \in Errands |-> Count1(IF c = "c1" THEN f ELSE g, k)]]

\* What two clients do next to each other.
MCOutings ==
    {Both(<<"fetch">>, <<"remove">>), Both(<<"fetch">>, <<"clear">>),
     Both(<<"rate">>, <<"remove", "post">>), Both(<<"rate", "sweep">>, <<"remove">>),
     Both(<<"check", "import">>, <<"load">>), Both(<<"load", "open">>, <<"remove">>),
     Both(<<"load", "load", "remove">>, <<"import">>), Both(<<"rate">>, <<"clear", "import">>)}

-----------------------------------------------------------------------------
Pg(items, next) == [items |-> items, next |-> next, down |-> FALSE]
DownPage == [items |-> <<>>, next |-> NoUrl, down |-> TRUE]
Three(p, q, r) == [u \in Urls |-> IF u = "p1" THEN p ELSE IF u = "p2" THEN q ELSE r]

\* Pages in a row, in a circle, and one that is its own next page; an empty page, and a page
\* that is down, in the middle; a first page that is down, or lists a pseudo chapter.
Forms == {Three(Pg(<<"a", "b">>, "p2"), Pg(<<"c">>, "p3"), Pg(<<"d">>, "p1")),
          Three(Pg(<<"a">>, "p2"), Pg(<<"b">>, "p2"), Pg(<<"d">>, NoUrl)),
          Three(Pg(<<"a">>, "p2"), Pg(<<>>, "p3"), Pg(<<"d">>, NoUrl)),
          Three(Pg(<<"a">>, "p2"), DownPage, Pg(<<"d">>, NoUrl)),
          Three(DownPage, DownPage, Pg(<<"d">>, NoUrl)),
          Three(Pg(<<Pseudo>>, NoUrl), DownPage, Pg(<<"c", "d">>, NoUrl)),
          Three(Pg(<<>>, "p2"), Pg(<<>>, "p1"), Pg(<<>>, NoUrl))}

Numbered(items) == [items |-> items, more |-> TRUE]
MCSites ==
    [pages : Forms, start : {"p1"}, chapter : {"p1", "p2"}, toc : {NoUrl, "p1", "p3"},
     api : {<<>>, <<Numbered(<<"c">>), Numbered(<<"d">>), Numbered(<<"d">>)>>,
            <<Numbered(<<"c">>), Numbered(<<>>)>>},
     paged : BOOLEAN, reversed : BOOLEAN]

-----------------------------------------------------------------------------
Clicked(what, of) == [is |-> what, of |-> <<of>>]
Screen(where, doing) == [screen |-> where, clicks |-> doing]

\* A search next to another or a cancelled one, commands of the shelf that overlap, a reader
\* that changes its book and one that goes on with it, and a validation among other commands.
MCVisits ==
    {Screen("search", <<Clicked("search", "k1"), Clicked(k, "k2"), Clicked("search", "k2")>>) :
        k \in {"search", "cancel"}}
    \union {Screen("shelf", <<Clicked("add", "b1"), Clicked("load", "b1"), Clicked(k, "b1")>>) :
              k \in {"add", "remove"}}
    \union {Screen("reader", <<Clicked("book", "b1"), Clicked("chapter", 1), Clicked("book", "b2"),
                              Clicked("chapter", 0), Clicked("save", "b1")>>),
            Screen("reader", <<Clicked("book", "b1"), Clicked("chapter", 0), Clicked("save", "b1"),
                              Clicked("book", "b1")>>)}
    \union {Screen("sources", <<Clicked("import", "b1"), Clicked("validate", "b1"), Clicked(k, "b1")>>) :
              k \in {"refresh", "import", "stop", "clear", "validate"}}
=============================================================================

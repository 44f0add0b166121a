------------------------------ MODULE RssFeeds ------------------------------
(***************************************************************************)
(* RSS feeds: the tables rss_sources and rss_articles of                   *)
(* src/infra/database.cpp, the fetching, rating and reading of             *)
(* src/engine/engine_rss.cpp and the requests of routes_rss.cpp.           *)
(*                                                                         *)
(* A step is one SQL statement, one channel of a feed (a request and the   *)
(* evaluation of the rules on its page) or the sampling of a rating.  No   *)
(* lock is held between steps.  Articles have no foreign key; their        *)
(* ids are never used again (AUTOINCREMENT), and a feed has one row for    *)
(* each link.  Of a source the model keeps whether it has rules (a bare    *)
(* one is read as RSS or Atom), its grade and whether it was updated, of   *)
(* an article its link, its place, and which of its parts are readable.    *)
(*                                                                         *)
(* A fetch has one pipeline: a failure that stops everything, a count of   *)
(* requests, a deadline, and a JavaScript runtime that keeps the error of  *)
(* its last evaluation until the next one.                                 *)
(***************************************************************************)
EXTENDS Integers, Sequences, FiniteSets, SequencesExt

CONSTANTS Feeds,        \* urls of sources
          Clients,      \* request threads
          Raters,       \* the threads of a rating: 4 in the code
          Channels,     \* of a source with rules: is the channel's url a script?
          Items,        \* articles a page may list
          FeedPages,    \* what a channel may answer: sequences of items
          Pages,        \* what the page of an article may be
          MaxRequests,  \* of one pipeline: 20 in the code
          Outings       \* bound: how many requests of each kind each client makes

Errands == {"post", "remove", "clear", "import", "fetch", "load", "open", "rate", "check",
            "sweep"}

FeedGrades == {"unknown", "excellent", "good", "poor", "invalid"}
FeedRows == [ruled : BOOLEAN, grade : FeedGrades, updated : BOOLEAN]
Bare == [ruled |-> FALSE, grade |-> "unknown", updated |-> FALSE]
Whole == [Bare EXCEPT !.ruled = TRUE]

NoLink == "no link"
NoFeed == "no feed"

ASSUME FeedConstants ==
    /\ IsFiniteSet(Feeds) /\ Channels \in Seq(BOOLEAN) /\ Channels # <<>>
    /\ \A x \in Items : {x.inline, x.summary, x.image} \subseteq BOOLEAN
    /\ FeedPages \subseteq Seq(Items) /\ <<>> \in FeedPages
    /\ Pages \subseteq [down : BOOLEAN, login : BOOLEAN, readable : BOOLEAN,
                        rule : {"text", "form", "nothing", "error"}]
    /\ MaxRequests \in Nat /\ Outings \subseteq [Clients -> [Errands -> Nat]]
    /\ Clients \intersect Raters = {} /\ NoFeed \notin Feeds

VARIABLES
    feeds,     \* table rss_sources: url -> row
    articles,  \* table rss_articles: id -> row
    nextId,
    fpc, trip, \* the threads: where each is, its local variables
    listed,    \* what each client has been shown: id -> link
    rating,    \* the rating under way: copied rows still to be graded
    errands,   \* requests still to come
    given,     \* history: ids and links shown to clients
    raced,     \* history: feeds removed while they were fetched
    erased,    \* history: feeds removed, and not added by a client since
    rerated    \* history: those of them that a rating was grading

feedTables == <<feeds, articles, nextId>>
feedHistory == <<given, raced, erased, rerated>>
feedVars == <<feedTables, fpc, trip, listed, rating, errands, feedHistory>>

\* The link of an article: its own, or the source's url with its place in the feed.
Link(item, place) == IF item.link # NoLink THEN [of |-> item.link, nth |-> 0]
                                           ELSE [of |-> NoLink, nth |-> place]
Placeholder(link) == link.of = NoLink

NoTrip == [task |-> NoFeed, feed |-> NoFeed, row |-> Bare, todo |-> <<>>, sound |-> TRUE,
           requests |-> 0, late |-> FALSE, jsError |-> FALSE, stale |-> FALSE,
           found |-> <<>>, offered |-> <<>>, keep |-> <<>>, id |-> 0,
           answer |-> [shown |-> "", error |-> TRUE]]

\* parseSortUrls: a source without channels is its own channel.
ChannelsOf(row) == IF row.ruled THEN Channels ELSE <<FALSE>>

FeedTypeOK ==
    /\ DOMAIN feeds \subseteq Feeds /\ \A f \in DOMAIN feeds : feeds[f] \in FeedRows
    /\ \A i \in DOMAIN articles : i \in 1 .. nextId - 1 /\ articles[i].feed \in Feeds
    /\ \A i, j \in DOMAIN articles :
        articles[i].feed = articles[j].feed /\ articles[i].link = articles[j].link => i = j
    /\ fpc \in [Clients \union Raters ->
                  {"idle", "source", "channel", "store", "stamp", "sample", "grade",
                   "row", "every", "probe", "weed", "add", "count", "list", "again", "origin",
                   "content"}]
    /\ \A t \in DOMAIN trip : trip[t].requests <= MaxRequests + 1
    /\ errands \in [Clients -> [Errands -> Nat]]

FeedStart(outing) ==
    /\ feeds \in [Feeds -> {Whole}] /\ articles = <<>> /\ nextId = 1
    /\ fpc = [t \in Clients \union Raters |-> "idle"]
    /\ trip = [t \in Clients \union Raters |-> NoTrip]
    /\ listed = [c \in Clients |-> <<>>]
    /\ rating = <<>>
    /\ errands = outing
    /\ given = {} /\ raced = {} /\ erased = {} /\ rerated = {}

FeedInit == \E outing \in Outings : FeedStart(outing)

-----------------------------------------------------------------------------
(* Helpers of the actions. *)

To(t, label) == fpc' = [fpc EXCEPT ![t] = label]

Errand(c, k) ==
    /\ fpc[c] = "idle" /\ errands[c][k] > 0
    /\ errands' = [errands EXCEPT ![c][k] = @ - 1]

Fetching(f) == \E t \in DOMAIN trip :
    fpc[t] \in {"channel", "store"} /\ trip[t].feed = f /\ trip[t].task # "rate"
Removing(f) == \E t \in DOMAIN trip : fpc[t] = "every" \/ (fpc[t] = "row" /\ trip[t].feed = f)
Grading(f) == \/ \E k \in DOMAIN rating : rating[k].feed = f
              \/ \E t \in Raters : fpc[t] # "idle" /\ trip[t].feed = f

DropArticles(fs) ==
    /\ articles' = [i \in {j \in DOMAIN articles : articles[j].feed \notin fs} |-> articles[i]]
    /\ raced' = raced \union {f \in fs : Fetching(f)}

DropFeeds(fs) ==
    /\ feeds' = [f \in DOMAIN feeds \ fs |-> feeds[f]]
    /\ raced' = raced \union {f \in fs : Fetching(f)}
    /\ erased' = erased \union fs
    /\ rerated' = rerated \union {f \in fs : Grading(f)}

\* INSERT OR REPLACE
PutFeed(f, row) == feeds' = [g \in DOMAIN feeds \union {f} |-> IF g = f THEN row ELSE feeds[g]]

\* INSERT ... ON CONFLICT(source_url, link) DO UPDATE
PutArticle(row) ==
    LET same == {i \in DOMAIN articles : articles[i].feed = row.feed /\ articles[i].link = row.link}
        id == IF same = {} THEN nextId ELSE CHOOSE i \in same : TRUE
    IN  /\ articles' = [i \in DOMAIN articles \union {id} |-> IF i = id THEN row ELSE articles[i]]
        /\ nextId' = IF same = {} THEN nextId + 1 ELSE nextId

\* A fetch is over; what follows is the list, if it was for that.
FetchOver(c) ==
    /\ To(c, IF trip[c].task = "load" THEN "list" ELSE "idle")
    /\ trip' = [trip EXCEPT ![c] = [NoTrip EXCEPT !.task = trip[c].task, !.feed = trip[c].feed]]

-----------------------------------------------------------------------------
(* Faulty variants of operations defined below; no specification uses them. *)

\* The source's row goes first.
RemoveRowFirst(c) ==
    /\ Errand(c, "remove")
    /\ \E f \in DOMAIN feeds :
        /\ DropFeeds({f})
        /\ trip' = [trip EXCEPT ![c] = [NoTrip EXCEPT !.task = "remove", !.feed = f]]
    /\ To(c, "row")
    /\ UNCHANGED <<articles, nextId, listed, rating, given>>

\* The failure of a channel is that of the next as well.
BlockedByFailure(j) == j.late \/ ~j.sound

\* A channel is not even requested after the deadline, or if the runtime keeps the error of
\* an earlier script and the channel's url is not itself a script.  The failure of an
\* earlier channel has been cleared.
Blocked(j) == j.late \/ (j.jsError /\ ~Head(j.todo))

\* A new pipeline.  The script of a header that fails stops nothing, but its error stays.
Pipelines(j, row) ==
    {[j EXCEPT !.row = row, !.todo = ChannelsOf(row), !.jsError = failed] :
        failed \in IF row.ruled THEN BOOLEAN ELSE {FALSE}}

\* send: a request beyond the limit still counts, and fails.
Counted(j, tries) == IF j.requests + tries > MaxRequests THEN MaxRequests + 1
                                                         ELSE j.requests + tries
Served(count) == count <= MaxRequests

-----------------------------------------------------------------------------
(* Sources are added, imported, removed. *)

\* POST /api/rss/sources: the new row has none of the rules of an old one.
PostFeed(c) ==
    /\ Errand(c, "post")
    /\ \E f \in Feeds : PutFeed(f, Bare) /\ erased' = erased \ {f}
    /\ UNCHANGED <<articles, nextId, fpc, trip, listed, rating, given, raced, rerated>>

\* importRssSourcesFromJson, and from a file or a url: one source after another.
ImportFeeds(c) ==
    /\ Errand(c, "import")
    /\ \E list \in SetToSeqs(Feeds) : trip' = [trip EXCEPT ![c] = [NoTrip EXCEPT !.todo = list]]
    /\ To(c, "add")
    /\ UNCHANGED <<feedTables, listed, rating, feedHistory>>

AddFeed(c) ==
    /\ fpc[c] = "add"
    /\ LET list == trip[c].todo
       IN  IF list = <<>> THEN To(c, "idle") /\ UNCHANGED <<feeds, trip, erased>>
           ELSE /\ PutFeed(Head(list), Whole)
                /\ erased' = erased \ {Head(list)}
                /\ trip' = [trip EXCEPT ![c].todo = Tail(@)]
                /\ UNCHANGED fpc
    /\ UNCHANGED <<articles, nextId, listed, rating, errands, given, raced, rerated>>

\* removeRssSource: the articles, then the row.
RemoveFeed(c) ==
    /\ Errand(c, "remove")
    /\ \E f \in DOMAIN feeds :
        /\ DropArticles({f})
        /\ trip' = [trip EXCEPT ![c] = [NoTrip EXCEPT !.task = "remove", !.feed = f]]
    /\ To(c, "row")
    /\ UNCHANGED <<feeds, nextId, listed, rating, given, erased, rerated>>

RemoveRow(c) ==
    /\ fpc[c] = "row"
    /\ DropFeeds({trip[c].feed})
    /\ To(c, CASE trip[c].task = "check" -> "probe" [] trip[c].task = "sweep" -> "weed"
               [] OTHER -> "idle")
    /\ UNCHANGED <<articles, nextId, trip, listed, rating, errands, given>>

\* clearAllRss
ClearFeeds(c) ==
    /\ Errand(c, "clear")
    /\ DropArticles(Feeds)
    /\ To(c, "every")
    /\ UNCHANGED <<feeds, nextId, trip, listed, rating, given, erased, rerated>>

ClearRows(c) ==
    /\ fpc[c] = "every"
    /\ DropFeeds(DOMAIN feeds)
    /\ To(c, "idle")
    /\ UNCHANGED <<articles, nextId, trip, listed, rating, errands, given>>

\* checkRssSources removes each source of its copy that does not answer,
\* clearInvalidRssSources each whose grade in its copy is invalid.
CopyFeeds(c, k, label) ==
    /\ Errand(c, k)
    /\ \E list \in SetToSeqs(DOMAIN feeds) :
        trip' = [trip EXCEPT ![c] = [NoTrip EXCEPT !.task = k,
                    !.todo = [i \in DOMAIN list |-> [feed |-> list[i], row |-> feeds[list[i]]]]]]
    /\ To(c, label)
    /\ UNCHANGED <<feedTables, listed, rating, feedHistory>>

\* The next source of the copy: kept, or its articles go.
Visit(c, keep, drop) ==
    LET list == trip[c].todo
    IN  IF list = <<>> THEN To(c, "idle") /\ UNCHANGED <<articles, trip, raced>>
        ELSE /\ trip' = [trip EXCEPT ![c].todo = Tail(@), ![c].feed = Head(list).feed]
             /\ \/ keep /\ UNCHANGED <<fpc, articles, raced>>
                \/ drop /\ To(c, "row") /\ DropArticles({Head(list).feed})

CheckFeeds(c) == CopyFeeds(c, "check", "probe")

\* HEAD, and GET if that is not allowed.
Probe(c) ==
    /\ fpc[c] = "probe"
    /\ Visit(c, TRUE, TRUE)
    /\ UNCHANGED <<feeds, nextId, listed, rating, errands, given, erased, rerated>>

SweepFeeds(c) == CopyFeeds(c, "sweep", "weed")

Weed(c) ==
    /\ fpc[c] = "weed"
    /\ LET bad == trip[c].todo # <<>> /\ Head(trip[c].todo).row.grade = "invalid"
       IN  Visit(c, ~bad, bad)
    /\ UNCHANGED <<feeds, nextId, listed, rating, errands, given, erased, rerated>>

-----------------------------------------------------------------------------
(* fetchRssSource and collectRssArticles. *)

FetchFeed(c) ==
    /\ Errand(c, "fetch")
    /\ \E f \in Feeds : trip' = [trip EXCEPT ![c] = [NoTrip EXCEPT !.task = "fetch", !.feed = f]]
    /\ To(c, "source")
    /\ UNCHANGED <<feedTables, listed, rating, feedHistory>>

\* The pipeline may not be set up, or the script of the channels fail.
ReadFeed(c) ==
    /\ fpc[c] = "source"
    /\ LET f == trip[c].feed
       IN  \/ FetchOver(c) /\ UNCHANGED raced
           \/ /\ f \in DOMAIN feeds
              /\ \E j \in Pipelines(trip[c], feeds[f]) : trip' = [trip EXCEPT ![c] = j]
              /\ raced' = IF Removing(f) THEN raced \union {f} ELSE raced
              /\ To(c, "channel")
    /\ UNCHANGED <<feedTables, listed, rating, errands, given, erased, rerated>>

\* One channel.  Its address may be a script that fails; the server may be down or answer a
\* page; the rules may fail, or send a request of their own; time passes.  "offered" is what
\* the pages list whose server and rules did their part.
Channel(t) ==
    /\ fpc[t] = "channel" /\ trip[t].todo # <<>>
    /\ \E page \in FeedPages, down, late \in BOOLEAN, asks \in 0 .. 1,
          fails \in {"nothing", "address", "rules"} :
        LET j == trip[t]
            sent == ~Blocked(j) /\ fails # "address"
            count == IF sent THEN Counted(j, 1 + asks) ELSE j.requests
            good == ~down /\ fails = "nothing" /\ page # <<>>
            used == sent /\ good /\ ~late /\ Served(count)
            place(k) == Len(j.found) + k
        IN  /\ fails = "address" => Head(j.todo)
            /\ fails = "rules" \/ asks = 1 => j.row.ruled /\ ~down
            /\ trip' = [trip EXCEPT ![t] =
                 [j EXCEPT
                    !.todo = Tail(@),
                    !.late = @ \/ late,
                    !.requests = count,
                    !.jsError = fails = "address" \/ (sent /\ fails = "rules")
                                \/ (@ /\ ~Head(j.todo)),
                    !.stale = @ \/ (j.jsError /\ ~Head(j.todo)),
                    !.sound = @ /\ used,
                    !.offered = IF good THEN @ \o page ELSE @,
                    !.found = IF used
                              THEN @ \o [k \in DOMAIN page |-> [item |-> page[k], place |-> place(k)]]
                              ELSE @]]
    /\ UNCHANGED <<feedTables, fpc, listed, rating, errands, feedHistory>>

Collected(t) ==
    /\ fpc[t] = "channel" /\ trip[t].todo = <<>>
    /\ trip' = [trip EXCEPT ![t].keep = trip[t].found]
    /\ To(t, IF trip[t].task = "rate" THEN "sample" ELSE "store")
    /\ UNCHANGED <<feedTables, listed, rating, errands, feedHistory>>

StoreArticles(c) ==
    /\ fpc[c] = "store"
    /\ LET j == trip[c]
       IN  IF j.keep = <<>>
           THEN /\ IF j.found # <<>> THEN To(c, "stamp") /\ UNCHANGED trip ELSE FetchOver(c)
                /\ UNCHANGED <<articles, nextId>>
           ELSE LET a == Head(j.keep)
                IN  /\ PutArticle([feed |-> j.feed, link |-> Link(a.item, a.place),
                                   item |-> a.item, place |-> a.place])
                    /\ trip' = [trip EXCEPT ![c].keep = Tail(@)]
                    /\ UNCHANGED fpc
    /\ UNCHANGED <<feeds, listed, rating, errands, feedHistory>>

\* A fetch that writes its source back.
StampWritesBack(c) ==
    /\ fpc[c] = "stamp"
    /\ PutFeed(trip[c].feed, [trip[c].row EXCEPT !.updated = TRUE])
    /\ FetchOver(c)
    /\ UNCHANGED <<articles, nextId, listed, rating, errands, feedHistory>>

\* updateRssSourceLastUpdateTime: an UPDATE.
Stamp(c) ==
    /\ fpc[c] = "stamp"
    /\ feeds' = [f \in DOMAIN feeds |-> IF f = trip[c].feed THEN [feeds[f] EXCEPT !.updated = TRUE]
                                                            ELSE feeds[f]]
    /\ FetchOver(c)
    /\ UNCHANGED <<articles, nextId, listed, rating, errands, feedHistory>>

-----------------------------------------------------------------------------
(* checkRssSourcesRated. *)

\* One rating at a time, as the page starts them.
Rate(c) ==
    /\ Errand(c, "rate") /\ rating = <<>> /\ \A t \in Raters : fpc[t] = "idle"
    /\ \E list \in SetToSeqs(DOMAIN feeds) :
        rating' = [i \in DOMAIN list |-> [feed |-> list[i], row |-> feeds[list[i]]]]
    /\ UNCHANGED <<feedTables, fpc, trip, listed, feedHistory>>

\* A pipeline that cannot be set up finds no articles.
ClaimFeed(t) ==
    /\ fpc[t] = "idle" /\ rating # <<>>
    /\ LET next == Head(rating)
           mine == [NoTrip EXCEPT !.task = "rate", !.feed = next.feed, !.row = next.row]
       IN  \E j \in {mine} \union Pipelines(mine, next.row) : trip' = [trip EXCEPT ![t] = j]
    /\ rating' = Tail(rating)
    /\ To(t, "channel")
    /\ UNCHANGED <<feedTables, listed, errands, feedHistory>>

\* Up to two articles, read as a reader would.
Sample(t) ==
    /\ fpc[t] = "sample"
    /\ \E readable \in BOOLEAN :
        /\ trip[t].found = <<>> => readable
        /\ trip' = [trip EXCEPT ![t].sound = @ /\ readable]
    /\ To(t, "grade")
    /\ UNCHANGED <<feedTables, listed, rating, errands, feedHistory>>

\* The row as it was copied is written back, with its grade.
WriteGrade(t) ==
    /\ fpc[t] = "grade"
    /\ \E g \in IF trip[t].found = <<>> THEN {"invalid"}
                ELSE IF ~trip[t].sound THEN {"poor"} ELSE {"excellent", "good", "poor"} :
        PutFeed(trip[t].feed, [trip[t].row EXCEPT !.grade = g])
    /\ trip' = [trip EXCEPT ![t] = NoTrip]
    /\ To(t, "idle")
    /\ UNCHANGED <<articles, nextId, listed, rating, errands, feedHistory>>

-----------------------------------------------------------------------------
(* Lists and articles. *)

\* loadRssArticles: only a feed without articles is fetched.
LoadArticles(c) ==
    /\ Errand(c, "load")
    /\ \E f \in Feeds :
        /\ trip' = [trip EXCEPT ![c] = [NoTrip EXCEPT !.task = "load", !.feed = f]]
        /\ To(c, IF \E i \in DOMAIN articles : articles[i].feed = f THEN "list" ELSE "source")
    /\ UNCHANGED <<feedTables, listed, rating, feedHistory>>

List(c) ==
    /\ fpc[c] = "list"
    /\ LET ids == {i \in DOMAIN articles : articles[i].feed = trip[c].feed}
       IN  /\ listed' = [listed EXCEPT ![c] = [i \in ids |-> articles[i].link]]
           /\ given' = given \union {<<i, articles[i].link>> : i \in ids}
    /\ trip' = [trip EXCEPT ![c] = NoTrip]
    /\ To(c, "idle")
    /\ UNCHANGED <<feedTables, rating, errands, raced, erased, rerated>>

\* /api/rss/article reads the article and getRssArticleContentResult reads it again.
OpenArticle(c) ==
    /\ Errand(c, "open")
    /\ \E i \in DOMAIN listed[c] :
        /\ trip' = [trip EXCEPT ![c] = [NoTrip EXCEPT !.task = "open", !.id = i]]
        /\ To(c, IF i \in DOMAIN articles THEN "again" ELSE "idle")
    /\ UNCHANGED <<feedTables, listed, rating, feedHistory>>

\* The article's parts go with the thread; without the article the answer is an error.
ReadArticle(c) ==
    /\ fpc[c] = "again"
    /\ IF trip[c].id \in DOMAIN articles
       THEN /\ trip' = [trip EXCEPT ![c].feed = articles[trip[c].id].feed,
                                    ![c].found = <<articles[trip[c].id]>>]
            /\ To(c, "origin")
       ELSE To(c, "idle") /\ UNCHANGED trip
    /\ UNCHANGED <<feedTables, listed, rating, errands, feedHistory>>

\* Without the source: the article's own content, and an error.
ReadOrigin(c) ==
    /\ fpc[c] = "origin"
    /\ IF trip[c].feed \in DOMAIN feeds
       THEN trip' = [trip EXCEPT ![c].row = feeds[trip[c].feed]] /\ To(c, "content")
       ELSE UNCHANGED trip /\ To(c, "idle")
    /\ UNCHANGED <<feedTables, listed, rating, errands, feedHistory>>

\* A page with a password field and no public article, unless the rule found text.
LoginOnly(ruled, page) == page.login /\ ~(ruled /\ page.rule = "text")

\* The login test is missing from the fallback.
FallbackTo(ruled, page) == IF page.readable THEN "page" ELSE ""

\* What is shown of a page that was loaded and did not yield the content.
Fallback(ruled, page) == IF page.readable /\ ~LoginOnly(ruled, page) THEN "page" ELSE ""

\* loadRssContent
ContentAnswer(link, item, ruled, page) ==
    LET text == IF ruled THEN page.rule \in {"text", "form"} ELSE page.readable
        asks == ~Placeholder(link) \/ ruled
    IN  IF item.inline THEN [shown |-> "inline", error |-> FALSE]
        ELSE IF ~ruled /\ item.summary THEN [shown |-> "summary", error |-> FALSE]
        ELSE IF ~asks /\ item.image THEN [shown |-> "image", error |-> FALSE]
        ELSE IF asks /\ ~page.down /\ text /\ ~LoginOnly(ruled, page)
        THEN [shown |-> IF ruled THEN "rule" ELSE "page", error |-> FALSE]
        ELSE [shown |-> IF item.summary THEN "summary"
                        ELSE IF asks /\ ~page.down THEN Fallback(ruled, page) ELSE "",
              error |-> TRUE]

LoadContent(c) ==
    /\ fpc[c] = "content"
    /\ \E page \in Pages :
        LET a == trip[c].found[1]
            answer == ContentAnswer(a.link, a.item, trip[c].row.ruled, page)
        IN  trip' = [trip EXCEPT ![c].answer = answer,
                                 ![c].sound = answer.shown \in {"rule", "page"}
                                              => ~LoginOnly(trip[c].row.ruled, page)]
    /\ To(c, "idle")
    /\ UNCHANGED <<feedTables, listed, rating, errands, feedHistory>>

-----------------------------------------------------------------------------

FeedNext ==
    \/ \E c \in Clients :
        \/ PostFeed(c) \/ ImportFeeds(c) \/ AddFeed(c)
        \/ RemoveFeed(c) \/ RemoveRow(c) \/ ClearFeeds(c) \/ ClearRows(c)
        \/ CheckFeeds(c) \/ Probe(c) \/ SweepFeeds(c) \/ Weed(c)
        \/ FetchFeed(c) \/ ReadFeed(c) \/ Channel(c) \/ Collected(c) \/ StoreArticles(c) \/ Stamp(c)
        \/ Rate(c)
        \/ LoadArticles(c) \/ List(c) \/ OpenArticle(c) \/ ReadArticle(c) \/ ReadOrigin(c)
        \/ LoadContent(c)
    \/ \E t \in Raters :
        ClaimFeed(t) \/ Channel(t) \/ Collected(t) \/ Sample(t) \/ WriteGrade(t)

FeedSpec == FeedInit /\ [][FeedNext]_feedVars

-----------------------------------------------------------------------------
(* Properties. *)

\* The tables (database.cpp:1323): an article whose feed is gone can only come from a fetch
\* that ran while the feed was removed; a feed that was removed is back only if a rating
\* was grading it; an id that a client was given never becomes the id of another link,
\* whatever is removed and fetched again.
FeedRowsAgree ==
    /\ \A i \in DOMAIN articles : articles[i].feed \in DOMAIN feeds \union raced
    /\ erased \intersect DOMAIN feeds \subseteq rerated
    /\ \A g \in given : g[1] \in DOMAIN articles => articles[g[1]].link = g[2]

\* Channels (engine_rss.cpp:661): what a failing channel costs is its own articles; the
\* others arrive, numbered through, unless the pipeline ran out of time or requests or
\* its runtime kept the error of an earlier channel's script.
ChannelsAreIndependent ==
    \A t \in DOMAIN trip :
        fpc[t] \in {"channel", "store", "stamp", "sample", "grade"} =>
            LET j == trip[t]
            IN  /\ \A k \in DOMAIN j.found : j.found[k].place = k
                /\ j.late \/ j.stale \/ j.requests > MaxRequests
                   \/ j.offered = [k \in DOMAIN j.found |-> j.found[k].item]

\* An answer to a reader (engine_rss.cpp:667): nothing to show comes with an error, and a
\* page behind a login is never shown for the article.
AnswersAreHonest ==
    \A c \in Clients : trip[c].task = "open" /\ fpc[c] = "idle" =>
        /\ trip[c].sound
        /\ trip[c].answer.shown = "" => trip[c].answer.error
=============================================================================

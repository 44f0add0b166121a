------------------------------ MODULE PageWalk ------------------------------
(***************************************************************************)
(* How the engine walks through the pages of a site: getCatalog and        *)
(* getContent of src/engine/engine_core.cpp, alone or in the session of    *)
(* the source debugger (src/apps/web_server/source_debug.h) that searches, *)
(* lists and reads one after the other.                                    *)
(*                                                                         *)
(* A step is one page: the request for it and the rules evaluated on it.   *)
(* In a debug session a check runs before and after every request and      *)
(* every rule; what it throws once is thrown ever after.  The session is   *)
(* cancelled, or its time is up, between any two steps; a request beyond   *)
(* the limit fails, also when a script made it that catches the failure.   *)
(* A page is its url, a chapter what a page says of it.                    *)
(***************************************************************************)
EXTENDS Integers, Sequences, FiniteSets, SequencesExt

CONSTANTS Urls,         \* urls of pages
          ChapterIds,   \* chapters that pages list
          Sites,        \* what sites may look like
          MaxNext,      \* next pages of a catalog: 100 in the code
          MaxApi,       \* pages of the /chapters interface: 100 in the code
          MaxText,      \* next pages of a content: 50 in the code
          MaxAsked      \* requests of a debug session: 20 in the code

NoUrl == "no url"
Pseudo == "pseudo"  \* a chapter without title, with a url below <book>/chapters/

Listings == [items : Seq(ChapterIds \union {Pseudo}), next : Urls \union {NoUrl}, down : BOOLEAN]

\* A site: its pages; where a catalog starts, the page a toc rule leads to, the answers of
\* the /chapters interface; where the content of a chapter starts; whether the rules know
\* next pages, and list chapters from the last to the first.
ASSUME WalkConstants ==
    /\ NoUrl \notin Urls /\ Pseudo \notin ChapterIds /\ Sites # {}
    /\ {MaxNext, MaxApi, MaxText, MaxAsked} \subseteq Nat
    /\ \A s \in Sites :
        /\ s.pages \in [Urls -> Listings]
        /\ s.start \in Urls /\ s.chapter \in Urls /\ s.toc \in Urls \union {NoUrl}
        /\ s.api \in Seq([items : Seq(ChapterIds), more : BOOLEAN])
        /\ {s.paged, s.reversed} \subseteq BOOLEAN

VARIABLES
    site, debug,
    stage,     \* what is being done, or how it ended
    at,        \* where in that
    page,      \* the page whose next link is followed
    visited,   \* the pages that are not visited again
    guard,     \* next pages so far
    results,   \* chapters: their index and what they are
    texts,     \* pages of the content
    asked,     \* requests of the session
    stop,      \* the check throws: the client is gone, or time is up
    events,    \* what the session has told
    loaded,    \* history: the pages of this walk, in order
    heard      \* history: how much had been told when the client went

walk == <<at, page, visited, guard, results, texts, loaded>>
walkVars == <<site, debug, stage, walk, asked, stop, events, heard>>

Over == {"done", "error", "cancelled"}

WalkTypeOK ==
    /\ site \in Sites /\ debug \in BOOLEAN /\ stop \in {"no", "late", "gone"}
    /\ stage \in {"search", "catalog", "content", "closing"} \union Over
    /\ at \in {"first", "next", "turn", "toc", "api", "end"}
    /\ page \in Urls \union {NoUrl} /\ visited \subseteq Urls
    /\ guard \in 0 .. MaxNext + MaxApi + MaxText /\ asked \in 0 .. MaxAsked + 1
    /\ results \in Seq([index : Nat, of : ChapterIds \union {Pseudo}])
    /\ \A k \in DOMAIN events : events[k] \in {"search", "catalog", "content", "done", "error"}

NewWalk(first) ==
    /\ at' = "first" /\ page' = first /\ visited' = {} /\ guard' = 0
    /\ results' = <<>> /\ texts' = <<>> /\ loaded' = <<>>

WalkStart(s, session, first) ==
    /\ site = s /\ debug = session /\ stage = first
    /\ at = "first" /\ page = NoUrl /\ visited = {} /\ guard = 0
    /\ results = <<>> /\ texts = <<>> /\ loaded = <<>>
    /\ asked = 0 /\ stop = "no" /\ events = <<>> /\ heard = 0

WalkInit ==
    \E s \in Sites :
        \/ WalkStart(s, TRUE, "search")
        \/ \E first \in {"catalog", "content"} : WalkStart(s, FALSE, first)

-----------------------------------------------------------------------------
(* Chapters.  (What is called a fault below is in no specification.) *)

\* parseCatalogFromPage: the chapters of a page are numbered from the size of the list.
Listed(list, items) ==
    list \o [i \in DOMAIN items |-> [index |-> Len(list) + i - 1, of |-> items[i]]]

-----------------------------------------------------------------------------
(* Requests. *)

\* runSourceDebug: an exception ends the session; a client that is gone is told nothing.
Fail ==
    /\ stage' = IF stop = "gone" THEN "cancelled" ELSE "error"
    /\ events' = IF stop = "gone" THEN events ELSE Append(events, "error")
    /\ UNCHANGED <<site, debug, walk, stop, heard>>

\* A page is loaded and its rules evaluated, whose scripts may send a request of their own:
\* either something is thrown on the way, or the walk goes on as Then says.
Load(u, Then) ==
    \E extra \in IF debug THEN 0 .. 1 ELSE {0} :
        LET count == IF debug THEN asked + 1 + extra ELSE 0
        IN  IF stop # "no" THEN Fail /\ UNCHANGED asked
            ELSE /\ asked' = IF count > MaxAsked THEN MaxAsked + 1 ELSE count
                 /\ IF count > MaxAsked THEN Fail
                    ELSE /\ Then
                         /\ loaded' = IF u = NoUrl THEN loaded ELSE Append(loaded, u)
                         /\ UNCHANGED <<site, debug, stage, stop, events, heard>>

PageAt(u) == site.pages[u]

\* The deadline passes, or the client goes.
Stop ==
    /\ debug /\ stage \notin Over
    /\ \/ stop = "no" /\ stop' = "late" /\ UNCHANGED heard
       \/ stop # "gone" /\ stop' = "gone" /\ heard' = Len(events)
    /\ UNCHANGED <<site, debug, stage, walk, asked, events>>

\* A stage is over: its event, and the next stage; an error if it brought nothing.
NextStage(next, brought) ==
    IF debug /\ (stop # "no" \/ ~brought) THEN Fail /\ UNCHANGED asked
    ELSE /\ stage' = IF debug THEN next ELSE "done"
         /\ events' = IF debug THEN Append(events, stage) ELSE events
         /\ NewWalk(NoUrl)
         /\ UNCHANGED <<site, debug, asked, stop, heard>>

-----------------------------------------------------------------------------
(* The stages. *)

Search ==
    /\ stage = "search" /\ at = "first"
    /\ Load(site.start, at' = "end" /\ UNCHANGED <<page, visited, guard, results, texts>>)

SearchEnds ==
    /\ stage = "search" /\ at = "end"
    /\ \E found \in BOOLEAN : NextStage("catalog", found)

\* getCatalog's first page.
FirstPage ==
    /\ stage = "catalog" /\ at = "first"
    /\ Load(site.start,
            LET p == PageAt(site.start)
            IN  /\ results' = IF p.down THEN <<>> ELSE Listed(<<>>, p.items)
                /\ at' = IF p.down THEN "toc" ELSE IF site.paged THEN "next" ELSE "turn"
                /\ page' = site.start /\ visited' = {site.start}
                /\ UNCHANGED <<guard, texts>>)

\* Is there a next page that was not visited, and is the bound not reached?
Onward(bound) == LET link == PageAt(page).next
                 IN  link # NoUrl /\ link \notin visited /\ guard < bound

NextPage ==
    /\ stage = "catalog" /\ at = "next" /\ Onward(MaxNext)
    /\ LET link == PageAt(page).next
       IN  Load(link,
                LET p == PageAt(link)
                IN  /\ visited' = visited \union {link} /\ guard' = guard + 1
                    /\ IF p.down \/ p.items = <<>>
                       THEN at' = "turn" /\ UNCHANGED <<page, results>>
                       ELSE page' = link /\ results' = Listed(results, p.items) /\ UNCHANGED at
                    /\ UNCHANGED texts)

LastPage ==
    /\ stage = "catalog" /\ at = "next" /\ ~Onward(MaxNext)
    /\ at' = "turn"
    /\ UNCHANGED <<site, debug, stage, page, visited, guard, results, texts, loaded, asked, stop,
                   events, heard>>

Useless == results = <<>> \/ (Len(results) = 1 /\ results[1].of = Pseudo)

\* A list from the last chapter to the first is turned round and numbered anew.
Turn ==
    /\ stage = "catalog" /\ at = "turn"
    /\ results' = IF site.reversed
                  THEN [k \in DOMAIN results |-> [index |-> k - 1, of |-> Reverse(results)[k].of]]
                  ELSE results
    /\ at' = IF Useless THEN "toc" ELSE "end"
    /\ UNCHANGED <<site, debug, stage, page, visited, guard, texts, loaded, asked, stop, events,
                   heard>>

\* The page the toc rule finds in the first one is added to the list; it is not turned.
TocPage ==
    /\ stage = "catalog" /\ at = "toc" /\ site.toc # NoUrl
    /\ Load(site.toc,
            /\ results' = IF PageAt(site.toc).down THEN results
                          ELSE Listed(results, PageAt(site.toc).items)
            /\ at' = "api" /\ guard' = 0
            /\ UNCHANGED <<page, visited, texts>>)

\* There is no such rule, or it finds nothing.
NoToc ==
    /\ stage = "catalog" /\ at = "toc"
    /\ at' = "api" /\ guard' = 0
    /\ UNCHANGED <<site, debug, stage, page, visited, results, texts, loaded, asked, stop, events,
                   heard>>

\* What the /chapters interface answers to the request for page n: nothing past its last.
ApiAnswer(n) == IF n <= Len(site.api) THEN site.api[n] ELSE [items |-> <<>>, more |-> FALSE]

\* A useless list is replaced by what the /chapters interface lists: one numbered page is
\* requested after another as long as the answer has chapters and says that there are more.
ApiPage ==
    /\ stage = "catalog" /\ at = "api" /\ guard < MaxApi
    /\ guard > 0 \/ Useless
    /\ Load(NoUrl,
            LET answer == ApiAnswer(guard + 1)
            IN  /\ results' = Listed(IF Useless THEN <<>> ELSE results, answer.items)
                /\ guard' = guard + 1
                /\ at' = IF answer.items # <<>> /\ answer.more THEN "api" ELSE "end"
                /\ UNCHANGED <<page, visited, texts>>)

\* The interface is not asked: the list is of use, the book's own url is one of /chapters,
\* or the bound is reached.
ApiEnds ==
    /\ stage = "catalog" /\ at = "api"
    /\ guard = 0 \/ guard >= MaxApi
    /\ at' = "end"
    /\ results' = IF Useless THEN <<>> ELSE results
    /\ UNCHANGED <<site, debug, stage, page, visited, guard, texts, loaded, asked, stop, events,
                   heard>>

CatalogEnds ==
    /\ stage = "catalog" /\ at = "end"
    /\ NextStage("content", results # <<>>)

\* getContent: the chapter's page, then its next pages.
FirstText ==
    /\ stage = "content" /\ at = "first"
    /\ Load(site.chapter,
            LET p == PageAt(site.chapter)
            IN  /\ texts' = IF p.down THEN <<>> ELSE <<site.chapter>>
                /\ at' = IF p.down \/ ~site.paged THEN "end" ELSE "next"
                /\ page' = site.chapter /\ visited' = {site.chapter}
                /\ UNCHANGED <<guard, results>>)

\* A fault: a page is not marked as visited.
NextTextUnmarked ==
    /\ stage = "content" /\ at = "next" /\ Onward(MaxText)
    /\ LET link == PageAt(page).next
       IN  Load(link,
                /\ guard' = guard + 1
                /\ IF PageAt(link).down THEN at' = "end" /\ UNCHANGED <<page, texts>>
                   ELSE page' = link /\ texts' = Append(texts, link) /\ UNCHANGED at
                /\ UNCHANGED <<visited, results>>)

NextText ==
    /\ stage = "content" /\ at = "next" /\ Onward(MaxText)
    /\ LET link == PageAt(page).next
       IN  Load(link,
                /\ visited' = visited \union {link} /\ guard' = guard + 1
                /\ IF PageAt(link).down THEN at' = "end" /\ UNCHANGED <<page, texts>>
                   ELSE page' = link /\ texts' = Append(texts, link) /\ UNCHANGED at
                /\ UNCHANGED results)

LastText ==
    /\ stage = "content" /\ at = "next" /\ ~Onward(MaxText)
    /\ at' = "end"
    /\ UNCHANGED <<site, debug, stage, page, visited, guard, results, texts, loaded, asked, stop,
                   events, heard>>

ContentEnds ==
    /\ stage = "content" /\ at = "end"
    /\ NextStage("closing", texts # <<>>)

\* No book found, or no chapter listed, has a url to go on with.
Unlinked ==
    /\ debug /\ stage \in {"catalog", "content"} /\ at = "first"
    /\ Fail /\ UNCHANGED asked

\* A fault: the last word is told without a check of its own.
SessionEndsUnchecked ==
    /\ stage = "closing" /\ stage' = "done" /\ events' = Append(events, "done")
    /\ UNCHANGED <<site, debug, walk, asked, stop, heard>>

\* The content is told: that the session is done is told after a check of its own.
SessionEnds ==
    /\ stage = "closing"
    /\ IF stop # "no" THEN Fail
       ELSE /\ stage' = "done" /\ events' = Append(events, "done")
            /\ UNCHANGED <<site, debug, walk, stop, heard>>
    /\ UNCHANGED asked

WalkNext ==
    \/ Search \/ SearchEnds \/ Stop
    \/ FirstPage \/ NextPage \/ LastPage \/ Turn \/ TocPage \/ NoToc
    \/ ApiPage \/ ApiEnds \/ CatalogEnds
    \/ FirstText \/ NextText \/ LastText \/ ContentEnds
    \/ Unlinked \/ SessionEnds

WalkSpec == WalkInit /\ [][WalkNext]_walkVars

-----------------------------------------------------------------------------
(* Properties. *)

Said(u) == IF PageAt(u).down THEN <<>> ELSE PageAt(u).items

\* getCatalog and getContent (engine_core.cpp:438, 499, 736): the chapters are numbered
\* through, whatever pages, fallbacks and turns they come from; no page is requested twice
\* in a walk, but for one the toc rule leads back to; what is listed is all that the pages
\* said, in their order, and what is read are all pages up to the first that is down.
WalksAreWhole ==
    /\ \A k \in DOMAIN results : results[k].index = k - 1
    /\ \A i, j \in DOMAIN loaded : i < j /\ loaded[i] = loaded[j] => loaded[j] = site.toc
    /\ at = "turn" => [k \in DOMAIN results |-> results[k].of]
                        = FlattenSeq([k \in DOMAIN loaded |-> Said(loaded[k])])
    /\ at = "end" /\ stage = "content" =>
          \E n \in 0 .. Len(loaded) :
              /\ texts = SubSeq(loaded, 1, n)
              /\ \A k \in DOMAIN loaded : PageAt(loaded[k]).down <=> k > n

\* runSourceDebug (source_debug.h:27, 41, 119, 122): a session says that it is done only
\* after all three stages, and nothing else after that, never an error; an error after the
\* content says that time was up; it says nothing to a client that is gone; and it never
\* sends more requests than it may.
SessionsAreHonest ==
    /\ \E n \in 0 .. 4 : \E last \in {<<>>, <<"error">>} :
        /\ events = SubSeq(<<"search", "catalog", "content", "done">>, 1, n) \o last
        /\ last # <<>> => n < 3 \/ (n = 3 /\ stop = "late")
    /\ "done" \in ToSet(events) <=> debug /\ stage = "done"
    /\ stop = "gone" => Len(events) = heard
    /\ asked > MaxAsked => stage \in Over
=============================================================================

# OpenRead (AriaRead): models and proofs

TLA+ models of OpenRead, a novel reader: a C++ engine that fetches catalogs and
chapters from user-supplied book sources, a SQLite store, and a web server with
a browser front end. The models are checked with TLC on small instances; every safety property the
runs find to hold, and a refinement, is also proved for every value of the constants, with TLAPS.

Source paths below are relative to the repository's root (`src/` in
`PROJECT.json` stands for it).

## The system

| Part | Keeps | Operations | Hard because |
|---|---|---|---|
| Parallel executor, `include/ariaread/parallel.h` | a shared index counter, a cancel predicate of the caller | `parallelForEach`: workers claim indexes until none is left or the predicate turns true; joins all | claims race with each other and with cancellation; search, download, validation and RSS check all run on it |
| Request dispatch, `src/apps/web_server/mira_server.cpp` | per request a `StreamBridge`: flags, outbox, response head, stop source | handler thread pushes chunks or leaves a response, the event-loop coroutine parks, takes, writes, joins | two threads hand over through a signal that is re-armed; the client may leave; a blocking join stops the whole loop |
| Refresh worker and book states, `src/engine/engine_bookshelf.cpp`, `engine_impl.h` | `bookStates`, `refreshQueue`, `queuedRefreshKeys`, `engineMutex`, `aliveFlag` | `openBookSession`, `requestBookRefresh`, the worker's loop, `changeBookSource`, `stopWorker` | de-duplication and flags must agree with the queue through errors, requeues, source changes and destruction |
| Catalog cache and bookshelf, `src/infra/database.cpp` with its callers in `engine_core.cpp` and `engine_bookshelf.cpp` | tables `bookshelf`, `book_chapters` (and progress, contents) on ONE connection shared by all threads | `cacheBookCatalog`, `updateBookshelfSource`, single statements; `refreshCatalog`, `getCatalogWithCache`, `checkBookUpdate`, the worker's job | a transaction belongs to the connection, so that threads fall into and roll back each other's; reads are used after other writes; crashes |
| Update check, `engine_update_check.cpp` | nothing | `checkAllUpdates`: `checkBookUpdate` for each book | as above |
| Source list, `engine_core.cpp`, `engine_utils.cpp` | `sources`, `currentSourceIndex` | import, select, remove, temporary switches | indexes into a vector that changes; some callers hold `engineMutex`, some do not |
| Source validation, `engine_validate.cpp` | grades and latencies of the sources | concurrent grading with cancel and deadline | results by index; forced grades for what did not finish |
| Search, `engine_search_all.cpp`, `engine_auto_source.cpp`, `routes_search.cpp` | counters, a result stream | search in all or selected sources | who counts what, and who waits for which count |
| Download, `engine_download.cpp` | counters, content table, book state | parallel download with retries | counts, order of callbacks, state written at the end |
| RSS, `engine_rss.cpp` | RSS sources, articles | import, check, read | a temporary source in the shared vector |
| Rules and selectors, `src/rule`, `src/selector`, `engine_utils.cpp` | two caches of results and patterns | functions on strings and trees, applied by many threads | index arithmetic, splitting rules, cache keys |
| JavaScript, HTTP, parsing, export, `src/infra` | a pool of runtimes | calls into QuickJS and curl | external libraries |
| View models, routes, front end | presentation state | | thin; callbacks arriving late |

How they interact: a route runs on a thread of its own (dispatch), calls the
engine, and the engine calls the database, the HTTP client and the executor.
The refresh worker calls the same engine and the same database on its own.
Shared state is protected by `bookStateMutex` (book states, queue), by
`engineMutex` (a recursive mutex around operations that depend on the selected
source), by `sourcesMutex` in validation, and, in the database, by nothing but
SQLite's own serialisation of statements.

What makes each part correct, in short: the executor runs each index once and
waits for all; dispatch loses no wake-up, no chunk and no reply, and never
blocks the loop; the refresh worker's bookkeeping agrees with its queue; the
store holds whole catalogs, keeps its foreign keys and never loses a book; a
request works with the source it names and gives the selection back; a validation
keeps what it reports; a text is that of its chapter; a download's, a search's and a
screen's numbers are those of what happened; a rule finds what it says. The
hazards behind these sentences are listed, each at its line, in `PROJECT.json`.

## The modules

| Module | Models | Extends |
|---|---|---|
| `TaskBatch` | abstract: what a caller of `parallelForEach` relies on | |
| `ParallelForEach` | one call of `parallelForEach`, implements `TaskBatch` | |
| `StreamBridge` | one HTTP request: handler thread, bridge, event loop | |
| `RefreshWorker` | refresh queue, worker, web threads, destructor | |
| `CatalogStore` | the shared connection and the operations that write catalogs | |
| `SourceList` | the vector of sources, the selected index, the table behind them, and the requests that read and change the three | |
| `SourceValidation` | `validateSourcesConcurrent` over that list | `SourceList` |
| `SearchStream` | `/api/search/stream` and `searchAllConcurrent` over that list | `SourceList` |
| `ListService` | composes the list, a validation and a stream | the three above |
| `SourceGrade` | how a validation grades one source: threads, budget, pool of runtimes | |
| `AlternativeSources` | the search for other sources of a book | |
| `RuleText` | how a rule is cut at its separators, how an index list is read | |
| `RuleEngine` | how a rule is applied, by several threads that share two caches | |
| `HtmlTree`, `CssEngine`, `NodeSteps` | pages as trees; CSS selectors; XPath and JSoup rules | each extends the one before |
| `JsonPath` | the JSON selector | |
| `SourceService` | composes what is done with sources | `ListService` and the parts since |
| `Ascending` | the order in which a loop over a vector keeps some of its elements | |
| `BookReading` | one book: catalog, contents, progress, state in memory, download and readers | |
| `RssFeeds` | feeds and articles, fetching, rating, reading | |
| `PageWalk` | the walk through the pages of a site, alone or in a debug session | |
| `ViewModels` | the four screens of the native front end | |
| `ReaderService` | composes the four above | |
| `MC...` | instances for TLC | their module |
| `...Proofs` | theorems and proofs | their module |

Most component modules also have a section "faulty variants": an operation as it
would be with a plausible bug. No specification uses them; replacing the
operation by its variant shows that a property really depends on the code.

**Two kinds of composition.** `ListService` runs the requests on the list, a
validation and a streamed search *next to each other*: they share the list, the
table and the index, and their steps interleave. It is one part of `SourceService`;
the other parts of `SourceService`, and the four parts of `ReaderService`, share no variable with
anything (in the code: no memory, table or lock, except the SQLite connection,
which is the subject of `CatalogStore`, and the engine's mutexes, that of
`SourceList` and `RefreshWorker`). An interleaving of two such parts projects to
a behaviour of each, and every property here speaks of one part. So a behaviour
of a composite is that of one part, chosen in the initial state (`side`, `part`),
next to the others at rest. This is no restriction of what is checked, and
leaves TLC the sum of the parts' states rather than their product.

### ParallelForEach (`parallel.h:43-85`)

`next` is the atomic counter, `pc` and `item` are the workers' control points and
the index they claimed. A worker checks the predicate, claims an index
(`fetch_add`), runs the body and checks again: one action each. `Spawn` starts
workers one by one, and the first may have finished everything when the last
starts. With one thread the code runs the loop in the caller; the model spawns
one worker and joins it, which cannot be told apart. A body that throws is a body
that ends (the code swallows the exception). `count` and `concurrency` are the
call's arguments; they are chosen in `Init` from the constants and may be zero or
negative. The failure to create a thread is not modelled.

`TaskBatch` has no threads: tasks are pending, running or done, and the call
returns when nothing runs and nothing is pending, unless it was cancelled. The
refinement maps an index to *pending* until its body has been entered, to
*running* while a worker is in it.

### StreamBridge (`mira_server.cpp:127-208, 306-310, 341-432`)

A step is one critical section of the bridge's mutex or one `co_await`. The
`std::stop_source` is one flag, `signal`: `arm()` replaces it (and sets it at
once if there is a reason not to sleep), `begin_stream`, `push` and `finish` set
it, `park()` returns when it is set. `finished()` and `has_pending()` in the
loop's exit condition are two steps, as they are two critical sections. Chunks
are numbers in the order of pushing. The handler may leave a complete response
or a provider and may throw in either case; `heeds` says whether the provider
asks `is_writable()`: the source debugger's does, the others do not. The client
may be gone at every write. The OPTIONS reply, parsing and the writing of the
buffered reply (one `send`) are not modelled further.

### RefreshWorker (`engine_bookshelf.cpp:69-199, 278-321, 399-486`)

A step is one critical section of `bookStateMutex`, one operation on
`engineMutex` or one on the condition variable. A job is its key, the book. Of a
reading state only the presence and the two refresh flags are kept.
`openBookSession` has two steps, because the overwriting of the snapshot and
`requestBookRefresh` are two critical sections; the notification is a third,
after the mutex. `try_lock` followed by `unlock` and the `lock` inside
`getCatalogForSource` are two steps, and a web thread can take the mutex in
between. The worker is woken by a notification, spuriously, or by
`stopWorker()`. The destructor (`Flag`, `Stop`, `JoinWorker`) begins when no
request is left.

### CatalogStore (`database.cpp:664-699, 756-809, 930-1029` and callers)

All threads share one connection. A step is one SQL statement, a fetch, or one
of the catalog's INSERTs. `tx` is the thread that began the connection's open
transaction and `saved` the tables at that moment: the statements of all other
threads fall into it, `begin` inside it fails, `commit` and `rollback` end it,
whoever issues them, and without it they fail. `Restart` goes back to what was
committed. Rows of `book_chapters` are refused without a row in `bookshelf`
(foreign key) or if the index exists (primary key), and go with their book
(cascade). Of a bookshelf row the model keeps what the operations write (last
chapter, total, update flag), of a chapter its title, where `Blank` stands for
all blank titles. The operations are those that write catalogs: `refreshCatalog`,
`getCatalogWithCache`, `checkBookUpdate`, the worker's job and
`changeBookSource`, and the single statements that add, remove and clear a
book. They differ in the checks they make on a new catalog (`AfterFetch`,
`Count`, `CanReplace`) and in what they write at the end (`NewRow`,
`UpdateFlags`).

`mixed` is a history variable: it becomes true when a statement runs inside
a transaction of another thread. Once that has happened, anything can (run
`change_source`). The invariants say what holds until then.

### SourceList (`engine_core.cpp:101-270, 650-690, 860-921`, `engine_impl.h:322-400`, `database.cpp:301-343`, `routes_search.cpp:142-173`)

`sources` is the vector, `cur` the index of the selected source (counted from 0, as
in the code), `table` the rows of `book_sources` (url to grade), `holder` the
owner of `engineMutex`. A thread has a control point `pc` and a record `job` of its
local variables: the sources still to import, the index it found, the index it
has to restore, the source it was asked for (`want`) and the sources whose url,
headers and rules it has used (`used`). The requests are an import (row, then
vector, source by source, with the rename of duplicates), a removal, the sweep
of bad sources, clearing, `/api/search` (select by name, then search, without the
mutex), and the two locked ones: `getCatalogForSource` switches the index and
restores it; reading an RSS article pushes a temporary source, selects it and
pops it. `touched`, `overlap`, `swept` and `chosen` are history variables by which the
properties say what they hold up to: the list or the index written without the lock while
somebody held it; two changes at once; a sweep that emptied the list; the selection as the
last unlocked request left it. Using a dangling position, or an index out of
range, is undefined behaviour: it sets `broken` and the behaviour ends there.

### SourceValidation, SearchStream (`engine_validate.cpp:556-784`, `engine_search_all.cpp:81-170`, `routes_search.cpp:25-132`)

A validation takes its tasks (index and url) under `sourcesMutex`, grades them in
several threads and commits each in three steps: the list by *index*, the table by
*url*, the report. Its final loop grades what has no grade as invalid. `vshifts` remembers
how often sources had left the list when it began: once one has, an index may mean
another source. A streamed search reads the list twice, for the route's count and
copy, and for the engine's tasks; `steady` says that nothing the two depend on was written
between them. The executor in both is that of `ParallelForEach`, and only what
`TaskBatch` says of it is used.

### SourceGrade, AlternativeSources (`engine_validate.cpp:99-550`, `engine_impl.h:277-321`; `engine_auto_source.cpp`, `engine_search_all.cpp:145-295`, `routes_bookshelf.cpp:268-305`)

`SourceGrade` gives each of the keyword threads a clock (`now`), because they share the
pool of JavaScript runtimes and nothing else. A request takes any of `Durations`,
but not more than `computeRequestTimeoutMs` allows (`Limit`); rules take a time of
their own, which no budget cuts short. `AlternativeSources` has one action per
critical section of `callbackMutex` and per task claimed.

### RuleText, RuleEngine (`rule_analyzer.cpp`, `elements_single.cpp`; `engine_utils.cpp:680-1052`, `rule_cache.h`, `selector_factory.cpp:108-143`, `inline_rule.cpp`)

Rules are sequences of tokens; a token is a separator, a bracket, a quote, a
backslash or "x" for everything else. `RuleText` moves positions like the code, one
separator or index at a time, and is compared with a definition of the pieces that does
not scan from left to right. In `RuleEngine` a rule is a tree (select, join, template,
put, get, redact, chain, script) and every thread has a stack of calls. Each call of a
cache is a step. An item is the history of what was done to it, so that a wrong cache
hit shows in the answer.

### HtmlTree, CssEngine, NodeSteps, JsonPath (`css_engine.cpp`, `xpath_engine.cpp`, `selector_impl.cpp`, `gumbo_helper.cpp`)

Elements are numbered in document order. A label stands for tag, id, class and
attribute alike, since the engines treat them alike once a selector is parsed.
The CSS engine tries every element against every selector, from right to left, one
compound at a time. XPath and JSoup rules replace a set of elements step by step.
A JSON path follows tokens. Each is compared with the meaning of the selector
as a set, on the selectors the code does decide (`Decided`, `PlainPath`); the section on
differences says what happens on the others.

### BookReading (`database.cpp:664-1074`, `engine_bookshelf.cpp`, `engine_core.cpp:924-1060`, `engine_download.cpp`, `engine_export.cpp`)

One book: `rows` (the cached catalog), `content` (by position), `progress`, `mem` (its
state in memory), and the source that may publish another catalog at any
request. A download with its workers, retries, counters and final notes runs next to readers that
open, read, refresh, export, save, clear, remove, add the book again or change its source, and next to
the engine's end. A text is the chapter it belongs to, so that handing out another
chapter's text is visible. `seen` collects the catalogs the source has returned.

### RssFeeds (`engine_rss.cpp:233-1005`, `database.cpp:1209-1580`, `routes_rss.cpp`)

`feeds` and `articles` are the tables. A trip is one fetch, rating or reading with its
pipeline: the count of requests, the deadline, the failure that stops everything, and the
error a runtime keeps. No lock is held between steps, so feeds are removed under a fetch and
graded after they are gone.

### PageWalk (`engine_core.cpp:434-744`, `source_debug.h`)

A step is one page. A catalog has first page, toc rule, next pages, the
`/chapters` interface, a fallback and the reversal; a content has next pages. The interface is asked
page by page; the request past its last answer is sent and counted too, and what comes back
empty ends the loop (`ApiAnswer`). The debug session
runs search, catalog and content with a check around every request
and rule that throws once the session is cancelled, late or beyond its requests. Each event is told
after a check of its own: that the session is done is a step after the content
(`SessionEnds`), so a deadline between the two gives the content and then an error, and a client
that leaves there hears the content only. A search or a list without a url to go on with is
an error too (`Unlinked`).

### ViewModels (`src/viewmodels`)

The ui thread takes clicks and posted tasks one at a time. A command's work runs elsewhere and posts
back. The Aria framework is not in the repository: that a command executing is not begun again, that posts arrive in
order, and that any number of worker threads may exist, is assumed from its use and
marked external.

## The runs

| Run | Checks | Shows |
|---|---|---|
| `parallel_for_each` | `TypeOK`, `AtMostOneLateBody`, `ImplementsBatch`, `EventuallyReturns` | at most one body per worker after cancelling, a call implements a batch and returns |
| `stream_bridge` | `TypeOK`, `NoLostWakeup`, `NoIdleWakeup`, `InOrderAndComplete`, `RegularJoinDoesNotBlock`, `BufferedReplyIsRight`, `RequestEnds` | the hand-over neither loses a signal nor spins; the stream and the reply are right; every request ends |
| `client_gone` | `LoopNeverWaitsForHandler`, violated | see below |
| `refresh_worker` | `TypeOK`, `QueuedKeyHasJob`, `InFlightIsCurrent`, `WorkerCreatesNoEntry`, `QueuedJobIsFetched`, `DestructorEnds` | the bookkeeping agrees with the queue; jobs are served, the destructor ends |
| `snapshot_flags` | `SnapshotFlagsAreTrue`, violated | see below |
| `catalog_store` | `TypeOK`, `NoTransactionLeftOpen`, `WholeCatalogs`, `UndisturbedCopyBeforeErase` | foreign keys hold, no transaction is left open, and unless transactions mix, catalogs are whole and a copy precedes the deletion |
| `change_source` | `CopyBeforeErase`, violated | see below |
| `garbage_catalog` | `GoodCatalogKept`, violated | see below |
| `source_service`, the list | `SelectionInRange`, `LockedRequestsLeaveNoTrace`, `FetchedFromRequested`, `ListMatchesTable`, `ReportsAreTrue`, `StreamIsTrue`, `ServiceEnds` | the index stays in range and is given back; what is fetched comes from the source asked for; list and table agree; a validation keeps what it reports; an event names its source; the stream's two counts agree; both end |
| the same, one source | `CandidatesAreTold`, `GradesAreTrue`, `RulesAreFollowed` (and `ServiceTypeOK`) | candidates are told once and counted right; a grade is earned within the budget by a thread with a runtime of its own; rules, index lists, selectors and caches give what the rule says |
| `selection_out_of_range` | `SelectionStaysInRange`, violated | see below |
| `css_chains` | `FindsWhatIsMeant`, violated | see below |
| `reading` | `TextOfItsChapter`, `DownloadsAreTrue`, `DownloadIsOver`, `FeedRowsAgree`, `ArticlesReachReaders`, `PagesAreWhole`, `ScreensAreTrue` (and `ReaderTypeOK`) | a text is that of its chapter; a download's numbers are right and it ends; feeds and articles agree; channels fail alone; walks lose and repeat nothing and a debug session is honest; screens show what is there |

A property of a composite is a conjunction of the parts' own (`GradesAreTrue` of
`BudgetIsKept`, `GradeIsEarned` and `RuntimesAreOwned`, and so on); it is the
parts' definitions that name the code they are about.

### Where the code differs from what it says

- `client_gone`. `mira_server.cpp:346` gives handlers a thread because occupying
  the event loop would stall all requests. When a write fails, `dispatch` joins
  that thread from the event loop (lines 406 and 414) while the provider still
  runs; most providers do not look at `cancelled`, and for a failed head `cancel()` is
  not even called.
- `snapshot_flags`. `types.h:326-327` documents `refreshQueued` and
  `refreshInFlight`; opening a book again (`engine_bookshelf.cpp:422`) resets
  them while its job is queued or under way. (`QueuedKeyHasJob` still holds: the
  de-duplication by key does not rely on the flags.)
- `change_source`. Between the INSERT and the DELETE of `updateBookshelfSource`
  the refresh worker begins a catalog; its `begin` fails, its error path rolls
  the other thread's transaction back, and the DELETE removes the only row of
  the book (`database.cpp:947` and `802`).
- `garbage_catalog`. The guard in `checkBookUpdate` exists so that garbage does
  not overwrite a good cache (`engine_bookshelf.cpp:353`), but it accepts anything
  when the old catalog has at most 10 chapters, and `checkBookUpdate`
  does not validate: one blank chapter replaces a good catalog. The next
  `getCatalogWithCache` then drops the cache.
- `selection_out_of_range`. `removeInvalidSources` corrects the index only if sources
  are left (`engine_core.cpp:251`). A list it empties keeps the old index, and
  after the next import `currentSource()` indexes behind the vector. It takes four requests:
  a selection, a validation that fails everywhere, the sweep, an import.
- `css_chains`. `css_engine.cpp:11` says that for every candidate the chain on its left
  is verified by going back. `matchComplexAgainst` walks it once: the nearest ancestor
  is never exchanged for another one (`a > b c` misses elements), and the sibling
  loop compares with the variable it overwrites, so that it ends at the last sibling
  that matches (`a + b ~ a` finds too much).

Differences met while modelling that have no run of their own. The models do what the code
does; the properties that would fail exclude the case by name.

- `SourceList`, `SourceValidation`, `SearchStream`. `/api/search` selects and searches in two calls
  without the mutex, and imports and removals change the vector under the locked
  requests (`touched`). Removing a source in front of the selected one shifts the
  selection (`engine_core.cpp:221`); a validation then stores results at the wrong index.
  `explore()` writes its rule into the shared source (`engine_core.cpp:1078`).
- `AlternativeSources`. `excludeSourceUrl` is never looked at
  (`engine_auto_source.cpp:53`), and the route keeps the stream open after the end and passes
  no cancel token (`routes_bookshelf.cpp:300`).
- `RuleEngine`. The key of the rule cache has neither the variables a script
  reads nor the base url (`engine_utils.cpp:875`): a script behind a selector may
  get the answer another thread had. `AnswersMatchRules` leaves these rules out
  (`Chained`). `createOrChain` (`selector_factory.cpp`) cuts at `||` also inside brackets.
- `NodeSteps`. The last resort of a JSoup rule reads `class.a@class.b@text` as the
  CSS class `a` (`selector_impl.cpp:742-806`), `tag.p!0` returns the elements it
  should exclude; an XPath promises document order and has it per context element only
  (`xpath_engine.h`), and a second predicate still sees the positions of the first.
- `JsonPath`. `[1:]` drops the last element, a slice with a step of 0 or less does
  not end or leaves the array, a negative index finds nothing, and `[*]` and slices
  ignore the tokens behind them (`selector_impl.cpp:33-137`). In index lists, `[1:]` ends at 0.
- `RssFeeds`. The comment at `engine_rss.cpp:660` says channels fail alone; the
  runtime's last error outlives the evaluation that caused it and the next channel is
  taken for failed (`engine_rss.cpp:447`). `ChannelsAreIndependent` names it `stale`.
- `BookReading`. After a change of source the route refreshes the *old* url
  (`routes_bookshelf.cpp:141`; the one hazard without a property). A download clears
  the update flag although chapters failed (`engine_download.cpp:325`). The worker writes length
  and last title of a catalog it has refused (`engine_bookshelf.cpp:163`). A chapter is looked up
  by position (`engine_core.cpp:1029`): when the source inserts one in front, stored texts are off
  by one (`SameOrder`).
- `ViewModels`. `validate` blocks the ui thread, so that `cancel_validate` cannot
  act (`source_view_model.cpp:86`); a second search clears the cancel flag of the first and is
  then ignored (`search_view_model.cpp`); two overlapping shelf commands leave an
  old list on the screen.

### Bounds, and why they are enough

- `ParallelForEach`: 0 to 4 tasks, concurrency -1, 0, 2 and 3: none, fewer, as many
  and more tasks than workers, and both clamped values. The theorems need no bound.
- `StreamBridge`: `MaxChunks = 3`. Chunks can arrive before, between and after `take`,
  `arm` and `park`, two in one round, and one in the round after.
- `RefreshWorker`: two books and two threads, four operations on the reading
  states (one book and three operations suffice for `snapshot_flags`). A job can
  be queued, popped, requeued behind another one, and its book opened again or
  changed at each point. Using the engine is not counted, so that the mutex can be
  busy again and again.
- `CatalogStore`: two books (old and new url, or two catalogs), one web thread
  and the worker, four operations. The guard's threshold is 3 instead of 10
  (`Few`), the long catalog has four chapters, so that a short one is below half
  of it; the others are empty, one blank and one good chapter.
  `MaxOps` is never reached in the middle of an operation: it bounds beginnings only.

- `SourceList` with `SourceValidation` and `SearchStream`: two stored sources and a third one that
  comes, two of the same name, one without search url; two threads and workloads of two
  or three requests, one of each kind (`MCWorkloads`), chosen so that every two requests that
  share state meet, also within a validation or a stream of two workers. A removal in front
  of, at and behind the selected source, the rename of a duplicate, and an
  emptied list occur. `selection_out_of_range` needs one thread and four requests.
- `SourceGrade`: two threads, a pool for one runtime, two books, a budget of 5 ticks, a
  timeout of 3 and a least timeout of 1; answers after 0, 1, 3 and 9 ticks. The budget runs out in
  the search, between books and within one, and a page may come before, at and after its timeout.
- `AlternativeSources`: two workers, up to three sources, two of which have the same name and book.
- Rules: all words up to four tokens over `x [ ] ( && ||`, all of six over `[ ] &&`, and
  quotes and escapes behind a bracket; index lists of one and two elements with every
  sign, over one and three elements. Caches hold two results and one pattern, so that
  eviction occurs; two threads with two rules each.
- Pages: every labelling of the trees of four elements that differ in depth and
  width, and some of five and six; all pairs and triples of combinators, every axis, predicate and
  final step of one, two and three steps; JSON paths of up to four
  tokens, over values listed together with all values inside them.
- `BookReading`: a book of two chapters of which one disappears, a failed parse, an earlier
  catalog of four; thresholds of 1 and 2 instead of 10; two readers, two download workers. In each
  of the eleven sessions one to four requests meet.
- `RssFeeds`: one feed with two channels, one of them a script; two clients, one rating thread.
- `PageWalk`: seven shapes of a site with three pages (a row, circles, an empty or missing page, a
  pseudo chapter), limits of 2 instead of 100 and 50, six requests to a session.
- `ViewModels`: three to five clicks on one screen, two books, two results at a time.

### Fairness

- `ParallelForEach`: weak fairness of the caller and of the workers together:
  threads run and bodies end (requests in them have timeouts). It is not assumed
  that the caller cancels.
- `StreamBridge`: weak fairness of the worker thread and of the coroutine. The
  waits of handlers and providers have deadlines, so a provider does not push for
  ever; `MaxChunks` stands for that.
- `RefreshWorker`: weak fairness of the worker, of threads that have begun, and of the
  destructor once it has begun. Requests need not come. `engineMutex` is not
  fair: `QueuedJobIsFetched` therefore assumes that web threads leave it alone
  from some time on, which the code does not guarantee and the property says.
- `CatalogStore`: none; it has safety properties only.

- `SourceValidation`, `SearchStream`: weak fairness of the validating thread, of its
  workers together, and of a stream's steps, the sixty seconds included. Requests in them have
  timeouts and the executor needs nobody else. Other requests need not come, nor end;
  after undefined behaviour (`broken`) nothing is promised.
- `BookReading`: weak fairness of the download's steps together, for the same reason.
- The other parts have safety properties only.

Deadlock is checked in the first eight runs: a finished call, request or
engine stutters in an explicit action, and the catalog store can always restart. In
`source_service`, `selection_out_of_range`, `css_chains` and `reading` it is not: their
parts come to rest when the requests of the bound are used up, a rule has been read or
a screen is left, and the program itself waits for the next request there. That a
validation, a stream and a download do not wait for ever before is what
`ServiceEnds` and `DownloadIsOver` say.

## The proofs

| Module | Theorems |
|---|---|
| `WorkerProofs`, the executor | `TypeCorrect`, `EachIndexOnce`, `LateBodiesBounded`, `CallImplementsBatch` |
| `WorkerProofs`, the refresh worker | `RefreshTypeCorrect`, `KeysHaveJobs`, `FlightsEnd`, `WorkerResurrectsNothing` |
| `WebServerProofs`, a request | `BridgeTypeCorrect`, `WakeupsAreNotLost`, `WakeupsAreNotIdle`, `StreamIsComplete`, `RegularJoinIsShort`, `BufferedReplies` |
| `WebServerProofs`, the store | `TypeCorrect`, `TransactionsEnd`, `CatalogsAreWhole`, `CopyComesFirst` |
| `SourceProofs`, the list | `ListTypeCorrect`, `FetchesAreDirected`, `SelectionHolds`, `LockLeavesNoTrace`, `TableAgrees` |
| `SourceProofs`, next to it | `ReportsHold`, `StreamsHold`, `SeekTypeCorrect`, `CandidatesHold` |
| `SourceProofs`, grading | `GradeTypeCorrect`, `BudgetHolds`, `GradesAreEarned`, `RuntimesHaveOneOwner`, `GradesHold` |
| `SelectorProofs` | `PathsFollow`, `JsonFollows`, `SelectorsFollow` |
| `RuleProofs` | `RuleTypeCorrect`, `AnswersMatch` |
| `RuleTextProofs` | the lemmas on cutting a rule and reading an index list; `ServiceTypeCorrect`, `RulesFollow`, `SourcesServe` |
| `ViewModelsProofs` | the lemmas on a screen |
| `ReaderServiceProofs` | the lemmas on a book, the feeds and the walks; `ReaderTypeCorrect`, `TextsAreOfTheirChapters`, `DownloadsTellTheTruth`, `FeedTablesAgree`, `ArticlesAreHonest`, `PagesStayWhole`, `ScreensTellTheTruth` |

A module of proofs may cover two components that share no state (a prover starts once per
module): what belongs to which is said in its sections.

Each safety invariant and action property of the six passing runs is proved for every value of
the constants, from the modules' named assumptions:

- the counts of `ParallelForEach` are natural numbers and the concurrencies integers; bounds are
  natural numbers;
- `CatalogStore`: the blank title is none of the others, the catalogs are sequences of titles, and
  the worker is not a web thread;
- `SourceList`: the stored sources have distinct urls (the primary key of `book_sources`), none of
  them is the temporary source, and what is imported has no grade yet;
- `AlternativeSources`: there are finitely many workers and at least one (`parallel.h:51`);
- `SourceGrade`: times are natural numbers;
- `HtmlTree`, `CssEngine`, `NodeSteps`: the parent of an element comes before it, as a parser numbers
  them; a selector has one combinator between each two compounds, a rule at least one step, of the
  kinds the engines know;
- `JsonPath`: what is inside a value is a value, indexes and bounds are integers, and the step of a
  slice is positive (with another one the code does not end, see above);
- `RuleText`: separators are no brackets (`rule_analyzer.h` is called with `&&`, `||` and `%%`), and what is
  written in an index list are at least one index and figures of one digit, -3 to 3;
- `RuleEngine`: the caches hold at least one entry, selectors give texts, what a rule applies
  to its result is a shorter rule (`Length`; rules are finite texts), and a rule of one kind contains
  what the splitting of `engine_utils.cpp` leaves in it;
- `BookReading`: a source may return no chapters, and no chapter is the missing text; `RssFeeds`: there
  are finitely many feeds, and the clients are not the raters; `PageWalk`: a site assigns a page to
  every url, and there is one; `ViewModels`: a click brings what its handler takes (books, one book,
  the number of a chapter, a keyword).

TLC evaluates each of these on the instances of the runs.

In `SourceProofs` the theorems are first about `ListServiceSpec` (requests on the list, a
validation and a stream, whose steps interleave), `SeekSpec` and `GradeSpec` on their own.
`SourcesServe` repeats them for `ServiceSpec`, the specification of the run, and so are the
theorems of `SelectorProofs`, `RuleProofs` and `RuleTextProofs`; those of `ReaderServiceProofs` are about
`ReaderSpec`.

The inductive invariants:

- `ParallelForEach`: an index below `next` has been entered or is in the hands of
  exactly one worker between claim and body; a worker that has exited saw
  either the end of the indexes or the cancellation. From that follow the counts,
  and that `Return` maps to the abstract `Return`.
- `StreamBridge`: what the flags say about where the worker is, where the
  coroutine can be given them, and that `written`, `chunks` and `outbox` in this
  order are the chunks pushed so far. The lost wake-up is excluded because
  whatever the worker does after `arm()` sets the signal that `arm()` has made.
- `RefreshWorker`: the queue holds a job for each key, and the flag of a book is set
  only while the worker has its job.
- `CatalogStore`: `CatalogInv` adds to the properties that the transaction's owner is in the
  middle of one (`OwnerWorks`), that nobody else is unless the history is mixed
  (`Isolation`), and that the owner has so far disturbed only its own book and has
  inserted the first chapters of its catalog (`HalfWritten`). Without the last
  part `WholeCatalogs` is not inductive: a commit could publish anything. The
  proof has one lemma for steps outside a transaction, one for steps inside, one
  for steps that end it, and one per action.

- `SourceList`: four layers, each using the one before. *Types* adds to the types that
  what a thread still has to import comes from a feed. `LockInv`: the holder of
  `engineMutex` is at work under it, and nobody else is. `FetchInv`: what a request
  under the mutex works with at each of its steps (the index it set, the source it names,
  the temporary source at the end of the list), unless `touched`. `ShapeInv` speaks of the
  list that would be there without the temporary source (`Own`) and the selection
  that will be given back (`Left`): in terms of these the invariants do not move while a locked request
  runs, which is why they are stable, whereas the plain `cur` and `sources` leave their range
  for a moment. Its third part says what the half of a change looks like (`Halves`: the table is one
  source ahead of the list, and which). The lemmas `QuietShape`, `LockShape` and `EditShape` are
  frames for the three kinds of step; one lemma per operation then has to say only what it
  does to its own half-done change.
- `ListService`: `ListServiceInv` adds to the four layers what the other two rely on. `TempInv`: the
  temporary source is not searchable, so that no validation has a task for it. `RowInv`: unless
  two changes overlap, no url is twice in the list, and a source has its row unless it is about to be erased.
  `ValidationInv` says where the tasks of a validation stand (`StageInv`), that what is counted is reported
  or about to be (`CountInv`, by cardinality), that the list holds, at the index of a task, the grade
  found (`SpotInv`, as long as no source has left the list since), and so does the row of its url
  (`GradedInv`, unless two changes overlap). The steps of others keep it because of what they do
  to places and rows (`PlacesKept`, `RowsKept`), and those of a validation keep the invariant of the list
  because they change grades alone (`GradesOnly`). `StreamInv` counts the sources found by the engine as those
  waiting, being searched and answered; that the route expects no more is the lemma
  `ExpectedHits`, where a name that is asked for twice is the one exception.
- `AlternativeSources`, `SeekInv`: each task is at one worker and the callback at one (`WorkersInv`).
  A book that fits is among those its worker still has to go through, or has been noted (`SeenInv`);
  what is noted has been offered, but for the book of the one worker between the two (`OfferedInv`).
  The totals hold because the books workers still hold, as a set of pairs, are all those
  found and not yet looked at (`TotalsInv`). That the total is told after the last offer needs a
  worker: without one the call would end with nothing taken.
- `SourceGrade`: per path, the time it has used and what it has seen at each place
  (`Earning`), where the bound on time holds because a request that begins before the deadline
  ends at most a shortest timeout after it; for the pool, that a path has a runtime
  exactly while it works, different from those of all others and of the pool; for the grade, that
  it is given when all paths are gone and that these take no further step.
- `NodeSteps`, `StepInv`: an XPath at step *n* stands at exactly the elements its first *n* - 1 steps lead
  to, each once. "Lead to" is said of any family of sets that begins at the root and takes every
  step (`Leading`); that there is one is a lemma, so that the property is not empty. A JSoup rule of
  one step and what to take of it is followed place by place (`SingleInv`), the last resort included.
- `JsonPath`, `JsonInv`: some number of tokens lies behind, and the value the walk stands at is
  the only one they lead to, unless the last of them was a wildcard that ended the walk.
- `CssEngine`, `CssInv`: found so far are the elements before the present one that the selectors mean, in
  rising order; and while a chain is walked to the left (`OnTheWay`), the present element is meant if and only if
  the chain can be completed *from where the walk stands*. This is what "the first element to the left
  decides" buys (`Decided`), and what fails in `css_chains`.
- `RuleEngine`, `RuleInv`: caches hold what rules say (`CacheInv`), whoever filled them; and on a
  thread's stack each waiting call owes a value that, given by the call above it, makes
  the call at the bottom give what its rule says (`StackOK`, with the owed values as a witness). Chained rules
  (`Chained`) owe nothing: they are those the property leaves out. A runtime keeps one variable,
  which may change under a call only if no plain rule is waiting below (`CallsStill`).
- `RuleText`, `SplitInv`: the splitter has passed only whole brackets (`Reaches`), so that what is outside
  brackets from its position on is what is outside in the rule; the pieces are those up to the last
  separator that counts (`CutAt`), and no other separator that counts was passed. It throws
  only on a rule with an unclosed bracket. `IndexInv`: the reader, which goes from right to left, stands in a
  figure of an item of the list as it was laid out (`Laid`, `ReadingAt`), the figures behind it are
  those put aside, and the items found are the last ones, backwards.
- `ReaderService`: `ReaderInv` is the conjunction of the four invariants below. One part takes
  a step and the others wait, so that each needs a lemma for its beginning, one for its
  steps, one for standing still (`...Begins`, `...Keeps`, `...Waits`) and one that draws the
  properties from it (`...IsTrue`, `...IsHonest`).
- `BookReading`, `ReadingInv`: what the tables, the requests and the download hold is from a
  catalog the source has returned, position by position (`DerivedInv`): from this, and only
  while all these catalogs agree on the order, a text is that of its chapter (`TextInv`). What a request
  may hold at each of its places (`JobsInv`), where a download's counters stand (`DownloadInv`):
  what was cached or has failed and what is waiting make up all chapters (`CountersInv`), and
  each number at or below the count of finished ones has been reported at most once (`ReportsInv`),
  by cardinality. `PlacedInv` ties the count of cached chapters to rows that are there. `SteadyInv` says
  what holds as long as the source keeps to one catalog and nobody deletes contents: then
  `full` in memory or in a request's hands means that all contents of a catalog are there. The last
  condition (`dropped`, set when a deletion begins) and the whole of `Steady` came out of proof
  attempts that failed and of the counterexamples TLC then found.
- `RssFeeds`, `FeedInv`: one article per feed and link, ids below the next one, and an id a client
  was given keeps its link while its row is there (`GivenFit`); what a thread holds at each of its
  places (`Fits`: what a channel found is in its order and, unless cut short, all of it). `RacedInv` covers the
  articles and fetches of a feed whose row is gone and the removals under way, `ErasedInv` the
  feeds that a rating brings back.
- `PageWalk`, `WalkInv`: results are numbered through (`NumberedInv`), pages loaded have been visited
  and a page is loaded twice only as the table of contents (`VisitedInv`), what is listed is what
  the loaded pages say, in order (`ListedInv`), and the texts are those of the pages loaded up to
  the first that is down (`ReadInv`). `SessionInv` gives a debug session's events at each
  stage, one of them between the content and the end: a session that failed there was late, since
  nothing else that `check` throws can come after the content.
- `ViewModels`, `ViewInv`: the queue of the ui thread is described by the tasks in it: how often one
  of a kind is there (`Once`, `Number`), which come before which (`Ordered`), and that the
  "ended" of a command comes after all it posted. The rest says for each screen what a task
  in the queue will do to it: the hits shown and those on their way are those of one
  search (`SearchInv`), rows on their way are those of the table (`ShelfScreenInv`), a
  content on its way is that of the index it was asked for (`TitleInv`), progress shown, on
  its way and still to come does not exceed what was announced (`GradingInv`). Queues are
  compared only by what a step did to them (`Added`, `Taken`, `Turned`), and a screen's part is kept by
  any step that keeps the tasks and commands of that screen (`Keeps`, `Frame`): this is
  what keeps forty actions times five parts from being two hundred proofs.

Data is reasoned about without induction by operators, which the provers cannot
instantiate: where an argument goes through a walk, a list or a rule step by step, the least
counterexample is taken instead, as an element of a set of numbers, by well-foundedness of
`<` (`NatLessThanWellFounded`). No module uses recursive operators. What a rule says (`Says`), which
rules are left out (`Chained`), what is outside brackets (`Outside`) and what is above an element
(`Ancestors`) are recursive functions. That each is the function its definition describes is proved
before it is used, by well-founded recursion on the length of a rule, the place in it, or the number of an
element.

Only model-checked:

- liveness (`EventuallyReturns`, `RequestEnds`, `QueuedJobIsFetched`, `DestructorEnds`,
  `ServiceEnds`, `DownloadIsOver`), which depends on fairness;
- that the properties of the violation runs fail.

## Not modelled

- I/O: the HTTP client and the analysis of urls (a fetch returns any of the given answers or
  fails), SQLite's own errors apart from constraints and the shared transaction, the
  request headers of feeds, static files, the accept loop and `main`, except its first removal
  of bad sources.
- QuickJS and its bindings: a script returns or fails; the pool and the error a runtime
  keeps are modelled. Regular expressions and the parsing of selectors into compounds and steps
  are data.
- The serial `validateSources` (not used by the front ends), `explore`, the listing and
  the JSON conversion of sources, bookmarks, the history of urls, the order of the shelf.
- `checkAllUpdates`, which calls `checkBookUpdate` (an operation of `CatalogStore`) for one book after
  the other.
- The rate limiter: no code calls it. The browser front end: another language and runtime.
- Threads that cannot be created, and memory that runs out.
- The compositions of `BookReading` with `CatalogStore` (statements that fall into another
  thread's transaction) and with `RefreshWorker`: the product is beyond TLC, and what
  each relies on of the other is atomicity of single statements.

Components that are modelled in part say in `PROJECT.json` what is left out.

## Plan

What would add most, in this order:

1. The route's change of source followed by its refresh of the old url
   (`routes_bookshelf.cpp:141`), as a composition of `RefreshWorker` with the bookshelf: the one
   listed hazard without a property.
2. `checkAllUpdates` next to a removal, and the front end's preloading of chapters.

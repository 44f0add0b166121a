----------------------------- MODULE BookReading -----------------------------
(***************************************************************************)
(* One book on the bookshelf: its cached catalog, its cached contents, its *)
(* reading progress and its state in memory, while a download of the whole *)
(* book (src/engine/engine_download.cpp) runs next to requests that read,  *)
(* refresh, clear or remove it.                                            *)
(*                                                                         *)
(* Contents are stored by the position of their chapter and read back by   *)
(* that position alone, although the catalog that gives chapters their     *)
(* positions is replaced whenever the source publishes another one.        *)
(*                                                                         *)
(* A step is one SQL statement or transaction, one HTTP request or one     *)
(* update of the state in memory under its mutex; how statements fall into *)
(* the transactions of others is the subject of CatalogStore, the refresh  *)
(* worker that of RefreshWorker.  getCachedCatalog, which may rebuild the  *)
(* catalog, is one step.  A text is represented by the chapter it is of.   *)
(***************************************************************************)
EXTENDS Integers, Sequences, FiniteSets, SequencesExt

CONSTANTS Readers,     \* request threads
          Chapters,    \* urls of chapters
          Catalogs,    \* what the source may publish: sequences of entries
          RebuildAt,   \* contents beyond which a catalog may be rebuilt: 10 in the code
          Few,         \* the guard's threshold: 10 in the code
          Workers,     \* threads of a download
          Sessions     \* bound: how many requests of each kind are made, and the catalog
                       \* that earlier sessions have left

Requests == {"open", "refresh", "read", "save", "clear", "remove", "add", "change",
             "export", "download", "die"}

Entries == [url : Chapters, titled : BOOLEAN]
NoText == "no text"

ASSUME ReadingConstants ==
    /\ Catalogs \subseteq Seq(Entries) /\ <<>> \in Catalogs
    /\ NoText \notin Chapters
    /\ RebuildAt \in Nat /\ Few \in Nat /\ Workers \in Nat \ {0}
    /\ Sessions \subseteq [plan : [Requests -> Nat], stored : Seq(Entries)]

VARIABLES
    shelf,    \* the book's row in bookshelf
    rows,     \* its rows in book_chapters: position -> entry
    content,  \* its rows in chapter_content: position -> the entry the text is of
    progress, \* its row in read_progress: a position, -1 without a row
    mem,      \* its entry in bookStates
    alive,    \* aliveFlag
    dpc, dl,  \* the download: where it is, its local variables
    tasks,    \* the tasks of its workers
    reports,  \* history: what its callback was told: number -> its counters
    told,     \* history: how often
    rpc, job, \* the requests: where each is, its local variables
    plan,     \* requests still to come
    seen,     \* history: the catalogs the source has returned, the stored one included
    dropped   \* history: deleting the contents or the book was begun, or the source changed

tablesOf == <<shelf, rows, content, progress>>
download == <<dpc, dl, tasks, reports, told>>
requests == <<rpc, job>>
readingVars == <<tablesOf, mem, alive, download, requests, plan, seen, dropped>>

NoEntries == [i \in {} |-> [url |-> NoText, titled |-> FALSE]]
AsRows(c) == [i \in 0 .. Len(c) - 1 |-> c[i + 1]]
Size(f) == Cardinality(DOMAIN f)

\* One chapter whose title is blank: what a failed parse looks like.
Garbage(f) == Size(f) = 1 /\ \A i \in DOMAIN f : ~f[i].titled

\* isCatalogValid
Legible(f) == \E i \in DOMAIN f : f[i].titled

MayReplace(old, f) == old <= Few \/ (~Garbage(f) /\ Size(f) >= old \div 2)

NoState == [on |-> FALSE, catalog |-> 0, stored |-> 0, total |-> 0, full |-> FALSE,
            update |-> FALSE, at |-> -1]

NoReports == [n \in {} |-> [cached |-> 0, failed |-> 0]]

NoDownload == [list |-> <<>>, next |-> 1, todo |-> <<>>, cached |-> 0, failed |-> 0, done |-> 0]

NoJob == [known |-> NoEntries, want |-> NoText, at |-> 0, text |-> NoText, state |-> NoState]

\* A download's chapters in the order of their positions.
Before(f, i) == {j \in DOMAIN f : j < i}
Nth(f, k) == CHOOSE i \in DOMAIN f : Cardinality(Before(f, i)) = k - 1
InOrder(f) == [k \in 1 .. Size(f) |-> [index |-> Nth(f, k), entry |-> f[Nth(f, k)]]]

Total == Len(dl.list)
Fully(total, stored) == total > 0 /\ stored >= total

ReadingTypeOK ==
    /\ shelf \in [on : BOOLEAN, total : Nat, update : BOOLEAN]
    /\ \A f \in {rows, content} :
        /\ \A i \in DOMAIN f : i \in Nat /\ f[i] \in Entries
        /\ f # NoEntries => shelf.on
    /\ progress \in Nat \union {-1} /\ (progress >= 0 => shelf.on)
    /\ mem \in [on : BOOLEAN, catalog : Nat, stored : Nat, total : Nat, full : BOOLEAN,
                update : BOOLEAN, at : Int]
    /\ dpc \in {"idle", "catalog", "purge", "fetch", "store", "partition", "begin", "work",
                "shelf", "state"}
    /\ dl.cached + dl.failed <= Total /\ dl.done <= Total
    /\ \A k \in DOMAIN tasks :
        tasks[k].at \in {"waiting", "asking", "store", "count", "report", "gone"}
    /\ rpc \in [Readers -> {"idle", "look", "count", "row", "session", "ask", "measure",
                            "replace", "publish", "again", "text", "download", "keep",
                            "answer", "insert", "note", "contents", "forget", "unlist", "erase",
                            "line"}]
    /\ plan \in [Requests -> Nat]

ReadingStart(session) ==
    /\ shelf = [on |-> TRUE, total |-> 0, update |-> FALSE]
    /\ content = NoEntries /\ progress = -1
    /\ mem = NoState /\ alive = TRUE
    /\ dpc = "idle" /\ dl = NoDownload /\ tasks = <<>> /\ reports = NoReports /\ told = 0
    /\ rpc = [r \in Readers |-> "idle"] /\ job = [r \in Readers |-> NoJob]
    /\ plan = session.plan /\ rows = AsRows(session.stored)
    /\ seen = {rows} \ {NoEntries} /\ dropped = FALSE

ReadingInit == \E session \in Sessions : ReadingStart(session)

-----------------------------------------------------------------------------
(* The statements on the tables. *)

\* getCachedCatalog: a catalog with fewer than half as many rows as there are contents is
\* rebuilt from the contents, its titles made up.
Catalog ==
    IF Size(content) > RebuildAt /\ (rows = NoEntries \/ 2 * Size(rows) < Size(content))
    THEN [i \in DOMAIN content |-> [content[i] EXCEPT !.titled = TRUE]]
    ELSE rows

\* cacheBookCatalog: without the book the foreign key rejects the rows.
CacheCatalog(f) == rows' = IF shelf.on THEN f ELSE rows

\* cacheChapterContent
CacheContent(i, entry) ==
    content' = [j \in DOMAIN content \union {i} |-> IF j = i THEN entry ELSE content[j]]

\* updateBookshelfLastChapter: no row, no update.
NoteOnShelf(total, update) ==
    shelf' = IF shelf.on THEN [shelf EXCEPT !.total = total, !.update = update] ELSE shelf

\* The callback with the counters as they are now.
Tell(n) ==
    /\ reports' = [m \in DOMAIN reports \union {n} |->
                     IF m = n THEN [cached |-> dl.cached, failed |-> dl.failed] ELSE reports[m]]
    /\ told' = told + 1

Plan(k) == plan[k] > 0 /\ plan' = [plan EXCEPT ![k] = @ - 1]

-----------------------------------------------------------------------------
(* Faulty variants of operations defined below; no specification uses them. *)

\* A download stores contents by the number of the task.
StoreByTask(k) ==
    /\ tasks[k].at = "store"
    /\ IF alive /\ shelf.on THEN CacheContent(k - 1, dl.todo[k].entry) ELSE UNCHANGED content
    /\ dl' = IF alive /\ ~shelf.on THEN [dl EXCEPT !.failed = @ + 1]
                                   ELSE [dl EXCEPT !.cached = @ + 1]
    /\ tasks' = [tasks EXCEPT ![k].at = "count"]
    /\ UNCHANGED <<shelf, rows, progress, mem, alive, dpc, reports, told, requests, plan, seen,
                   dropped>>

\* The first failed attempt counts as a failure already.
AskCountsTwice(k) ==
    /\ tasks[k].at = "asking"
    /\ \/ tasks' = [tasks EXCEPT ![k].at = "store"] /\ UNCHANGED dl
       \/ /\ tasks[k].attempt = 1
          /\ tasks' = [tasks EXCEPT ![k].attempt = 2]
          /\ dl' = [dl EXCEPT !.failed = @ + 1]
       \/ /\ tasks' = [tasks EXCEPT ![k].at = "count"]
          /\ dl' = [dl EXCEPT !.failed = @ + 1]
    /\ UNCHANGED <<tablesOf, mem, alive, dpc, reports, told, requests, plan, seen, dropped>>

\* The chapters that failed count as well.
FullyTried == dl.cached + dl.failed >= Total

\* A retry starts again from the first attempt.
AskForever(k) ==
    /\ tasks[k].at = "asking"
    /\ \/ tasks' = [tasks EXCEPT ![k].at = "store"]
       \/ tasks' = [tasks EXCEPT ![k].attempt = 3 - @]
    /\ UNCHANGED <<tablesOf, mem, alive, dpc, dl, reports, told, requests, plan, seen, dropped>>

\* downloadBook: fullyCached at the end.
FullyDownloaded == Fully(Total, dl.cached)

-----------------------------------------------------------------------------
(* downloadBook.  The source was copied under engineMutex before. *)

Download ==
    /\ dpc = "idle" /\ alive /\ Plan("download")
    /\ dpc' = "catalog"
    /\ dl' = NoDownload /\ tasks' = <<>> /\ reports' = NoReports /\ told' = 0
    /\ UNCHANGED <<tablesOf, mem, alive, requests, seen, dropped>>

DownloadCatalog ==
    /\ dpc = "catalog"
    /\ rows' = Catalog
    /\ dl' = [dl EXCEPT !.list = IF Garbage(Catalog) THEN <<>> ELSE InOrder(Catalog)]
    /\ dpc' = IF Garbage(Catalog) THEN "purge"
              ELSE IF Catalog = NoEntries THEN "fetch" ELSE "partition"
    /\ UNCHANGED <<shelf, content, progress, mem, alive, tasks, reports, told, requests, plan, seen,
                   dropped>>

DownloadPurge ==
    /\ dpc = "purge"
    /\ rows' = NoEntries
    /\ dpc' = "fetch"
    /\ UNCHANGED <<shelf, content, progress, mem, alive, dl, tasks, reports, told, requests, plan,
                   seen, dropped>>

\* getCatalogForSource; an exception ends the download.  A catalog that looks like garbage
\* is downloaded, but not cached.
DownloadFetch ==
    /\ dpc = "fetch"
    /\ \E c \in Catalogs :
        /\ seen' = seen \union {AsRows(c)}
        /\ dl' = [dl EXCEPT !.list = InOrder(AsRows(c))]
        /\ dpc' = IF c = <<>> THEN "idle" ELSE IF Garbage(AsRows(c)) THEN "partition" ELSE "store"
    /\ UNCHANGED <<tablesOf, mem, alive, tasks, reports, told, requests, plan, dropped>>

\* Without the book on the shelf this throws, and the download is over.
DownloadStore ==
    /\ dpc = "store"
    /\ CacheCatalog([i \in 0 .. Total - 1 |-> dl.list[i + 1].entry])
    /\ dpc' = IF shelf.on THEN "partition" ELSE "idle"
    /\ dl' = IF shelf.on THEN dl ELSE NoDownload
    /\ UNCHANGED <<shelf, content, progress, mem, alive, tasks, reports, told, requests, plan, seen,
                   dropped>>

\* One chapter after another is cached already or to be downloaded.
Partition ==
    /\ dpc = "partition"
    /\ IF dl.next <= Total
       THEN /\ dl' = IF dl.list[dl.next].index \in DOMAIN content
                     THEN [dl EXCEPT !.next = @ + 1, !.cached = @ + 1, !.done = @ + 1]
                     ELSE [dl EXCEPT !.next = @ + 1, !.todo = Append(@, dl.list[dl.next])]
            /\ UNCHANGED dpc
       ELSE dpc' = "begin" /\ UNCHANGED dl
    /\ UNCHANGED <<tablesOf, mem, alive, tasks, reports, told, requests, plan, seen, dropped>>

\* The callback hears of the chapters that were there.
Begin ==
    /\ dpc = "begin"
    /\ IF dl.cached > 0 THEN Tell(dl.done) ELSE UNCHANGED <<reports, told>>
    /\ tasks' = [k \in DOMAIN dl.todo |-> [at |-> "waiting", attempt |-> 1, number |-> 0]]
    /\ dpc' = IF dl.todo = <<>> THEN "shelf" ELSE "work"
    /\ UNCHANGED <<tablesOf, mem, alive, dl, requests, plan, seen, dropped>>

Busy == {k \in DOMAIN tasks : tasks[k].at \notin {"waiting", "gone"}}

\* parallelForEach hands out the tasks in order, and no more once the engine is dying.
Claim(k) ==
    /\ dpc = "work" /\ tasks[k].at = "waiting"
    /\ \A j \in DOMAIN tasks : tasks[j].at = "waiting" => k <= j
    /\ alive => Cardinality(Busy) < Workers
    /\ tasks' = [tasks EXCEPT ![k].at = IF alive THEN "asking" ELSE "gone"]
    /\ UNCHANGED <<tablesOf, mem, alive, dpc, dl, reports, told, requests, plan, seen, dropped>>

\* The request: a text; no answer, 429 or 503, which is tried once more; an empty page, a
\* page the rule finds nothing in, or an exception.
AskChapter(k) ==
    /\ tasks[k].at = "asking"
    /\ \/ tasks' = [tasks EXCEPT ![k].at = "store"] /\ UNCHANGED dl
       \/ tasks[k].attempt = 1 /\ tasks' = [tasks EXCEPT ![k].attempt = 2] /\ UNCHANGED dl
       \/ /\ tasks' = [tasks EXCEPT ![k].at = "count"]
          /\ dl' = [dl EXCEPT !.failed = @ + 1]
    /\ UNCHANGED <<tablesOf, mem, alive, dpc, reports, told, requests, plan, seen, dropped>>

\* cacheChapterContent throws if the book is gone.  A dying engine counts the chapter
\* without storing it.
Store(k) ==
    /\ tasks[k].at = "store"
    /\ IF alive /\ shelf.on THEN CacheContent(dl.todo[k].index, dl.todo[k].entry)
                            ELSE UNCHANGED content
    /\ dl' = IF alive /\ ~shelf.on THEN [dl EXCEPT !.failed = @ + 1]
                                   ELSE [dl EXCEPT !.cached = @ + 1]
    /\ tasks' = [tasks EXCEPT ![k].at = "count"]
    /\ UNCHANGED <<shelf, rows, progress, mem, alive, dpc, reports, told, requests, plan, seen,
                   dropped>>

\* The number is taken before the callback's mutex: reports may come out of order.
Count(k) ==
    /\ tasks[k].at = "count"
    /\ dl' = [dl EXCEPT !.done = @ + 1]
    /\ tasks' = [tasks EXCEPT ![k].at = "report", ![k].number = dl.done + 1]
    /\ UNCHANGED <<tablesOf, mem, alive, dpc, reports, told, requests, plan, seen, dropped>>

Report(k) ==
    /\ tasks[k].at = "report"
    /\ IF alive THEN Tell(tasks[k].number) ELSE UNCHANGED <<reports, told>>
    /\ tasks' = [tasks EXCEPT ![k].at = "gone"]
    /\ UNCHANGED <<tablesOf, mem, alive, dpc, dl, requests, plan, seen, dropped>>

AllDone ==
    /\ dpc = "work" /\ \A k \in DOMAIN tasks : tasks[k].at = "gone"
    /\ dpc' = "shelf"
    /\ UNCHANGED <<tablesOf, mem, alive, dl, tasks, reports, told, requests, plan, seen, dropped>>

\* The update flag is cleared however many chapters failed.
DownloadNotes ==
    /\ dpc = "shelf"
    /\ NoteOnShelf(Total, FALSE)
    /\ dpc' = "state"
    /\ UNCHANGED <<rows, content, progress, mem, alive, dl, tasks, reports, told, requests, plan,
                   seen, dropped>>

DownloadEnds ==
    /\ dpc = "state"
    /\ mem' = [mem EXCEPT !.on = TRUE, !.catalog = Total, !.stored = dl.cached, !.total = Total,
                          !.update = FALSE, !.full = FullyDownloaded]
    /\ dpc' = "idle"
    /\ dl' = NoDownload /\ tasks' = <<>> /\ reports' = NoReports /\ told' = 0
    /\ UNCHANGED <<tablesOf, alive, requests, plan, seen, dropped>>

\* ~Impl clears aliveFlag.
Die ==
    /\ alive /\ Plan("die")
    /\ alive' = FALSE
    /\ UNCHANGED <<tablesOf, mem, download, requests, seen, dropped>>

DownloadStep ==
    \/ DownloadCatalog \/ DownloadPurge \/ DownloadFetch \/ DownloadStore \/ Partition \/ Begin
    \/ \E k \in DOMAIN tasks : Claim(k) \/ AskChapter(k) \/ Store(k) \/ Count(k) \/ Report(k)
    \/ AllDone \/ DownloadNotes \/ DownloadEnds

-----------------------------------------------------------------------------
(* The requests.  job[r].known is the catalog the client of r has been given. *)

Goes(r, label) == rpc' = [rpc EXCEPT ![r] = label]

Starts(r, k, label) == rpc[r] = "idle" /\ Plan(k) /\ Goes(r, label)

\* /api/catalog/cached: getCachedCatalog, then openBookSession, whose
\* populateBookReadingStateFromDb counts the rows in one statement after another.
Open(r) ==
    /\ Starts(r, "open", "look")
    /\ UNCHANGED <<tablesOf, mem, alive, download, job, seen, dropped>>

Look(r) ==
    /\ rpc[r] = "look"
    /\ rows' = Catalog
    /\ job' = [job EXCEPT ![r].known = Catalog]
    /\ Goes(r, "count")
    /\ UNCHANGED <<shelf, content, progress, mem, alive, download, plan, seen, dropped>>

CountRows(r) ==
    /\ rpc[r] = "count"
    /\ job' = [job EXCEPT ![r].state = [NoState EXCEPT !.catalog = Size(rows)]]
    /\ Goes(r, "contents")
    /\ UNCHANGED <<tablesOf, mem, alive, download, plan, seen, dropped>>

CountContents(r) ==
    /\ rpc[r] = "contents"
    /\ job' = [job EXCEPT ![r].state.stored = Size(content), ![r].state.at = progress]
    /\ Goes(r, "row")
    /\ UNCHANGED <<tablesOf, mem, alive, download, plan, seen, dropped>>

ReadRow(r) ==
    /\ rpc[r] = "row"
    /\ LET state == job[r].state
           total == IF shelf.on /\ shelf.total > 0 THEN shelf.total ELSE state.catalog
       IN  job' = [job EXCEPT ![r].state = [state EXCEPT !.on = TRUE, !.total = total,
                                             !.update = shelf.on /\ shelf.update,
                                             !.full = Fully(total, state.stored)]]
    /\ Goes(r, "session")
    /\ UNCHANGED <<tablesOf, mem, alive, download, plan, seen, dropped>>

OpenSession(r) ==
    /\ rpc[r] = "session"
    /\ mem' = job[r].state
    /\ job' = [job EXCEPT ![r].state = NoState]
    /\ Goes(r, "idle")
    /\ UNCHANGED <<tablesOf, alive, download, plan, seen, dropped>>

\* refreshCatalog, also posted after the book was added or its source changed.
Refresh(r) ==
    /\ Starts(r, "refresh", "ask")
    /\ UNCHANGED <<tablesOf, mem, alive, download, job, seen, dropped>>

FetchCatalog(r) ==
    /\ rpc[r] = "ask"
    /\ \E c \in Catalogs :
        /\ seen' = seen \union {AsRows(c)}
        /\ job' = [job EXCEPT ![r].known = AsRows(c)]
        /\ Goes(r, IF Legible(AsRows(c)) THEN "measure" ELSE "idle")
    /\ UNCHANGED <<tablesOf, mem, alive, download, plan, dropped>>

Measure(r) ==
    /\ rpc[r] = "measure"
    /\ Goes(r, IF MayReplace(Size(rows), job[r].known) THEN "replace" ELSE "again")
    /\ UNCHANGED <<tablesOf, mem, alive, download, job, plan, seen, dropped>>

Replace(r) ==
    /\ rpc[r] = "replace"
    /\ CacheCatalog(job[r].known)
    /\ Goes(r, "publish")
    /\ UNCHANGED <<shelf, content, progress, mem, alive, download, job, plan, seen, dropped>>

Publish(r) ==
    /\ rpc[r] = "publish"
    /\ NoteOnShelf(Size(job[r].known), FALSE)
    /\ Goes(r, "idle")
    /\ UNCHANGED <<rows, content, progress, mem, alive, download, job, plan, seen, dropped>>

\* A refused catalog: the client gets the old one, if that is legible.
LookAgain(r) ==
    /\ rpc[r] = "again"
    /\ rows' = Catalog
    /\ job' = [job EXCEPT ![r].known = IF Legible(Catalog) THEN Catalog ELSE @]
    /\ Goes(r, "idle")
    /\ UNCHANGED <<shelf, content, progress, mem, alive, download, plan, seen, dropped>>

\* getContentWithCache: whatever is stored at the position, or else what the url gives.
Read(r) ==
    /\ Starts(r, "read", "text")
    /\ \E i \in DOMAIN job[r].known :
        job' = [job EXCEPT ![r].at = i, ![r].want = job[r].known[i].url]
    /\ UNCHANGED <<tablesOf, mem, alive, download, seen, dropped>>

ReadStored(r) ==
    /\ rpc[r] = "text"
    /\ IF job[r].at \in DOMAIN content
       THEN /\ job' = [job EXCEPT ![r].text = content[job[r].at].url]
            /\ Goes(r, "answer")
       ELSE UNCHANGED job /\ Goes(r, "download")
    /\ UNCHANGED <<tablesOf, mem, alive, download, plan, seen, dropped>>

ReadFetched(r) ==
    /\ rpc[r] = "download"
    /\ \/ job' = [job EXCEPT ![r].text = job[r].want] /\ Goes(r, "keep")
       \/ job' = [job EXCEPT ![r].text = NoText] /\ Goes(r, "answer")
    /\ UNCHANGED <<tablesOf, mem, alive, download, plan, seen, dropped>>

\* The text is stored at the client's position; that the book is gone is ignored.
Keep(r) ==
    /\ rpc[r] = "keep"
    /\ IF shelf.on THEN CacheContent(job[r].at, job[r].known[job[r].at]) ELSE UNCHANGED content
    /\ Goes(r, "answer")
    /\ UNCHANGED <<shelf, rows, progress, mem, alive, download, job, plan, seen, dropped>>

Answer(r) ==
    /\ rpc[r] = "answer"
    /\ job' = [job EXCEPT ![r].want = NoText, ![r].text = NoText, ![r].at = 0]
    /\ Goes(r, "idle")
    /\ UNCHANGED <<tablesOf, mem, alive, download, plan, seen, dropped>>

\* exportBookToTxt: the catalog, then the contents by their positions; a chapter without
\* content is exported as a placeholder.
Export(r) ==
    /\ Starts(r, "export", "line")
    /\ shelf.on
    /\ rows' = Catalog
    /\ job' = [job EXCEPT ![r].known = Catalog, ![r].at = 0]
    /\ UNCHANGED <<shelf, content, progress, mem, alive, download, seen, dropped>>

ExportChapter(r) ==
    /\ rpc[r] = "line"
    /\ LET left == {i \in DOMAIN job[r].known : i >= job[r].at}
       IN  \/ /\ left = {}
              /\ job' = [job EXCEPT ![r].want = NoText, ![r].text = NoText]
              /\ Goes(r, "idle")
           \/ \E i \in left :
              /\ \A n \in left : i <= n
              /\ job' = [job EXCEPT ![r].at = i + 1, ![r].want = job[r].known[i].url,
                                    ![r].text = IF i \in DOMAIN content THEN content[i].url
                                                ELSE NoText]
              /\ UNCHANGED rpc
    /\ UNCHANGED <<tablesOf, mem, alive, download, plan, seen, dropped>>

\* saveReadProgress: is the book there, the row, the state in memory.  The state is written,
\* and made, also for a book that is gone; if it goes in between, the foreign key throws.
Save(r) ==
    /\ Starts(r, "save", IF shelf.on THEN "insert" ELSE "note")
    /\ \E i \in DOMAIN job[r].known : job' = [job EXCEPT ![r].at = i]
    /\ UNCHANGED <<tablesOf, mem, alive, download, seen, dropped>>

SaveRow(r) ==
    /\ rpc[r] = "insert"
    /\ progress' = IF shelf.on THEN job[r].at ELSE progress
    /\ Goes(r, IF shelf.on THEN "note" ELSE "idle")
    /\ UNCHANGED <<shelf, rows, content, mem, alive, download, job, plan, seen, dropped>>

SaveState(r) ==
    /\ rpc[r] = "note"
    /\ mem' = [mem EXCEPT !.on = TRUE, !.at = job[r].at]
    /\ Goes(r, "idle")
    /\ UNCHANGED <<tablesOf, alive, download, job, plan, seen, dropped>>

\* clearBookCache: the catalog, the contents, the state.
Clear(r) ==
    /\ Starts(r, "clear", "unlist")
    /\ rows' = NoEntries
    /\ dropped' = TRUE
    /\ UNCHANGED <<shelf, content, progress, mem, alive, download, job, seen>>

ClearContents(r) ==
    /\ rpc[r] = "unlist"
    /\ content' = NoEntries
    /\ Goes(r, "forget")
    /\ UNCHANGED <<shelf, rows, progress, mem, alive, download, job, plan, seen, dropped>>

ClearState(r) ==
    /\ rpc[r] = "forget"
    /\ mem' = IF mem.on THEN [mem EXCEPT !.catalog = 0, !.stored = 0, !.full = FALSE,
                                         !.update = FALSE] ELSE mem
    /\ Goes(r, "idle")
    /\ UNCHANGED <<tablesOf, alive, download, job, plan, seen, dropped>>

\* removeFromBookshelf: the other tables' rows go with the book, the state stays.
RemoveBook(r) ==
    /\ rpc[r] = "idle" /\ Plan("remove")
    /\ shelf' = [on |-> FALSE, total |-> 0, update |-> FALSE]
    /\ rows' = NoEntries /\ content' = NoEntries /\ progress' = -1
    /\ dropped' = TRUE
    /\ UNCHANGED <<mem, alive, download, requests, seen>>

\* addToBookshelf ignores a book that is there; otherwise its catalog is fetched.
AddBook(r) ==
    /\ Starts(r, "add", IF shelf.on THEN "idle" ELSE "ask")
    /\ shelf' = [shelf EXCEPT !.on = TRUE]
    /\ UNCHANGED <<rows, content, progress, mem, alive, download, job, seen, dropped>>

\* changeBookSource to a source with the same url for the book; the transaction, then the
\* state, and the new source's catalog is fetched.
ChangeSource(r) ==
    /\ Starts(r, "change", "erase")
    /\ rows' = NoEntries /\ content' = NoEntries /\ progress' = -1
    /\ NoteOnShelf(0, FALSE)
    /\ dropped' = TRUE
    /\ UNCHANGED <<mem, alive, download, job, seen>>

EraseState(r) ==
    /\ rpc[r] = "erase"
    /\ mem' = NoState
    /\ Goes(r, "ask")
    /\ UNCHANGED <<tablesOf, alive, download, job, plan, seen, dropped>>

RequestStep(r) ==
    \/ Open(r) \/ Look(r) \/ CountRows(r) \/ CountContents(r) \/ ReadRow(r) \/ OpenSession(r)
    \/ Refresh(r) \/ FetchCatalog(r) \/ Measure(r) \/ Replace(r) \/ Publish(r) \/ LookAgain(r)
    \/ Read(r) \/ ReadStored(r) \/ ReadFetched(r) \/ Keep(r) \/ Answer(r)
    \/ Export(r) \/ ExportChapter(r)
    \/ Save(r) \/ SaveRow(r) \/ SaveState(r)
    \/ Clear(r) \/ ClearContents(r) \/ ClearState(r)
    \/ RemoveBook(r) \/ AddBook(r) \/ ChangeSource(r) \/ EraseState(r)

ReadingNext ==
    \/ Download \/ DownloadStep \/ Die
    \/ \E r \in Readers : RequestStep(r)

\* Every request a download makes is answered or times out, and its threads are scheduled.
ReadingFairness == WF_readingVars(DownloadStep)

ReadingSpec == ReadingInit /\ [][ReadingNext]_readingVars /\ ReadingFairness

-----------------------------------------------------------------------------
(* Properties. *)

\* The catalogs the source has returned agree on the position of every chapter.
SameOrder == \A c, d \in seen : \A i \in DOMAIN c \intersect DOMAIN d : c[i].url = d[i].url

\* Contents are looked up by position alone (engine_core.cpp:1029, engine_export.cpp:71):
\* as long as the catalogs of the source agree, and the source is not changed, what is
\* stored or handed out for a chapter is that chapter, in reading and in export, also
\* while the book is downloaded, removed, and its catalog rebuilt from the contents.
TextOfItsChapter ==
    SameOrder =>
        /\ \A r \in Readers : job[r].text \in {job[r].want, NoText}
        /\ \A c \in seen : \A i \in DOMAIN c \intersect DOMAIN content : content[i].url = c[i].url

\* What a download tells its callback (engine_download.cpp:307-346): no number is reported
\* twice, no report claims more chapters done than were cached or failed, every chapter is
\* in the end one or the other, and those counted as cached are stored unless somebody
\* deleted contents.
DownloadAccounts ==
    /\ told = Cardinality(DOMAIN reports)
    /\ \A n \in DOMAIN reports : n <= reports[n].cached + reports[n].failed
    /\ dpc \in {"shelf", "state"} /\ alive =>
        /\ dl.cached + dl.failed = Total
        /\ \A n \in DOMAIN reports : n <= Total
        /\ ~dropped => dl.cached <= Cardinality({e \in ToSet(dl.list) : e.index \in DOMAIN content})

\* Nobody deletes contents, and the source keeps returning one catalog that has a title, or
\* none.
Steady == ~dropped /\ alive /\ \A c, d \in seen \ {NoEntries} : c = d /\ Legible(c)

\* types.h:324: a book said to be fully cached has the content of every chapter of its
\* catalog, as long as that is one.
FullMeansStored == mem.full /\ Steady => DOMAIN rows \subseteq DOMAIN content

\* A download ends, whatever the requests next to it do (engine_download.cpp:191-229).
DownloadIsOver == dpc # "idle" ~> dpc = "idle"
=============================================================================

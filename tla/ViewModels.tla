----------------------------- MODULE ViewModels -----------------------------
(***************************************************************************)
(* The view models of src/viewmodels and the adapters that tie them to the *)
(* engine: search, bookshelf, reader and sources.                          *)
(*                                                                         *)
(* The ui thread owns what a screen shows and takes clicks and posted      *)
(* tasks one at a time, the tasks in the order they were posted.  A        *)
(* command's work runs on a worker thread of an executor with any number   *)
(* of them, and posts its results back.                                    *)
(*                                                                         *)
(* AsyncCommand and the executors belong to the Aria framework, which is   *)
(* not part of the repository.  From their use here: a command that is     *)
(* executing is not begun a second time, and that it has ended is posted   *)
(* to the ui thread like any other result.                                 *)
(*                                                                         *)
(* A behaviour is that of one screen.  What a screen shows is a record;    *)
(* names, covers and percentages are left out.                             *)
(***************************************************************************)
EXTENDS Integers, Sequences, FiniteSets, SequencesExt

CONSTANTS Books,      \* bookUrls
          Found,      \* sources a search asks
          Parallel,   \* searches at work at a time
          Grades,     \* sources the engine may have
          Visits      \* what a user does: sequences of clicks, with the screen they are on

ASSUME ViewConstants ==
    /\ Found \in Nat /\ Parallel \in Nat \ {0} /\ Grades \in Nat \ {0}
    /\ \A v \in Visits :
        /\ v.screen \in {"search", "shelf", "reader", "sources"}
        /\ Len(v.clicks) \in Nat /\ v.clicks = [k \in 1 .. Len(v.clicks) |-> v.clicks[k]]
        /\ \A k \in DOMAIN v.clicks : LET click == v.clicks[k] IN
              /\ click.is = "search" => click.of = <<click.of[1]>>
              /\ click.is \in {"add", "remove"} => click.of \in Seq(Books)
              /\ click.is = "book" => click.of[1] \in Books
              /\ click.is = "chapter" => click.of[1] \in Nat

VARIABLES
    screen,   \* the screen the user is on
    clicks,   \* what the user will still do
    ui,       \* tasks posted to the ui thread
    cmd,      \* commands: "idle" or the next step, what they were begun with, what they read
    search,   \* SearchViewModel
    shelfView, \* BookshelfViewModel and the bookshelf table
    reader,   \* ReaderViewModel and what it stores
    manager   \* SourceViewModel and the engine's list

viewVars == <<screen, clicks, ui, cmd, search, shelfView, reader, manager>>

Commands == {"search", "load", "remove", "add", "catalog", "content", "save",
             "refresh", "import", "clear"}
NoBook == "no book"
Idle == [at |-> "idle", of |-> <<>>, got |-> <<>>]

ViewTypeOK ==
    /\ screen \in {"search", "shelf", "reader", "sources", "none"}
    /\ DOMAIN cmd = Commands
    /\ search.cancel \in BOOLEAN /\ search.left \in 0 .. Found
    /\ shelfView.table \subseteq Books /\ shelfView.shown \subseteq Books
    /\ manager.left \in 0 .. Grades /\ manager.blocked \in BOOLEAN

ViewStart(visit) ==
    /\ screen = visit.screen /\ clicks = visit.clicks
    /\ ui = <<>> /\ cmd = [c \in Commands |-> Idle]
    /\ search = [cancel |-> FALSE, left |-> 0, sum |-> 0, results |-> <<>>, total |-> 0,
                 late |-> 0]
    /\ shelfView = [table |-> {}, shown |-> {}, overlap |-> FALSE]
    /\ reader = [book |-> NoBook, chapters |-> <<>>, index |-> 0, title |-> <<>>, text |-> <<>>,
                 saved |-> <<>>, asked |-> <<>>, mixed |-> FALSE]
    /\ manager = [list |-> 0, graded |-> FALSE, shown |-> [count |-> 0, graded |-> FALSE],
                  validating |-> FALSE, done |-> 0, all |-> 0, left |-> 0, blocked |-> FALSE,
                  cancelled |-> FALSE, stale |-> FALSE, overlap |-> FALSE]

ViewInit == \E v \in Visits : ViewStart(v)

-----------------------------------------------------------------------------
(* The ui thread and the commands. *)

Executing(c) == cmd[c].at # "idle"
AnyAtWork == \E c \in Commands : Executing(c)
Task(kind) == [is |-> kind, of |-> <<>>, got |-> <<>>]
PostTask(task) == ui' = Append(ui, task)

\* AsyncCommand::execute.
Execute(c, of) ==
    cmd' = IF Executing(c) THEN cmd
           ELSE [cmd EXCEPT ![c] = [at |-> "begun", of |-> of, got |-> <<>>]]

\* What a worker read or was given, and its next step.
Continues(c, at, got) == cmd' = [cmd EXCEPT ![c].at = at, ![c].got = got]

\* The ui thread is free; a click is the next one.
Free == ~manager.blocked
Click(kind) == Free /\ clicks # <<>> /\ Head(clicks).is = kind /\ clicks' = Tail(clicks)
Posted(kind) == Free /\ ui # <<>> /\ Head(ui).is = kind /\ ui' = Tail(ui)

\* A coroutine returns; the framework posts that it has ended.
Returns(c) ==
    /\ cmd[c].at = "return"
    /\ PostTask([is |-> "ended", of |-> <<c>>, got |-> <<>>])
    /\ Continues(c, "ending", cmd[c].got)
    /\ UNCHANGED <<screen, clicks, search, shelfView, reader, manager>>

Ended ==
    /\ Posted("ended")
    /\ cmd' = [cmd EXCEPT ![Head(ui).of[1]] = Idle]
    /\ search' = IF Head(ui).of = <<"search">> THEN [search EXCEPT !.total = search.sum] ELSE search
    /\ UNCHANGED <<screen, clicks, shelfView, reader, manager>>

-----------------------------------------------------------------------------
(* Faulty variants of operations defined below; no specification uses them. *)

\* A cancelled search goes on.
AnswersIgnoreCancel ==
    /\ cmd["search"].at = "asking" /\ search.left > 0
    /\ \/ search' = [search EXCEPT !.left = @ - 1] /\ UNCHANGED cmd
       \/ Continues("search", "emit", <<>>) /\ UNCHANGED search
    /\ UNCHANGED <<screen, clicks, ui, shelfView, reader, manager>>

-----------------------------------------------------------------------------
(* SearchViewModel. *)

\* start_: withdraws a cancellation also when the command is executing and ignores the click.
ClickSearch ==
    /\ Click("search")
    /\ search' = [search EXCEPT !.cancel = FALSE, !.late = 0]
    /\ Execute("search", Head(clicks).of)
    /\ UNCHANGED <<screen, ui, shelfView, reader, manager>>

ClickCancel ==
    /\ Click("cancel")
    /\ search' = [search EXCEPT !.cancel = TRUE]
    /\ UNCHANGED <<screen, ui, cmd, shelfView, reader, manager>>

SearchBegins ==
    /\ cmd["search"].at = "begun"
    /\ PostTask(Task("clear"))
    /\ search' = [search EXCEPT !.left = Found, !.sum = 0]
    /\ Continues("search", "asking", <<>>)
    /\ UNCHANGED <<screen, clicks, shelfView, reader, manager>>

\* on_source, one call at a time: a source without books or with an error is passed over; a
\* cancellation reaches the engine here, and the searches at work still call back.
SourceAnswers ==
    /\ cmd["search"].at = "asking" /\ search.left > 0
    /\ \/ /\ search.cancel
          /\ \E n \in 0 .. Found : n < search.left /\ n < Parallel
                                   /\ search' = [search EXCEPT !.left = n]
          /\ UNCHANGED cmd
       \/ /\ ~search.cancel
          /\ search' = [search EXCEPT !.left = @ - 1]
          /\ UNCHANGED cmd
       \/ ~search.cancel /\ Continues("search", "emit", <<>>) /\ UNCHANGED search
    /\ UNCHANGED <<screen, clicks, ui, shelfView, reader, manager>>

Emit ==
    /\ cmd["search"].at = "emit"
    /\ PostTask([is |-> "append", of |-> cmd["search"].of, got |-> <<>>])
    /\ search' = [search EXCEPT !.sum = @ + 1, !.left = @ - 1,
                                !.late = IF search.cancel THEN @ + 1 ELSE @]
    /\ Continues("search", "asking", <<>>)
    /\ UNCHANGED <<screen, clicks, shelfView, reader, manager>>

SearchReturns ==
    /\ cmd["search"].at = "asking" /\ search.left = 0
    /\ Continues("search", "return", <<>>)
    /\ UNCHANGED <<screen, clicks, ui, search, shelfView, reader, manager>>

ShowResults ==
    /\ \/ Posted("clear") /\ search' = [search EXCEPT !.results = <<>>]
       \/ Posted("append") /\ search' = [search EXCEPT !.results = @ \o Head(ui).of]
    /\ UNCHANGED <<screen, clicks, cmd, shelfView, reader, manager>>

-----------------------------------------------------------------------------
(* BookshelfViewModel. *)

ShelfCommands == {"load", "remove", "add"}

ClickShelf ==
    /\ \E c \in ShelfCommands : Click(c) /\ Execute(c, Head(clicks).of)
    /\ shelfView' = [shelfView EXCEPT !.overlap = @ \/ AnyAtWork]
    /\ UNCHANGED <<screen, ui, search, reader, manager>>

\* backend_.remove and backend_.add.
ShelfChanges ==
    /\ \E c \in {"remove", "add"} :
        /\ cmd[c].at = "begun"
        /\ shelfView' = [shelfView EXCEPT !.table = IF c = "add" THEN @ \union ToSet(cmd[c].of)
                                            ELSE @ \ ToSet(cmd[c].of)]
        /\ Continues(c, "changed", <<>>)
    /\ UNCHANGED <<screen, clicks, ui, search, reader, manager>>

\* backend_.load.
ShelfReads ==
    /\ \E c \in ShelfCommands :
        /\ cmd[c].at = IF c = "load" THEN "begun" ELSE "changed"
        /\ Continues(c, "read", <<shelfView.table>>)
    /\ UNCHANGED <<screen, clicks, ui, search, shelfView, reader, manager>>

ShelfPosts ==
    /\ \E c \in ShelfCommands :
        /\ cmd[c].at = "read"
        /\ PostTask([is |-> "shelf", of |-> <<>>, got |-> cmd[c].got])
        /\ Continues(c, "return", cmd[c].got)
    /\ UNCHANGED <<screen, clicks, search, shelfView, reader, manager>>

ShowShelf ==
    /\ Posted("shelf")
    /\ shelfView' = [shelfView EXCEPT !.shown = Head(ui).got[1]]
    /\ UNCHANGED <<screen, clicks, cmd, search, reader, manager>>

-----------------------------------------------------------------------------
(* ReaderViewModel. *)

\* A book has two chapters.
ChapterOf(b, n) == [book |-> b, n |-> n]
ChaptersOf(b) == << ChapterOf(b, 0), ChapterOf(b, 1) >>

\* book_url is set and load_catalog called, which does nothing while the command is executing.
ClickBook ==
    /\ Click("book")
    /\ reader' = [reader EXCEPT !.book = Head(clicks).of[1],
                                !.mixed = @ \/ Executing("catalog") \/ Executing("content")]
    /\ Execute("catalog", <<>>)
    /\ UNCHANGED <<screen, ui, search, shelfView, manager>>

ClickChapter ==
    /\ Click("chapter")
    /\ reader' = [reader EXCEPT !.mixed = @ \/ Executing("catalog") \/ Executing("save")]
    /\ Execute("content", Head(clicks).of)
    /\ UNCHANGED <<screen, ui, search, shelfView, manager>>

ClickSave ==
    /\ Click("save")
    /\ reader' = [reader EXCEPT !.mixed = @ \/ Executing("content")]
    /\ Execute("save", <<>>)
    /\ UNCHANGED <<screen, ui, search, shelfView, manager>>

\* The backend finds chapters, none, or throws, which leaves the old ones on the screen.
CatalogLoads ==
    /\ cmd["catalog"].at = "begun"
    /\ \/ /\ \E list \in {ChaptersOf(reader.book), <<>>} : Continues("catalog", "read", list)
          /\ UNCHANGED reader
       \/ /\ Continues("catalog", "return", <<>>)
          /\ reader' = [reader EXCEPT !.mixed = @ \/ reader.chapters # <<>>]
    /\ UNCHANGED <<screen, clicks, ui, search, shelfView, manager>>

CatalogPosts ==
    /\ cmd["catalog"].at = "read"
    /\ PostTask([is |-> "catalog", of |-> <<>>, got |-> cmd["catalog"].got])
    /\ Continues("catalog", "return", <<>>)
    /\ UNCHANGED <<screen, clicks, search, shelfView, reader, manager>>

\* apply_catalog_ empties the list and then adds chapter by chapter, each visible to the workers.
ApplyCatalog ==
    /\ Free /\ ui # <<>>
    /\ LET task == Head(ui) IN
       \/ /\ task.is = "catalog"
          /\ reader' = [reader EXCEPT !.chapters = <<>>]
          /\ ui' = IF task.got = <<>> THEN Tail(ui)
                   ELSE << [task EXCEPT !.is = "chapters"] >> \o Tail(ui)
       \/ /\ task.is = "chapters"
          /\ reader' = [reader EXCEPT !.chapters = Append(@, Head(task.got))]
          /\ ui' = IF Len(task.got) = 1 THEN Tail(ui)
                   ELSE << [task EXCEPT !.got = Tail(@)] >> \o Tail(ui)
    /\ UNCHANGED <<screen, clicks, cmd, search, shelfView, manager>>

\* The worker reads the size of the list, and then the chapter, which may be gone: at() throws.
ContentSizes ==
    /\ cmd["content"].at = "begun"
    /\ Continues("content", IF cmd["content"].of[1] < Len(reader.chapters) THEN "sized" ELSE "return", <<>>)
    /\ UNCHANGED <<screen, clicks, ui, search, shelfView, reader, manager>>

ContentPicks ==
    /\ cmd["content"].at = "sized"
    /\ LET i == cmd["content"].of[1] IN
         IF i < Len(reader.chapters) THEN Continues("content", "picked", <<reader.chapters[i + 1]>>)
                                     ELSE Continues("content", "return", <<>>)
    /\ UNCHANGED <<screen, clicks, ui, search, shelfView, reader, manager>>

\* book_url is read now; the text is stored under it (getContentWithCache), posted and shown.
ContentLoads ==
    /\ cmd["content"].at = "picked"
    /\ LET chapter == Head(cmd["content"].got) IN
         /\ reader' = [reader EXCEPT !.asked = << [book |-> reader.book, chapter |-> chapter] >>]
         /\ PostTask([is |-> "content", of |-> <<>>,
                   got |-> << [chapter |-> chapter, index |-> cmd["content"].of[1]] >>])
    /\ Continues("content", "return", <<>>)
    /\ UNCHANGED <<screen, clicks, search, shelfView, manager>>

ApplyContent ==
    /\ Posted("content")
    /\ LET text == Head(ui).got[1] IN
         reader' = [reader EXCEPT !.index = text.index, !.title = <<text.chapter>>,
                                  !.text = <<text.chapter>>]
    /\ UNCHANGED <<screen, clicks, cmd, search, shelfView, manager>>

\* The index and the title are read one after the other.
SaveReads ==
    /\ cmd["save"].at = "begun"
    /\ Continues("save", "read", << reader.index >>)
    /\ UNCHANGED <<screen, clicks, ui, search, shelfView, reader, manager>>

SaveStores ==
    /\ cmd["save"].at = "read"
    /\ reader' = [reader EXCEPT !.saved = << [index |-> Head(cmd["save"].got),
                                              title |-> reader.title] >>]
    /\ Continues("save", "return", <<>>)
    /\ UNCHANGED <<screen, clicks, ui, search, shelfView, manager>>

-----------------------------------------------------------------------------
(* SourceViewModel. *)

ManagerCommands == {"refresh", "import", "clear"}

ClickManager ==
    /\ \E c \in ManagerCommands : Click(c) /\ Execute(c, <<>>)
    /\ manager' = [manager EXCEPT !.overlap = @ \/ AnyAtWork]
    /\ UNCHANGED <<screen, ui, search, shelfView, reader>>

\* validate: the engine's call comes back only when the validation is over, and the ui thread
\* makes it: a click to stop comes after it.
ClickValidate ==
    /\ Click("validate")
    /\ manager' = IF manager.validating THEN manager
                  ELSE [manager EXCEPT !.validating = TRUE, !.done = 0, !.all = manager.shown.count,
                                       !.cancelled = FALSE, !.blocked = TRUE,
                                       !.left = manager.list,
                                       !.stale = AnyAtWork \/ manager.shown.count # manager.list]
    /\ UNCHANGED <<screen, ui, cmd, search, shelfView, reader>>

ClickCancelValidate ==
    /\ Click("stop")
    /\ manager' = [manager EXCEPT !.cancelled = TRUE]
    /\ UNCHANGED <<screen, ui, cmd, search, shelfView, reader>>

\* perSource, from a thread of the engine.
SourceGraded ==
    /\ manager.blocked /\ manager.left > 0 /\ ~manager.cancelled
    /\ PostTask(Task("progress"))
    /\ manager' = [manager EXCEPT !.left = @ - 1]
    /\ UNCHANGED <<screen, clicks, cmd, search, shelfView, reader>>

\* done, and the engine's call returns.
SourcesGraded ==
    /\ manager.blocked /\ (manager.left = 0 \/ manager.cancelled)
    /\ PostTask(Task("validated"))
    /\ manager' = [manager EXCEPT !.blocked = FALSE, !.graded = TRUE]
    /\ UNCHANGED <<screen, clicks, cmd, search, shelfView, reader>>

ShowProgress ==
    /\ \/ Posted("progress") /\ manager' = [manager EXCEPT !.done = @ + 1] /\ UNCHANGED cmd
       \/ /\ Posted("validated")
          /\ Execute("refresh", <<>>)
          /\ manager' = [manager EXCEPT !.validating = FALSE, !.overlap = @ \/ AnyAtWork]
    /\ UNCHANGED <<screen, clicks, search, shelfView, reader>>

\* load_sources_from_json and clear_all_sources.
ManagerChanges ==
    /\ \E c \in {"import", "clear"} :
        /\ cmd[c].at = "begun"
        /\ \E n \in (IF c = "clear" THEN {0} ELSE manager.list .. Grades) :
             manager' = [manager EXCEPT !.list = n, !.graded = @ /\ n = manager.list]
        /\ Continues(c, "changed", <<>>)
    /\ UNCHANGED <<screen, clicks, ui, search, shelfView, reader>>

ManagerReads ==
    /\ \E c \in ManagerCommands :
        /\ cmd[c].at = IF c = "refresh" THEN "begun" ELSE "changed"
        /\ Continues(c, "read", << [count |-> manager.list, graded |-> manager.graded] >>)
    /\ UNCHANGED <<screen, clicks, ui, search, shelfView, reader, manager>>

ManagerPosts ==
    /\ \E c \in ManagerCommands :
        /\ cmd[c].at = "read"
        /\ PostTask([is |-> "sources", of |-> <<>>, got |-> cmd[c].got])
        /\ Continues(c, "return", <<>>)
    /\ UNCHANGED <<screen, clicks, search, shelfView, reader, manager>>

ShowSources ==
    /\ Posted("sources")
    /\ manager' = [manager EXCEPT !.shown = Head(ui).got[1]]
    /\ UNCHANGED <<screen, clicks, cmd, search, shelfView, reader>>

-----------------------------------------------------------------------------

ViewNext ==
    \/ \E c \in Commands : Returns(c)
    \/ Ended
    \/ ClickSearch \/ ClickCancel \/ SearchBegins \/ SourceAnswers \/ Emit \/ SearchReturns
    \/ ShowResults
    \/ ClickShelf \/ ShelfChanges \/ ShelfReads \/ ShelfPosts \/ ShowShelf
    \/ ClickBook \/ ClickChapter \/ ClickSave \/ CatalogLoads \/ CatalogPosts \/ ApplyCatalog
    \/ ContentSizes \/ ContentPicks \/ ContentLoads \/ ApplyContent \/ SaveReads \/ SaveStores
    \/ ClickManager \/ ClickValidate \/ ClickCancelValidate \/ SourceGraded \/ SourcesGraded
    \/ ShowProgress \/ ManagerChanges \/ ManagerReads \/ ManagerPosts \/ ShowSources

-----------------------------------------------------------------------------
(* Properties. *)

AtRest == clicks = <<>> /\ ui = <<>> /\ ~AnyAtWork /\ ~manager.blocked

\* The results on the screen are those of one search, all of them when it has ended, and a
\* cancelled one adds at most one batch (search_view_model.cpp:23, 59).
OneSearchIsShown ==
    /\ \A i, j \in DOMAIN search.results : search.results[i] = search.results[j]
    /\ AtRest => search.total = Len(search.results)
    /\ search.late <= 1

\* When the commands are over the screen shows the shelf that is in the table, unless two of
\* them were executing at a time (bookshelf_view_model.cpp:31).
ShelfIsShown == screen = "shelf" /\ AtRest => shelfView.overlap \/ shelfView.shown = shelfView.table

\* The text is that of the title above it; a text is asked for, and stored, under the book it
\* belongs to, and a position saved with the title it has, unless the user chose a book, a
\* chapter or to save while what it depends on was still being loaded
\* (reader_view_model.cpp:45, 65).
ReaderIsConsistent ==
    /\ reader.text = reader.title
    /\ reader.mixed \/ \A k \in DOMAIN reader.asked :
                           reader.asked[k].book = reader.asked[k].chapter.book
    /\ reader.mixed \/ \A k \in DOMAIN reader.saved :
          LET s == reader.saved[k] IN s.title # <<>> => Head(s.title).n = s.index

\* A validation leaves the screen with its grades and is over on it; its progress stays within
\* what was announced unless the list was not the one shown (source_view_model.cpp:101, 116).
ValidationIsShown ==
    /\ AtRest => ~manager.validating
    /\ screen = "sources" /\ AtRest =>
         manager.overlap \/ manager.shown = [count |-> manager.list, graded |-> manager.graded]
    /\ manager.done <= manager.all \/ manager.stale

ScreensAreTrue ==
    OneSearchIsShown /\ ShelfIsShown /\ ReaderIsConsistent /\ ValidationIsShown
=============================================================================

---------------------------- MODULE CatalogStore ----------------------------
(***************************************************************************)
(* The catalog cache of src/infra/database.cpp and the operations that     *)
(* write it: refreshCatalog, getCatalogWithCache, checkBookUpdate, the     *)
(* refresh worker and changeBookSource, with the guard against degenerate  *)
(* catalogs that most of them apply.                                       *)
(*                                                                         *)
(* All threads share one SQLite connection and no lock covers it.  SQLite  *)
(* serialises statements, and a statement is a step here; a transaction    *)
(* belongs to the connection, not to the thread that began it, so that the *)
(* statements of other threads fall into it and their rollback ends it.    *)
(*                                                                         *)
(* Of a bookshelf row the model keeps the last chapter, the total and the  *)
(* update flag; of a chapter its title.  The tables of contents and of     *)
(* reading progress, and the rebuilding of a catalog from cached contents, *)
(* are left out, as are I/O errors of SQLite.                              *)
(***************************************************************************)
EXTENDS Naturals, Sequences, FiniteSets

CONSTANTS Books,       \* book urls
          WebThreads,  \* request threads and the posted background tasks
          Worker,      \* the refresh worker
          Blank,       \* the blank chapter title
          Titles,      \* the other chapter titles
          Catalogs,    \* the catalogs a source may return, <<>> for a failure
          Few,         \* the guard's threshold: 10 in the code
          MaxOps       \* bound: operations begun in one behaviour

Threads == WebThreads \union {Worker}
None == "none"

ASSUME CatalogBounds ==
    /\ Blank \notin Titles
    /\ Catalogs \subseteq Seq(Titles \union {Blank}) /\ <<>> \in Catalogs
    /\ Few \in Nat /\ MaxOps \in Nat
    /\ Worker \notin WebThreads /\ None \notin Threads

VARIABLES
    shelf,   \* table bookshelf
    rows,    \* table book_chapters: for each book, index -> title
    tx,      \* the thread that began the connection's transaction, or None
    saved,   \* the tables when it began
    pc,      \* each thread
    call,    \* each thread's operation, arguments and local variables
    ops,     \* operations begun so far
    mixed    \* history: a statement fell into another thread's transaction

tables == <<shelf, rows>>
vars == <<shelf, rows, tx, saved, pc, call, ops, mixed>>

Off == [on |-> FALSE, last |-> Blank, total |-> 0, update |-> FALSE]
New == [on |-> TRUE, last |-> Blank, total |-> 0, update |-> FALSE]
NoRows == [i \in {} |-> Blank]

Operations == {"refresh", "open", "check", "worker", "change"}

Labels == {"idle", "readCache", "removeCached", "fetch", "count", "begin", "delete",
           "insert", "move", "erase", "commit", "rollback", "update"}

\* An operation, its arguments and its local variables.
Calls == [op : Operations, book : Books, target : Books, fetched : Catalogs,
          lastSeen : Titles \union {Blank}, seen : Nat, next : Nat \ {0},
          replaced : BOOLEAN]

\* isCatalogValid, isCatalogValidForState
Valid(c) == \E i \in DOMAIN c : c[i] # Blank

Last(c) == c[Len(c)]

\* canSafelyReplaceCatalog, and the same guard written out in refreshCatalog
CanReplace(old, c) ==
    \/ old <= Few
    \/ /\ c # <<>> /\ c # <<Blank>>
       /\ Len(c) >= old \div 2

InTransaction(t) == pc[t] \in {"delete", "insert", "move", "erase", "commit", "rollback"}

\* What a restarted process finds.
Stored == IF tx = None THEN [shelf |-> shelf, rows |-> rows] ELSE saved

\* The types of the tables and the foreign key of book_chapters.
TablesOK(s, r) ==
    /\ s \in [Books -> [on : BOOLEAN, last : Titles \union {Blank}, total : Nat,
                             update : BOOLEAN]]
    /\ r = [b \in Books |-> r[b]]
    /\ \A b \in Books :
        /\ IsFiniteSet(DOMAIN r[b])
        /\ \A i \in DOMAIN r[b] : i > 0 /\ r[b][i] \in Titles \union {Blank}
        /\ r[b] # NoRows => s[b].on

\* The range of every variable, and the foreign key.
TypeOK ==
    /\ TablesOK(shelf, rows)
    /\ TablesOK(saved.shelf, saved.rows)
    /\ tx \in Threads \union {None}
    /\ pc \in [Threads -> Labels]
    /\ call \in [Threads -> Calls]
    /\ ops \in 0 .. MaxOps
    /\ mixed \in BOOLEAN

Init ==
    /\ shelf = [b \in Books |-> Off]
    /\ rows = [b \in Books |-> NoRows]
    /\ tx = None
    /\ saved = [shelf |-> shelf, rows |-> rows]
    /\ pc = [t \in Threads |-> "idle"]
    /\ \E b \in Books :
         call = [t \in Threads |->
                   [op |-> "refresh", book |-> b, target |-> b, fetched |-> <<>>,
                    lastSeen |-> Blank, seen |-> 0, next |-> 1, replaced |-> FALSE]]
    /\ ops = 0
    /\ mixed = FALSE

Goto(t, label) == pc' = [pc EXCEPT ![t] = label]

\* Thread t executes a statement: the history notes whether it fell into a
\* transaction that another thread began.
Executes(t) == mixed' = (mixed \/ tx \notin {None, t})

AddRow(r, i, title) == [j \in DOMAIN r \union {i} |-> IF j = i THEN title ELSE r[j]]

DeleteRows(b) == rows' = [rows EXCEPT ![b] = NoRows]

\* What a catalog operation does after cacheBookCatalog, whether it returned
\* or threw: getCatalogWithCache is done, the others update the bookshelf.
AfterCaching(t) == IF call[t].op = "open" THEN "idle" ELSE "update"

-----------------------------------------------------------------------------
(* Faulty variants of operations defined below; no specification uses them. *)

\* Without PRAGMA foreign_keys nothing cascades.
RemoveWithoutForeignKeys(t, b) ==
    /\ pc[t] = "idle" /\ ops < MaxOps
    /\ ops' = ops + 1
    /\ shelf' = [shelf EXCEPT ![b] = Off]
    /\ Executes(t)
    /\ UNCHANGED <<rows, tx, saved, pc, call>>

\* cacheBookCatalog without begin.
BeginNothing(t) ==
    /\ pc[t] = "begin"
    /\ Goto(t, IF tx = None THEN "delete" ELSE "rollback")
    /\ UNCHANGED <<tables, tx, saved, call, ops, mixed>>

\* A failed INSERT is reported without a rollback.
InsertWithoutRollback(t) ==
    /\ pc[t] = "insert"
    /\ LET c == call[t] IN
       IF c.next > Len(c.fetched)
       THEN Goto(t, "commit") /\ UNCHANGED <<rows, call, mixed>>
       ELSE /\ Executes(t)
            /\ IF shelf[c.book].on /\ c.next \notin DOMAIN rows[c.book]
               THEN /\ rows' = [rows EXCEPT ![c.book] = AddRow(@, c.next, c.fetched[c.next])]
                    /\ call' = [call EXCEPT ![t].next = @ + 1]
                    /\ UNCHANGED pc
               ELSE Goto(t, AfterCaching(t)) /\ UNCHANGED <<rows, call>>
    /\ UNCHANGED <<shelf, tx, saved, ops>>

\* INSERT ... SELECT reads the row of the new url.
MoveWrongRow(t) ==
    /\ pc[t] = "move"
    /\ LET b == call[t].book
           n == call[t].target
       IN IF n = b
          THEN /\ shelf' = IF shelf[b].on THEN [shelf EXCEPT ![b] = New] ELSE shelf
               /\ UNCHANGED rows
               /\ Goto(t, "commit")
          ELSE /\ shelf' = IF shelf[n].on THEN [shelf EXCEPT ![n] = New] ELSE shelf
               /\ rows' = IF shelf[n].on THEN [rows EXCEPT ![n] = NoRows] ELSE rows
               /\ Goto(t, "erase")
    /\ Executes(t)
    /\ UNCHANGED <<tx, saved, call, ops>>

-----------------------------------------------------------------------------
(* The beginnings of the operations.                                       *)

Start(t, operation, b, n, last, label) ==
    /\ pc[t] = "idle" /\ ops < MaxOps
    /\ ops' = ops + 1
    /\ call' = [call EXCEPT ![t] = [op |-> operation, book |-> b, target |-> n,
                                    fetched |-> <<>>, lastSeen |-> last, seen |-> 0,
                                    next |-> 1, replaced |-> FALSE]]
    /\ Goto(t, label)
    /\ UNCHANGED <<tables, tx, saved, mixed>>

RefreshCatalog(t, b) ==
    t \in WebThreads /\ Start(t, "refresh", b, b, Blank, "fetch")

GetCatalogWithCache(t, b) ==
    t \in WebThreads /\ Start(t, "open", b, b, Blank, "readCache")

\* checkBookUpdate reads the book's last chapter from the bookshelf first.
CheckBookUpdate(t, b) ==
    t \in WebThreads /\ Start(t, "check", b, b, shelf[b].last, "fetch")

\* A job of the refresh queue (see RefreshWorker).
RefreshJob(b) == Start(Worker, "worker", b, b, Blank, "fetch")

ChangeBookSource(t, b, n) ==
    t \in WebThreads /\ Start(t, "change", b, n, Blank, "begin")

-----------------------------------------------------------------------------
(* Operations of a single statement.                                       *)

Statement(t) ==
    /\ t \in WebThreads
    /\ pc[t] = "idle" /\ ops < MaxOps
    /\ ops' = ops + 1
    /\ Executes(t)
    /\ UNCHANGED <<tx, saved, pc, call>>

\* INSERT OR IGNORE
AddToBookshelf(t, b) ==
    /\ Statement(t)
    /\ shelf' = IF shelf[b].on THEN shelf ELSE [shelf EXCEPT ![b] = New]
    /\ UNCHANGED rows

\* The foreign key cascades.
RemoveFromBookshelf(t, b) ==
    /\ Statement(t)
    /\ shelf' = [shelf EXCEPT ![b] = Off]
    /\ DeleteRows(b)

ClearBookCache(t, b) ==
    /\ Statement(t)
    /\ DeleteRows(b)
    /\ UNCHANGED shelf

-----------------------------------------------------------------------------
(* The steps of the catalog operations.                                    *)

\* A valid cached catalog is the answer; an invalid one is removed first.
ReadCache(t) ==
    /\ pc[t] = "readCache"
    /\ LET cached == rows[call[t].book] IN
       Goto(t, IF cached = NoRows THEN "fetch"
               ELSE IF Valid(cached) THEN "idle" ELSE "removeCached")
    /\ UNCHANGED <<tables, tx, saved, call, ops, mixed>>

RemoveCachedCatalog(t) ==
    /\ pc[t] = "removeCached"
    /\ DeleteRows(call[t].book)
    /\ Executes(t)
    /\ Goto(t, "fetch")
    /\ UNCHANGED <<shelf, tx, saved, call, ops>>

\* Where an operation goes with the catalog c.  Only checkBookUpdate does not
\* ask whether c is valid; the worker skips caching an invalid c and yet
\* updates the bookshelf from it.
AfterFetch(operation, c) ==
    CASE operation = "refresh" -> IF Valid(c) THEN "count" ELSE "idle"
      [] operation = "open"    -> IF Valid(c) THEN "begin" ELSE "idle"
      [] operation = "check"   -> IF c = <<>> THEN "idle" ELSE "count"
      [] operation = "worker"  -> IF Valid(c) THEN "count"
                                  ELSE IF c = <<>> THEN "idle" ELSE "update"

\* getCatalogForSource, which returns nothing when it fails.  (Where it throws
\* the operation ends, too.)
Fetch(t) ==
    /\ pc[t] = "fetch"
    /\ \E c \in Catalogs :
        /\ call' = [call EXCEPT ![t].fetched = c]
        /\ Goto(t, AfterFetch(call[t].op, c))
    /\ UNCHANGED <<tables, tx, saved, ops, mixed>>

\* The guard: getCachedCatalogCount, then canSafelyReplaceCatalog.  A rejected
\* catalog ends a refresh and, being shorter, the worker's job.
Count(t) ==
    /\ pc[t] = "count"
    /\ LET seen == Cardinality(DOMAIN rows[call[t].book])
           rejected == ~CanReplace(seen, call[t].fetched)
       IN /\ call' = [call EXCEPT ![t].seen = seen]
          /\ Goto(t, IF ~rejected THEN "begin"
                     ELSE IF call[t].op = "check" THEN "update" ELSE "idle")
    /\ UNCHANGED <<tables, tx, saved, ops, mixed>>

\* SQLite refuses to begin a transaction within a transaction, whoever began it.
BeginTransaction(t) ==
    /\ pc[t] = "begin"
    /\ IF tx = None
       THEN tx' = t /\ saved' = [shelf |-> shelf, rows |-> rows] /\ Goto(t, "delete")
       ELSE Goto(t, "rollback") /\ UNCHANGED <<tx, saved>>
    /\ Executes(t)
    /\ UNCHANGED <<tables, call, ops>>

Delete(t) ==
    /\ pc[t] = "delete"
    /\ DeleteRows(call[t].book)
    /\ Executes(t)
    /\ Goto(t, IF call[t].op = "change" THEN "move" ELSE "insert")
    /\ UNCHANGED <<shelf, tx, saved, call, ops>>

\* One chapter; the foreign key or the primary key may refuse it.
Insert(t) ==
    /\ pc[t] = "insert"
    /\ LET c == call[t] IN
       IF c.next > Len(c.fetched)
       THEN Goto(t, "commit") /\ UNCHANGED <<rows, call, mixed>>
       ELSE /\ Executes(t)
            /\ IF shelf[c.book].on /\ c.next \notin DOMAIN rows[c.book]
               THEN /\ rows' = [rows EXCEPT ![c.book] = AddRow(@, c.next, c.fetched[c.next])]
                    /\ call' = [call EXCEPT ![t].next = @ + 1]
                    /\ UNCHANGED pc
               ELSE Goto(t, "rollback") /\ UNCHANGED <<rows, call>>
    /\ UNCHANGED <<shelf, tx, saved, ops>>

\* changeBookSource under the same url updates the row; under another one it
\* copies it (OR REPLACE: a book there goes, with its catalog), if there is one.
Move(t) ==
    /\ pc[t] = "move"
    /\ LET b == call[t].book
           n == call[t].target
       IN IF n = b
          THEN /\ shelf' = IF shelf[b].on THEN [shelf EXCEPT ![b] = New] ELSE shelf
               /\ UNCHANGED rows
               /\ Goto(t, "commit")
          ELSE /\ shelf' = IF shelf[b].on THEN [shelf EXCEPT ![n] = New] ELSE shelf
               /\ rows' = IF shelf[b].on THEN [rows EXCEPT ![n] = NoRows] ELSE rows
               /\ Goto(t, "erase")
    /\ Executes(t)
    /\ UNCHANGED <<tx, saved, call, ops>>

\* ... and deletes the row of the old url, with what cascades from it.
Erase(t) ==
    /\ pc[t] = "erase"
    /\ shelf' = [shelf EXCEPT ![call[t].book] = Off]
    /\ DeleteRows(call[t].book)
    /\ Executes(t)
    /\ Goto(t, "commit")
    /\ UNCHANGED <<tx, saved, call, ops>>

\* There may be no transaction left to commit, which is an error, too.
Commit(t) ==
    /\ pc[t] = "commit"
    /\ IF tx = None
       THEN Goto(t, "rollback") /\ UNCHANGED <<tx, call>>
       ELSE /\ tx' = None
            /\ call' = [call EXCEPT ![t].replaced = call[t].op # "change"]
            /\ Goto(t, IF call[t].op = "change" THEN "idle" ELSE AfterCaching(t))
    /\ Executes(t)
    /\ UNCHANGED <<tables, saved, ops>>

\* Rolls back the transaction of whoever began it.  The exception that follows
\* ends changeBookSource; the callers of cacheBookCatalog swallow it.
Rollback(t) ==
    /\ pc[t] = "rollback"
    /\ IF tx = None
       THEN UNCHANGED tables
       ELSE shelf' = saved.shelf /\ rows' = saved.rows
    /\ tx' = None
    /\ Executes(t)
    /\ Goto(t, IF call[t].op = "change" THEN "idle" ELSE AfterCaching(t))
    /\ UNCHANGED <<saved, call, ops>>

\* The bookshelf row that an operation writes at its end.  The worker compares
\* with the title in the reading progress, which is not kept here.
NewRow(c, flag) ==
    [on |-> TRUE,
     last |-> Last(c.fetched),
     total |-> IF c.op = "check" /\ ~c.replaced /\ c.seen > Len(c.fetched)
               THEN c.seen ELSE Len(c.fetched),
     update |-> flag]

UpdateFlags(c) ==
    CASE c.op = "refresh" -> {FALSE}
      [] c.op = "check"   -> {c.lastSeen # Blank /\ c.lastSeen # Last(c.fetched)}
      [] c.op = "worker"  -> BOOLEAN

UpdateBookshelfLastChapter(t) ==
    /\ pc[t] = "update"
    /\ \E flag \in UpdateFlags(call[t]) :
         shelf' = IF shelf[call[t].book].on
                  THEN [shelf EXCEPT ![call[t].book] = NewRow(call[t], flag)]
                  ELSE shelf
    /\ Executes(t)
    /\ Goto(t, "idle")
    /\ UNCHANGED <<rows, tx, saved, call, ops>>

-----------------------------------------------------------------------------

\* The process dies and is started again: SQLite discards what was not committed.
Restart ==
    /\ shelf' = Stored.shelf /\ rows' = Stored.rows
    /\ tx' = None
    /\ pc' = [t \in Threads |-> "idle"]
    /\ UNCHANGED <<saved, call, ops, mixed>>

Begin(t) ==
    \E b \in Books :
      \/ RefreshCatalog(t, b) \/ GetCatalogWithCache(t, b) \/ CheckBookUpdate(t, b)
      \/ \E n \in Books : ChangeBookSource(t, b, n)
      \/ AddToBookshelf(t, b) \/ RemoveFromBookshelf(t, b) \/ ClearBookCache(t, b)

Continue(t) ==
    \/ ReadCache(t) \/ RemoveCachedCatalog(t) \/ Fetch(t) \/ Count(t)
    \/ BeginTransaction(t) \/ Delete(t) \/ Insert(t) \/ Move(t) \/ Erase(t)
    \/ Commit(t) \/ Rollback(t) \/ UpdateBookshelfLastChapter(t)

Next ==
    \/ \E t \in Threads : Begin(t) \/ Continue(t)
    \/ \E b \in Books : RefreshJob(b)
    \/ Restart

Spec == Init /\ [][Next]_vars

-----------------------------------------------------------------------------
(* Properties.                                                             *)

\* However operations fail and abort each other, the connection is not left in
\* a transaction when nobody works in one: what follows is not lost at exit.
NoTransactionLeftOpen == tx # None => \E t \in Threads : InTransaction(t)

\* As long as no statement falls into another thread's transaction, a stored
\* catalog is a whole catalog of some fetch, whatever fails or crashes.
WholeCatalogs ==
    ~mixed => \A b \in Books :
                Stored.rows[b] = NoRows \/ \E c \in Catalogs : Stored.rows[b] = c

\* changeBookSource deletes the row of a book only when its copy exists.
CopyBeforeErase ==
    \A t \in Threads : pc[t] = "erase" /\ shelf[call[t].book].on => shelf[call[t].target].on

\* The same as long as no statement falls into another thread's transaction.
UndisturbedCopyBeforeErase == ~mixed => CopyBeforeErase

\* The guard's comments (engine_bookshelf.cpp:26-33, 353): garbage, such as a
\* single blank chapter, does not replace a good cached catalog.
GoodCatalogKept ==
    [][\A b \in Books :
         Valid(Stored.rows[b]) => LET r == Stored'.rows[b] IN r = NoRows \/ Valid(r)]_vars
=============================================================================

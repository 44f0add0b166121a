------------------------- MODULE AlternativeSources -------------------------
(***************************************************************************)
(* Looking for another source of a book: the route                         *)
(* /api/bookshelf/auto_source, findAlternativeSources of                   *)
(* src/engine/engine_auto_source.cpp, and the task of one source in        *)
(* searchAllConcurrent (src/engine/engine_search_all.cpp).                 *)
(*                                                                         *)
(* Worker threads search one source each.  What a source found is handed   *)
(* to a callback under callbackMutex, which offers the books that fit, one *)
(* by one, and leaves out a book it has offered under the same source name *)
(* before.  When the workers are joined the number of offers is told.      *)
(* The route passes no cancel token.  The source to be excluded is passed  *)
(* on and never looked at, so it does not appear here.                     *)
(***************************************************************************)
EXTENDS Integers, Sequences, FiniteSets, SequencesExt, Ascending

CONSTANTS Seekers,   \* worker threads, one at least
          Origins,   \* names of sources
          Links,     \* urls of books
          Offers     \* what may be asked: is an author given, and what each source has

\* How a name or an author compares with what is asked; ms is a latency in steps of 500.
Likeness == {"same", "part", "other", "none"}
Candidates == [url : Links, name : Likeness, author : Likeness, ms : Nat]
Inquiries == [name : Origins, answers : BOOLEAN, books : Seq(Candidates)]

ASSUME OffersConstants ==
    /\ IsFiniteSet(Seekers) /\ Seekers # {}
    /\ Offers \subseteq [author : BOOLEAN, sources : Seq(Inquiries)]

VARIABLES
    wanted,     \* what is asked
    apc,        \* the call: "asked", "running", "told", "closed"
    nextTask,   \* parallelForEach's index
    seeker,     \* a worker: [at, task, books], the books still to be gone through
    mutex,      \* searchAllConcurrent's callbackMutex: the workers that hold it
    seen,       \* source name and url of the books offered
    counted,    \* totalCandidates
    offered,    \* auto_source_candidate events
    found,      \* totalBooks
    errors,     \* totalErrors
    called,    \* callbacks
    told        \* the totals doneCallback was given

seekVars == <<wanted, apc, nextTask, seeker, mutex, seen, counted, offered, found, errors,
              called, told>>

AtEase == [at |-> "idle", task |-> 0, books |-> <<>>]

SeekTypeOK ==
    /\ wanted \in [author : BOOLEAN, sources : Seq(Inquiries)]
    /\ apc \in {"asked", "running", "told", "closed"}
    /\ nextTask \in 1 .. Len(wanted.sources) + 1
    /\ seeker \in [Seekers -> [at : {"idle", "searching", "answer", "offering", "counted", "ended"},
                               task : 0 .. Len(wanted.sources), books : Seq(Candidates)]]
    /\ mutex \subseteq Seekers /\ Cardinality(mutex) <= 1
    /\ seen \subseteq Origins \X Links
    /\ offered \in Seq([name : Origins, url : Links, score : Int])
    /\ counted \in Nat /\ found \in Nat /\ errors \in Nat /\ called \in Nat
    /\ told \in Nat \X Nat \X Nat \X Nat

SeekStart(asked, at) ==
    /\ wanted = asked /\ apc = at /\ nextTask = 1
    /\ seeker = [w \in Seekers |-> AtEase] /\ mutex = {} /\ seen = {}
    /\ counted = 0 /\ offered = <<>> /\ found = 0 /\ errors = 0 /\ called = 0
    /\ told = <<0, 0, 0, 0>>

SeekInit == \E o \in Offers : SeekStart(o, "asked")

-----------------------------------------------------------------------------
(* What fits. *)

\* bookMatchScore > 0: with matchName alone, the name contains the keyword.
Matches(book) == book.name \in {"same", "part"}
Matching(books) ==
    LET order == InTurn({i \in DOMAIN books : Matches(books[i])})
    IN  [k \in DOMAIN order |-> books[order[k]]]

\* normalizeForMatch on both sides, and one contains the other; a book without an author passes.
Fits(book, author) ==
    /\ book.name \in {"same", "part"}
    /\ author => book.author # "other"

Weight == [same |-> 2, part |-> 1, other |-> 0, none |-> 0]

\* computeMatchScore.
Score(book, author) ==
    50 * Weight[book.name] + (IF author THEN 15 * Weight[book.author] ELSE 0)
    + (IF book.ms < 10 THEN 10 - book.ms ELSE 0)

-----------------------------------------------------------------------------
(* Faulty variant of an operation defined below; no specification uses it. *)

\* Done is called when the last task has been taken.
SeekTellsEarly ==
    /\ apc = "running" /\ nextTask > Len(wanted.sources)
    /\ told' = <<counted, found, Len(wanted.sources), errors>>
    /\ apc' = "told"
    /\ UNCHANGED <<wanted, nextTask, seeker, mutex, seen, counted, offered, found, errors,
                   called>>

-----------------------------------------------------------------------------

TaskOf(w) == wanted.sources[seeker[w].task]
Moves(w, at, books) == seeker' = [seeker EXCEPT ![w].at = at, ![w].books = books]

\* An empty name or no source that can be searched: done is told at once.
SeekBegins ==
    /\ apc = "asked"
    /\ apc' = IF wanted.sources = <<>> THEN "told" ELSE "running"
    /\ UNCHANGED <<wanted, nextTask, seeker, mutex, seen, counted, offered, found, errors,
                   called, told>>

SeekTakes(w) ==
    /\ apc = "running" /\ seeker[w].at = "idle"
    /\ IF nextTask <= Len(wanted.sources)
       THEN /\ seeker' = [seeker EXCEPT ![w] = [at |-> "searching", task |-> nextTask,
                                                 books |-> <<>>]]
            /\ nextTask' = nextTask + 1
       ELSE Moves(w, "ended", <<>>) /\ UNCHANGED nextTask
    /\ UNCHANGED <<wanted, apc, mutex, seen, counted, offered, found, errors, called, told>>

\* An exception or an empty answer is an error without books; otherwise the books that match.
SeekFetches(w) ==
    /\ seeker[w].at = "searching"
    /\ LET books == IF TaskOf(w).answers THEN Matching(TaskOf(w).books) ELSE <<>> IN
         /\ Moves(w, "answer", books)
         /\ found' = found + Len(books)
    /\ errors' = IF TaskOf(w).answers THEN errors ELSE errors + 1
    /\ UNCHANGED <<wanted, apc, nextTask, mutex, seen, counted, offered, called, told>>

SeekLocks(w) ==
    /\ seeker[w].at = "answer" /\ mutex = {}
    /\ mutex' = {w}
    /\ Moves(w, "offering", seeker[w].books)
    /\ called' = called + 1
    /\ UNCHANGED <<wanted, apc, nextTask, seen, counted, offered, found, errors, told>>

\* A book that does not fit, or was seen, is passed over; another is noted and counted.
SeekChecks(w) ==
    /\ seeker[w].at = "offering" /\ seeker[w].books # <<>>
    /\ LET book == Head(seeker[w].books)
           key == <<TaskOf(w).name, book.url>> IN
         IF Fits(book, wanted.author) /\ Score(book, wanted.author) > 0 /\ key \notin seen
         THEN /\ seen' = seen \union {key}
              /\ counted' = counted + 1
              /\ Moves(w, "counted", seeker[w].books)
         ELSE /\ Moves(w, "offering", Tail(seeker[w].books))
              /\ UNCHANGED <<seen, counted>>
    /\ UNCHANGED <<wanted, apc, nextTask, mutex, offered, found, errors, called, told>>

\* onCandidate: the event is written.
SeekOffers(w) ==
    /\ seeker[w].at = "counted"
    /\ LET book == Head(seeker[w].books) IN
         offered' = Append(offered, [name |-> TaskOf(w).name, url |-> book.url,
                                     score |-> Score(book, wanted.author)])
    /\ Moves(w, "offering", Tail(seeker[w].books))
    /\ UNCHANGED <<wanted, apc, nextTask, mutex, seen, counted, found, errors, called, told>>

SeekUnlocks(w) ==
    /\ seeker[w].at = "offering" /\ seeker[w].books = <<>>
    /\ mutex' = mutex \ {w}
    /\ Moves(w, "idle", <<>>)
    /\ UNCHANGED <<wanted, apc, nextTask, seen, counted, offered, found, errors, called, told>>

\* The workers are joined and doneCallback is called.
SeekTells ==
    /\ apc = "running" /\ \A w \in Seekers : seeker[w].at = "ended"
    /\ told' = <<counted, found, Len(wanted.sources), errors>>
    /\ apc' = "told"
    /\ UNCHANGED <<wanted, nextTask, seeker, mutex, seen, counted, offered, found, errors,
                   called>>

\* The route keeps the stream open for thirty seconds more.
SeekCloses ==
    /\ apc = "told" /\ apc' = "closed"
    /\ UNCHANGED <<wanted, nextTask, seeker, mutex, seen, counted, offered, found, errors,
                   called, told>>

SeekNext ==
    \/ SeekBegins \/ SeekTells \/ SeekCloses
    \/ \E w \in Seekers : \/ SeekTakes(w) \/ SeekFetches(w) \/ SeekLocks(w)
                          \/ SeekChecks(w) \/ SeekOffers(w) \/ SeekUnlocks(w)

SeekSpec == SeekInit /\ [][SeekNext]_seekVars

-----------------------------------------------------------------------------
(* Properties. *)

\* Every book that fits, and no other, is offered once per source name before the number of
\* offers is told, which is right, and so are the totals of the search
\* (engine_auto_source.cpp:124, 137, engine_search_all.cpp:289).
CandidatesAreTold ==
    /\ \A k, l \in DOMAIN offered :
         k # l => <<offered[k].name, offered[k].url>> # <<offered[l].name, offered[l].url>>
    /\ apc \in {"told", "closed"} =>
         LET tasks == ToSet(wanted.sources)
             good == {t \in tasks : t.answers} IN
         /\ {<<offered[k].name, offered[k].url>> : k \in DOMAIN offered}
              = UNION {{<<t.name, b.url>> : b \in {x \in ToSet(t.books) :
                                                   Fits(x, wanted.author)}} : t \in good}
         /\ told[1] = Len(offered) /\ called = told[3]
         /\ told[2] >= Len(offered) /\ told[4] <= told[3]
=============================================================================

----------------------------- MODULE SourceGrade -----------------------------
(***************************************************************************)
(* How a validation grades one source: gradeOneSource of                   *)
(* src/engine/engine_validate.cpp, with the pool of JavaScript runtimes of *)
(* include/ariaread/engine_impl.h.                                         *)
(*                                                                         *)
(* One thread for each keyword searches, and of the books it finds reads   *)
(* the catalog and the first chapter until one book has both.  The threads *)
(* share the pool alone, so each has a clock of its own, in ticks since    *)
(* the grading began.  A request takes as long as the server likes, but is *)
(* given up after its timeout; rules and scripts take some time as well.   *)
(***************************************************************************)
EXTENDS Integers, Sequences, FiniteSets, SequencesExt

CONSTANTS Keywords,    \* one thread for each: 3 in the code
          PoolMax,     \* jsPoolMaxSize: 32 in the code
          MaxBooks,    \* maxBooksToTry: 5 in the code
          Budget,      \* sourceBudgetMs
          Timeout,     \* of a request: the user's or the source's, whichever is less
          MinTimeout,  \* 50 ms in the code
          ExcellentMs, GoodMs, PoorMs,
          Durations,   \* bound: what servers take to answer
          RuleWork         \* bound: what the rules of a page take

ASSUME GradeConstants ==
    /\ {PoolMax, MaxBooks, Budget, Timeout, MinTimeout, ExcellentMs, GoodMs, PoorMs} \subseteq Nat
    /\ ExcellentMs <= GoodMs /\ GoodMs <= PoorMs /\ PoorMs < Budget
    /\ Durations \subseteq Nat /\ RuleWork \subseteq Nat

VARIABLES
    pool,     \* jsPool: runtimes
    made,     \* runtimes created so far
    paths,    \* the threads
    graded    \* the result: grade and latency

gradeVars == <<pool, made, paths, graded>>

NoRuntime == 0
NotYet == [grade |-> "unknown", latency |-> 0]
NewPath == [at |-> "start", js |-> NoRuntime, now |-> 0, search |-> 0, book |-> 0, left |-> 0,
            why |-> "error", latency |-> 0, seen |-> {}]

GradeTypeOK ==
    /\ made \in Nat /\ pool \in Seq(1 .. made)
    /\ paths \in [Keywords ->
         [at : {"start", "search", "pick", "book", "toc", "chapter", "release", "gone"},
          js : 0 .. made, now : Nat, search : Nat, book : Nat, left : 0 .. MaxBooks,
          why : {"error", "silent", "empty", "books", "success"}, latency : Nat,
          seen : SUBSET {"list", "catalog", "text"}]]
    /\ graded \in [grade : {"unknown", "excellent", "good", "poor", "invalid"}, latency : Nat]

\* warmUpJsPool has filled the pool, at the latest when the validation began; contents of
\* RSS sources and other gradings may have emptied it since.
GradeStart(threads, warm) ==
    /\ pool = [i \in 1 .. warm |-> i] /\ made = warm
    /\ paths = [k \in Keywords |-> [NewPath EXCEPT !.at = IF k \in threads THEN @ ELSE "gone"]]
    /\ graded = NotYet

GradeInit == \E warm \in 0 .. PoolMax : GradeStart(Keywords, warm)

-----------------------------------------------------------------------------
(* The pool. *)

\* acquireJsRuntime: the last of the pool, or a new one.
Acquire(k) ==
    /\ paths[k].at = "start"
    /\ LET runtime == IF pool = <<>> THEN made + 1 ELSE pool[Len(pool)]
       IN  paths' = [paths EXCEPT ![k].at = "search", ![k].js = runtime]
    /\ made' = IF pool = <<>> THEN made + 1 ELSE made
    /\ pool' = IF pool = <<>> THEN pool ELSE SubSeq(pool, 1, Len(pool) - 1)
    /\ UNCHANGED graded

\* releaseJsRuntime: a full pool drops it.
Release(k) ==
    /\ paths[k].at = "release"
    /\ pool' = IF Len(pool) >= PoolMax THEN pool ELSE Append(pool, paths[k].js)
    /\ paths' = [paths EXCEPT ![k] = [NewPath EXCEPT !.at = "gone", !.now = paths[k].now,
                    !.why = paths[k].why, !.latency = paths[k].latency,
                    !.seen = IF paths[k].why = "success" THEN paths[k].seen ELSE {}]]
    /\ UNCHANGED <<made, graded>>

-----------------------------------------------------------------------------
(* Faulty variants of operations defined below; no specification uses them. *)

\* The request's timeout whatever is left of the budget.
LimitOf(now) == IF now >= Budget THEN 0 ELSE Timeout

\* computeRequestTimeoutMs, 0: no request at all.
Limit(now) ==
    LET least == IF Timeout < Budget - now THEN Timeout ELSE Budget - now
    IN  IF now >= Budget THEN 0 ELSE IF least > MinTimeout THEN least ELSE MinTimeout

-----------------------------------------------------------------------------
(* A path. *)

\* What may come of a request and of the rules on its answer: what the two took, and whether
\* there was an answer.  Without time left nothing is sent.
Answered(now) ==
    LET intime == {d \in Durations : d <= Limit(now)}
    IN  IF now >= Budget THEN {[took |-> 0, work |-> 0, brings |-> FALSE]}
        ELSE [took : intime, work : RuleWork, brings : {TRUE}]
             \union [took : intime \union {Limit(now)}, work : {0}, brings : {FALSE}]

\* searchOnce; the address of the search may be a script that fails.
SearchOnce(k) ==
    /\ paths[k].at = "search"
    /\ \/ paths' = [paths EXCEPT ![k].at = "release", ![k].why = "error"]
       \/ \E a \in Answered(paths[k].now) : \E books \in IF a.brings THEN 0 .. MaxBooks ELSE {0} :
            paths' = [paths EXCEPT
                ![k].at = IF books = 0 THEN "release" ELSE "pick",
                ![k].now = @ + a.took + a.work,
                ![k].search = a.took + a.work,
                ![k].left = books,
                ![k].seen = IF books = 0 THEN {} ELSE {"list"},
                ![k].why = IF books > 0 THEN "books" ELSE IF a.brings THEN "empty" ELSE "silent"]
    /\ UNCHANGED <<pool, made, graded>>

\* tryBooksOfList: the next book, if it has an address.
Pick(k) ==
    /\ paths[k].at = "pick"
    /\ IF paths[k].left = 0 \/ paths[k].now >= Budget
       THEN paths' = [paths EXCEPT ![k].at = "release"]
       ELSE \E known \in BOOLEAN, w \in RuleWork :
                paths' = [paths EXCEPT ![k].at = IF known THEN "book" ELSE "pick",
                                     ![k].now = @ + w, ![k].left = @ - 1,
                                     ![k].book = 0, ![k].seen = {"list"}]
    /\ UNCHANGED <<pool, made, graded>>

\* A page of verifyOneBook; its latency counts, what the rules take does not.
OnePage(k, outcomes) ==
    /\ \E a \in Answered(paths[k].now) : \E next \in IF a.brings THEN outcomes ELSE {"pick"} :
            paths' = [paths EXCEPT
                ![k].at = next,
                ![k].now = @ + a.took + a.work,
                ![k].book = @ + a.took,
                ![k].seen = IF next = "chapter" THEN @ \union {"catalog"}
                            ELSE IF next = "release" THEN @ \union {"text"} ELSE @,
                ![k].why = IF next = "release" THEN "success" ELSE @,
                ![k].latency = IF next = "release" THEN paths[k].search + paths[k].book + a.took ELSE @]
    /\ UNCHANGED <<pool, made, graded>>

\* Enough chapters and the address of the first one; none, but the address of another
\* catalog page; or too few.
Book(k) == paths[k].at = "book" /\ OnePage(k, {"chapter", "toc", "pick"})
Toc(k) == paths[k].at = "toc" /\ OnePage(k, {"chapter", "pick"})

\* Enough text, or not.
Chapter(k) == paths[k].at = "chapter" /\ OnePage(k, {"release", "pick"})

-----------------------------------------------------------------------------
(* The grade. *)

GradeOf(latency) ==
    IF latency < ExcellentMs THEN "excellent" ELSE IF latency <= GoodMs THEN "good"
    ELSE IF latency <= PoorMs THEN "poor" ELSE "invalid"

\* The shortest path that succeeded; otherwise the time all of it took, never 0.
GradeSource ==
    /\ graded = NotYet
    /\ \A k \in Keywords : paths[k].at = "gone"
    /\ LET good == {k \in Keywords : paths[k].why = "success"} IN
       \/ \E k \in good :
            /\ \A l \in good : paths[k].latency <= paths[l].latency
            /\ graded' = [grade |-> GradeOf(paths[k].latency), latency |-> paths[k].latency]
       \/ /\ good = {}
          /\ \E k \in Keywords :
                /\ \A l \in Keywords : paths[l].now <= paths[k].now
                /\ graded' = [grade |-> "invalid",
                              latency |-> IF paths[k].now = 0 THEN 1 ELSE paths[k].now]
    /\ UNCHANGED <<pool, made, paths>>

GradeNext ==
    \/ \E k \in Keywords :
        Acquire(k) \/ SearchOnce(k) \/ Pick(k) \/ Book(k) \/ Toc(k) \/ Chapter(k) \/ Release(k)
    \/ GradeSource

GradeSpec == GradeInit /\ [][GradeNext]_gradeVars

-----------------------------------------------------------------------------
(* Properties. *)

\* The budget of a source (engine_validate.cpp:436): however many pages a path reads, it is
\* over at most one shortest timeout and the rules of one page after the budget is spent.
BudgetIsKept ==
    \A k \in Keywords :
        \E w \in RuleWork \union {0} : paths[k].now <= Budget + MinTimeout + w

\* A source that is not invalid has shown a list, a catalog and a text to one path, whose
\* latency is not more than what passed, and nobody was faster (engine_validate.cpp:469).
GradeIsEarned ==
    graded.grade \notin {"unknown", "invalid"} =>
        /\ \E k \in Keywords :
            /\ paths[k].seen = {"list", "catalog", "text"}
            /\ paths[k].latency = graded.latency /\ graded.latency <= paths[k].now
        /\ \A k \in Keywords : paths[k].why = "success" => graded.latency <= paths[k].latency

\* The pool (engine_impl.h:212): never more than its bound, and no runtime is in two hands.
RuntimesAreOwned ==
    /\ Len(pool) <= PoolMax /\ IsInjective(pool)
    /\ \A k \in Keywords : paths[k].js # NoRuntime =>
        paths[k].js \notin ToSet(pool) \union {paths[l].js : l \in Keywords \ {k}}

\* A grade is earned within the budget, and runtimes are in one hand each
\* (engine_validate.cpp:436, 469, engine_impl.h:278).
GradesAreTrue == BudgetIsKept /\ GradeIsEarned /\ RuntimesAreOwned
=============================================================================

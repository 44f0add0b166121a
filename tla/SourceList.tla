----------------------------- MODULE SourceList -----------------------------
(***************************************************************************)
(* The list of book sources of src/engine/engine_core.cpp, the index of    *)
(* the selected source, the table book_sources behind them, and the        *)
(* requests that read and change the three.                                *)
(*                                                                         *)
(* getCatalogForSource, getContentForSource and the RSS branch of          *)
(* getContentWithCache hold engineMutex, switch the selection and restore  *)
(* it.  Import, removal and /api/search take no lock at all.               *)
(*                                                                         *)
(* A step is one SQL statement, one operation on the vector or one use of  *)
(* the current source around an HTTP request.  An operation on the vector  *)
(* is atomic here, which is the best case.  A reference to an element is   *)
(* a position; it dangles when push_back moves the vector.  Using such a   *)
(* reference, or an index out of range, sets "broken" and ends the         *)
(* behaviour.  Of a source the model keeps the url, the name, whether it   *)
(* has a search url, and the grade.                                        *)
(***************************************************************************)
EXTENDS Integers, Sequences, FiniteSets, SequencesExt

CONSTANTS Threads,    \* request threads
          Urls,       \* urls of book sources
          Names,      \* names of book sources; several sources may share one
          Feeds,      \* what can be imported: sequences of sources
          Stored,     \* the sources loaded at start, without the bad ones
          Temp,       \* url of the temporary source of an RSS article
          Workloads   \* bound: how many requests of each kind the clients make

Kinds == {"import", "remove", "sweep", "clear", "search", "catalog", "rss",
          "validate", "stream"}

Grades == {"unknown", "excellent", "good", "poor", "invalid"}

Sources == [url : Urls \union {Temp}, name : Names, searchable : BOOLEAN, grade : Grades]

Nobody == "nobody"
NoName == "no name"

ASSUME ListConstants ==
    /\ Temp \notin Urls /\ Nobody \notin Threads /\ NoName \in Names
    /\ Stored \in Seq(Sources) /\ \A s \in ToSet(Stored) : s.grade \notin {"poor", "invalid"}
    /\ \A i, j \in DOMAIN Stored : Stored[i].url = Stored[j].url => i = j
    /\ Feeds \subseteq Seq(Sources)
    /\ \A feed \in Feeds : \A s \in ToSet(feed) : s.grade = "unknown"
    /\ {s.url : s \in UNION {ToSet(l) : l \in Feeds \union {Stored}}} \subseteq Urls
    /\ Workloads \subseteq [Kinds -> Nat]

VARIABLES
    sources,   \* the vector
    cur,       \* currentSourceIndex, from 0
    table,     \* table book_sources: url -> grade
    holder,    \* the thread that holds engineMutex
    pc,        \* each thread
    job,       \* each thread's arguments and local variables
    quota,     \* requests still to come
    broken,    \* undefined behaviour has happened
    chosen,    \* history: the index as requests without the lock have left it
    shifts,    \* history: how often elements left the vector or changed place
    touched,   \* history: list or index written without the lock while it is held
    overlap,   \* history: two requests were changing list and table at once
    swept      \* history: a sweep emptied the list and left the index behind

data == <<sources, cur, table>>
history == <<chosen, shifts, touched, overlap, swept>>
listVars == <<data, holder, pc, job, quota, broken, history>>

Url(i) == sources[i + 1].url
InRange(i) == 0 <= i /\ i < Len(sources)
UrlsOf(list) == {list[i].url : i \in DOMAIN list}

\* The first position, from 0, of a source that satisfies Test; -1 if none does.
Find(Test(_)) == SelectInSeq(sources, Test) - 1

Erase(list, i) == RemoveAt(list, i + 1)

Editing(u) == pc[u] \in {"insert", "push", "erase", "sweep", "wipe"}

Idle == [todo |-> <<>>, at |-> 0, want |-> Temp, prev |-> 0, used |-> {}, moved |-> FALSE]

ListTypeOK ==
    /\ sources \in Seq(Sources) /\ cur \in Nat
    /\ DOMAIN table \subseteq Urls /\ \A u \in DOMAIN table : table[u] \in Grades
    /\ holder \in Threads \union {Nobody}
    /\ pc \in [Threads -> {"idle", "check", "insert", "push", "erase", "sweep", "wipe", "ask",
                           "fetch", "label", "request", "page", "restore", "download",
                           "unplug"}]
    /\ job \in [Threads -> [todo : Seq(Sources), at : Int, want : Urls \union {Temp},
                            prev : Nat, used : SUBSET (Urls \union {Temp}),
                            moved : BOOLEAN]]
    /\ quota \in [Kinds -> Nat]
    /\ {broken, touched, overlap, swept} \subseteq BOOLEAN
    /\ chosen \in Nat /\ shifts \in Nat

\* The constructor, setDatabasePath, loadSourcesFromDatabase and the removal of the bad
\* sources with which main begins.
ListStart(workload) ==
    /\ sources = Stored
    /\ cur = 0
    /\ table = [u \in UrlsOf(Stored) |-> (CHOOSE s \in ToSet(Stored) : s.url = u).grade]
    /\ holder = Nobody
    /\ pc = [t \in Threads |-> "idle"]
    /\ job = [t \in Threads |-> Idle]
    /\ quota = workload
    /\ chosen = 0 /\ shifts = 0
    /\ broken = FALSE /\ touched = FALSE /\ overlap = FALSE /\ swept = FALSE

ListInit == \E workload \in Workloads : ListStart(workload)

-----------------------------------------------------------------------------
(* Helpers of the actions. *)

Ask(k) == quota[k] > 0 /\ quota' = [quota EXCEPT ![k] = @ - 1]

Goto(t, label) == pc' = [pc EXCEPT ![t] = label]

\* The histories of a step in which t writes the vector, the index or the table.
Writes(t) ==
    /\ touched' = (touched \/ holder \notin {Nobody, t})
    /\ overlap' = (overlap \/ \E u \in Threads \ {t} : Editing(u))

Break == broken' = TRUE /\ UNCHANGED <<data, holder, pc, job, quota, history>>

\* push_back, after which t's local variables are "mine": if it moves the elements, the
\* references of the other threads dangle.
Push(t, s, mine) ==
    /\ sources' = Append(sources, s)
    /\ \E moves \in BOOLEAN :
        job' = [u \in Threads |-> IF u = t THEN mine
                                  ELSE [job[u] EXCEPT !.moved = @ \/ moves]]

\* A use of currentSource() next to the reference taken before: the urls used.
Used(t) == job[t].used \union {Url(cur), Url(job[t].at)}
Usable(t) == InRange(cur) /\ InRange(job[t].at) /\ ~job[t].moved

-----------------------------------------------------------------------------
(* Faulty variants of operations defined below; no specification uses them. *)

\* The check for a stored url is missing.
ImportUnchecked(t) ==
    /\ pc[t] = "check" /\ job[t].todo # <<>>
    /\ Goto(t, "insert")
    /\ UNCHANGED <<data, holder, job, quota, broken, history>>

\* The selection is not put back.
RestoreForgotten(t) ==
    /\ pc[t] = "restore"
    /\ holder' = Nobody
    /\ Goto(t, "idle")
    /\ Writes(t)
    /\ UNCHANGED <<data, job, quota, broken, chosen, shifts, swept>>

\* The index is not corrected.
ClampNot(i, list) == i

\* It is corrected even if nothing is left: the index wraps around.
ClampAlways(i, list) == IF i >= Len(list) THEN Len(list) - 1 ELSE i

\* A catalog is fetched with whatever source is selected.
LockWithoutChoice(t) ==
    /\ pc[t] = "idle" /\ Ask("catalog") /\ holder = Nobody /\ sources # <<>>
    /\ \E i \in -1 .. Len(sources) - 1 :
        job' = [job EXCEPT ![t] = [Idle EXCEPT !.prev = cur,
                                   !.want = IF i = -1 /\ InRange(cur) THEN Url(cur)
                                            ELSE IF i = -1 THEN Temp ELSE Url(i)]]
    /\ holder' = t
    /\ Goto(t, "request")
    /\ Writes(t)
    /\ UNCHANGED <<data, broken, chosen, shifts, swept>>

\* What removals do with the index at the end.
Clamp(i, list) == IF i >= Len(list) /\ list # <<>> THEN Len(list) - 1 ELSE i

-----------------------------------------------------------------------------
(* Import: loadSource, loadSources and loadSourcesFromFile, one source after another. *)

Import(t) ==
    /\ pc[t] = "idle" /\ Ask("import")
    /\ \E feed \in Feeds : job' = [job EXCEPT ![t] = [Idle EXCEPT !.todo = feed]]
    /\ Goto(t, "check")
    /\ UNCHANGED <<data, holder, broken, history>>

\* sourceExists: a source whose url is stored is skipped.
ImportCheck(t) ==
    /\ pc[t] = "check" /\ job[t].todo # <<>>
    /\ IF Head(job[t].todo).url \in DOMAIN table
       THEN job' = [job EXCEPT ![t].todo = Tail(@)] /\ UNCHANGED pc
       ELSE Goto(t, "insert") /\ UNCHANGED job
    /\ UNCHANGED <<data, holder, quota, broken, history>>

\* insertSources: INSERT OR IGNORE.
ImportInsert(t) ==
    /\ pc[t] = "insert"
    /\ table' = [u \in DOMAIN table \union {Head(job[t].todo).url} |->
                    IF u \in DOMAIN table THEN table[u] ELSE Head(job[t].todo).grade]
    /\ Goto(t, "push")
    /\ Writes(t)
    /\ UNCHANGED <<sources, cur, holder, job, quota, broken, chosen, shifts, swept>>

ImportPush(t) ==
    /\ pc[t] = "push"
    /\ Push(t, Head(job[t].todo), [job[t] EXCEPT !.todo = Tail(@)])
    /\ Goto(t, "check")
    /\ Writes(t)
    /\ UNCHANGED <<cur, table, holder, quota, broken, chosen, shifts, swept>>

ImportEnds(t) ==
    /\ pc[t] = "check" /\ job[t].todo = <<>>
    /\ Goto(t, "idle")
    /\ UNCHANGED <<data, holder, job, quota, broken, history>>

-----------------------------------------------------------------------------
(* Removal of one source, of the bad ones, of all. *)

\* removeSourceByUrl, and the route's removal by name: the first match is found and its
\* row deleted ...
RemoveSource(t) ==
    /\ pc[t] = "idle" /\ Ask("remove")
    /\ \E i \in 0 .. Len(sources) - 1 :
        /\ \/ i = Find(LAMBDA s : s.url = Url(i))
           \/ i = Find(LAMBDA s : s.name = sources[i + 1].name)
        /\ table' = [u \in DOMAIN table \ {Url(i)} |-> table[u]]
        /\ job' = [job EXCEPT ![t] = [Idle EXCEPT !.at = i]]
    /\ Goto(t, "erase")
    /\ Writes(t)
    /\ UNCHANGED <<sources, cur, holder, broken, chosen, shifts, swept>>

\* ... and then the element at that position is erased.
RemoveErase(t) ==
    /\ pc[t] = "erase"
    /\ IF ~InRange(job[t].at) THEN Break
       ELSE /\ sources' = Erase(sources, job[t].at)
            /\ cur' = Clamp(cur, sources') /\ chosen' = Clamp(chosen, sources')
            /\ shifts' = shifts + 1
            /\ Goto(t, "idle")
            /\ Writes(t)
            /\ UNCHANGED <<table, holder, job, quota, broken, swept>>

\* removeInvalidSources goes through the list from its end.
Sweep(t) ==
    /\ pc[t] = "idle" /\ Ask("sweep")
    /\ job' = [job EXCEPT ![t] = [Idle EXCEPT !.at = Len(sources) - 1]]
    /\ Goto(t, "sweep")
    /\ UNCHANGED <<data, holder, broken, history>>

SweepOne(t) ==
    /\ pc[t] = "sweep" /\ job[t].at >= 0
    /\ IF ~InRange(job[t].at) THEN Break
       ELSE /\ IF sources[job[t].at + 1].grade \in {"invalid", "poor"}
               THEN /\ table' = [u \in DOMAIN table \ {Url(job[t].at)} |-> table[u]]
                    /\ sources' = Erase(sources, job[t].at)
                    /\ shifts' = shifts + 1
                    /\ Writes(t)
               ELSE UNCHANGED <<sources, table, shifts, touched, overlap>>
            /\ job' = [job EXCEPT ![t].at = @ - 1]
            /\ UNCHANGED <<cur, holder, pc, quota, broken, chosen, swept>>

SweepEnds(t) ==
    /\ pc[t] = "sweep" /\ job[t].at < 0
    /\ cur' = Clamp(cur, sources) /\ chosen' = Clamp(chosen, sources)
    /\ swept' = (swept \/ (sources = <<>> /\ cur > 0))
    /\ Goto(t, "idle")
    /\ Writes(t)
    /\ UNCHANGED <<sources, table, holder, job, quota, broken, shifts>>

\* clearAllSources deletes the rows of the list's sources, then the list.
Clear(t) ==
    /\ pc[t] = "idle" /\ Ask("clear")
    /\ table' = [u \in DOMAIN table \ UrlsOf(sources) |-> table[u]]
    /\ Goto(t, "wipe")
    /\ Writes(t)
    /\ UNCHANGED <<sources, cur, holder, job, broken, chosen, shifts, swept>>

ClearWipe(t) ==
    /\ pc[t] = "wipe"
    /\ sources' = <<>> /\ cur' = 0 /\ chosen' = 0
    /\ shifts' = shifts + 1
    /\ Goto(t, "idle")
    /\ Writes(t)
    /\ UNCHANGED <<table, holder, job, quota, broken, swept>>

-----------------------------------------------------------------------------
(* /api/search: selectSourceByName or selectSource, then search, without the lock. *)

\* Position -1: nothing was named, or it was not found; the selection stays and the
\* search goes on.
Select(t) ==
    /\ pc[t] = "idle" /\ Ask("search")
    /\ \E i \in -1 .. Len(sources) - 1 :
        /\ cur' = IF i = -1 THEN cur ELSE i
        /\ chosen' = IF i = -1 THEN chosen ELSE i
        /\ job' = [job EXCEPT ![t] = [Idle EXCEPT !.want = IF InRange(cur') THEN Url(cur')
                                                           ELSE Temp]]
    /\ Goto(t, "ask")
    /\ Writes(t)
    /\ UNCHANGED <<sources, table, holder, broken, shifts, swept>>

\* search takes a reference to the current source and analyses its search url.
SearchAsk(t) ==
    /\ pc[t] = "ask"
    /\ IF sources # <<>> /\ ~InRange(cur) THEN Break
       ELSE /\ IF sources = <<>> \/ ~sources[cur + 1].searchable
               THEN Goto(t, "idle") /\ UNCHANGED job
               ELSE /\ job' = [job EXCEPT ![t].at = cur, ![t].moved = FALSE,
                                          ![t].used = {Url(cur)}]
                    /\ Goto(t, "fetch")
            /\ UNCHANGED <<data, holder, quota, broken, history>>

\* httpRequest takes headers and timeout from currentSource(), the rules are those of
\* the reference.
SearchFetch(t) ==
    /\ pc[t] = "fetch"
    /\ IF ~Usable(t) THEN Break
       ELSE /\ job' = [job EXCEPT ![t].used = Used(t)]
            /\ Goto(t, "label")
            /\ UNCHANGED <<data, holder, quota, broken, history>>

\* The route gives the books the url of currentSource().
SearchLabel(t) ==
    /\ pc[t] = "label"
    /\ IF sources # <<>> /\ ~InRange(cur) THEN Break
       ELSE /\ job' = [job EXCEPT ![t] = Idle]
            /\ Goto(t, "idle")
            /\ UNCHANGED <<data, holder, quota, broken, history>>

-----------------------------------------------------------------------------
(* getCatalogForSource and getContentForSource, under the lock. *)

\* The selection is saved and the source at i selected, whether by its name or by its
\* index; -1: the selected one.  Without a list, or if there is no such source, nothing
\* happens.
Lock(t) ==
    /\ pc[t] = "idle" /\ Ask("catalog") /\ holder = Nobody /\ sources # <<>>
    /\ \E i \in -1 .. Len(sources) - 1 :
        /\ cur' = IF i = -1 THEN cur ELSE i
        /\ job' = [job EXCEPT ![t] = [Idle EXCEPT !.prev = cur,
                                      !.want = IF InRange(cur') THEN Url(cur') ELSE Temp]]
    /\ holder' = t
    /\ Goto(t, "request")
    /\ Writes(t)
    /\ UNCHANGED <<sources, table, broken, chosen, shifts, swept>>

\* getCatalog and getContent take the reference ...
Request(t) ==
    /\ pc[t] = "request"
    /\ IF ~InRange(cur) THEN Break
       ELSE /\ job' = [job EXCEPT ![t].at = cur, ![t].moved = FALSE, ![t].used = {Url(cur)}]
            /\ Goto(t, "page")
            /\ UNCHANGED <<data, holder, quota, broken, history>>

\* ... and fetch pages with the headers of currentSource().
Page(t) ==
    /\ pc[t] = "page"
    /\ IF ~Usable(t) THEN Break
       ELSE /\ job' = [job EXCEPT ![t].used = Used(t)]
            /\ Goto(t, "restore")
            /\ UNCHANGED <<data, holder, quota, broken, history>>

\* Whether the fetch returned or threw, the selection is put back.
Restore(t) ==
    /\ pc[t] = "restore"
    /\ cur' = job[t].prev
    /\ holder' = Nobody
    /\ Goto(t, "idle")
    /\ Writes(t)
    /\ UNCHANGED <<sources, table, job, quota, broken, chosen, shifts, swept>>

-----------------------------------------------------------------------------
(* getContentForRssSource, under the lock: a temporary source at the end of the list. *)

Plug(t) ==
    /\ pc[t] = "idle" /\ Ask("rss") /\ holder = Nobody
    /\ holder' = t
    /\ Push(t, [url |-> Temp, name |-> NoName, searchable |-> FALSE, grade |-> "unknown"],
            [Idle EXCEPT !.prev = cur])
    /\ cur' = Len(sources)
    /\ Goto(t, "download")
    /\ Writes(t)
    /\ UNCHANGED <<table, broken, chosen, shifts, swept>>

Download(t) ==
    /\ pc[t] = "download"
    /\ IF sources # <<>> /\ ~InRange(cur) THEN Break
       ELSE /\ job' = [job EXCEPT ![t].used = IF sources = <<>> THEN {} ELSE {Url(cur)}]
            /\ Goto(t, "unplug")
            /\ UNCHANGED <<data, holder, quota, broken, history>>

\* pop_back, whatever lies at the end now, and the old index; also after an exception.
Unplug(t) ==
    /\ pc[t] = "unplug"
    /\ IF sources = <<>> THEN Break
       ELSE /\ sources' = Front(sources)
            /\ cur' = job[t].prev
            /\ shifts' = shifts + 1
            /\ holder' = Nobody
            /\ Goto(t, "idle")
            /\ Writes(t)
            /\ UNCHANGED <<table, job, quota, broken, chosen, swept>>

-----------------------------------------------------------------------------

Editor(t) ==
    \/ Import(t) \/ ImportCheck(t) \/ ImportInsert(t) \/ ImportPush(t) \/ ImportEnds(t)
    \/ RemoveSource(t) \/ RemoveErase(t)
    \/ Sweep(t) \/ SweepOne(t) \/ SweepEnds(t)
    \/ Clear(t) \/ ClearWipe(t)

Reader(t) ==
    \/ Select(t) \/ SearchAsk(t) \/ SearchFetch(t) \/ SearchLabel(t)
    \/ Lock(t) \/ Request(t) \/ Page(t) \/ Restore(t)
    \/ Plug(t) \/ Download(t) \/ Unplug(t)

ListNext == ~broken /\ \E t \in Threads : Editor(t) \/ Reader(t)

-----------------------------------------------------------------------------
(* Properties. *)

Quiet == \A t \in Threads : ~Editing(t)

\* currentSource() indexes the vector without a check (engine_impl.h:327): when no change
\* is under way, the selected index is one of the list, through removals, imports,
\* switches and temporary sources in any order, unless the list was changed without the
\* lock while somebody held it, two changes overlapped or a sweep left the index behind.
SelectionInRange ==
    Quiet /\ ~touched /\ ~overlap /\ ~swept /\ sources # <<>> => InRange(cur)

\* A request under engineMutex leaves the selection and the list as requests without it
\* made them (engine.h:198): unless somebody wrote them meanwhile, the index is back and
\* the temporary source gone whenever the lock is free.
LockedRequestsLeaveNoTrace ==
    ~touched /\ ~overlap /\ holder = Nobody => cur = chosen /\ Temp \notin UrlsOf(sources)

\* A catalog or content is fetched with url, headers and rules of the source it was asked
\* for, an RSS article with those of its temporary source, unless the list or the index is
\* written without the lock while it is held.
FetchedFromRequested ==
    ~touched => \A t \in Threads : pc[t] \in {"restore", "unplug"} => job[t].used \subseteq {job[t].want}

\* Unless two requests change them at once, list and table hold the same sources, each
\* once, as soon as no change is under way (engine_core.cpp:128, 217, 255).
ListMatchesTable ==
    ~touched /\ ~overlap /\ holder = Nobody /\ Quiet
    => /\ UrlsOf(sources) = DOMAIN table
       /\ Cardinality(UrlsOf(sources)) = Len(sources)

\* What engine.h:81 promises: there is a current source as long as there are sources, if
\* no two requests overlap.
SelectionStaysInRange == Quiet /\ ~touched /\ ~overlap /\ sources # <<>> => InRange(cur)
=============================================================================

---------------------------- MODULE SearchStream ----------------------------
(***************************************************************************)
(* The streamed search in many sources: stream_concurrent_search of        *)
(* src/apps/web_server/routes_search.cpp and searchAllConcurrent of        *)
(* src/engine/engine_search_all.cpp.                                       *)
(*                                                                         *)
(* The route copies the list and counts the sources it expects to answer.  *)
(* The engine reads the list again and collects its tasks.  Every answer   *)
(* calls back with the index of its source, which the route translates     *)
(* into a url with its own copy.  When the engine is done the route waits  *)
(* until as many sources answered as it expected, or for sixty seconds.    *)
(* The latency is left out, so that sources of equal grade are searched in *)
(* any order; books and scores are left out.                               *)
(***************************************************************************)
EXTENDS SourceList

CONSTANTS Searchers,   \* worker threads of a search
          Requested    \* what a client may ask for: sequences of names; <<>>: all sources

ASSUME StreamConstants == Searchers \in Nat \ {0} /\ Requested \subseteq Seq(Names)

VARIABLES
    spc,        \* the request: "idle", "collect", "running", "wait", "ended"
    names,      \* sourceNames
    snap,       \* the route's copy of the list
    expected,   \* searchableCount
    waiting,    \* indexes whose search has not begun
    active,     \* indexes being searched, with the url of the task's snapshot
    events,     \* source_result and source_error: the source searched, the url written
    answered,   \* doneCount
    late,       \* the sixty seconds have passed before the count was reached
    steady      \* history: both reads of the list found the same

streamVars == <<spc, names, snap, expected, waiting, active, events, answered, late, steady>>

Rank == [excellent |-> 0, good |-> 1, unknown |-> 2, poor |-> 3, invalid |-> 3]

StreamTypeOK ==
    /\ spc \in {"idle", "collect", "running", "wait", "ended"}
    /\ names \in Seq(Names) /\ snap \in Seq(Sources)
    /\ expected \in Nat /\ answered \in Nat
    /\ waiting \subseteq [index : Nat, url : Urls, rank : 0 .. 3]
    /\ active \subseteq [index : Nat, url : Urls, rank : 0 .. 3]
    /\ events \in Seq([of : Urls, url : Urls \union {Temp, "none"}])
    /\ late \in BOOLEAN /\ steady \in BOOLEAN

StreamInit ==
    /\ spc = "idle" /\ names = <<>> /\ snap = <<>> /\ expected = 0
    /\ waiting = {} /\ active = {} /\ events = <<>> /\ answered = 0
    /\ late = FALSE /\ steady = TRUE

\* The route's test and the engine's: by name, or everything that is not bad.
Searched(s, asked) ==
    s.searchable /\ IF asked = <<>> THEN s.grade \notin {"invalid", "poor"}
                                    ELSE s.name \in ToSet(asked)

-----------------------------------------------------------------------------
(* Faulty variants of operations defined below; no specification uses them. *)

\* The route labels by the order of the answers.
LabelByOrder(i) == IF answered < Len(snap) THEN snap[answered + 1].url ELSE "none"

\* sources[idx].url of the copy, if idx is inside.
Label(i) == IF i < Len(snap) THEN snap[i + 1].url ELSE "none"

\* A source that does not answer is not counted.
StreamAnswerOnly ==
    /\ spc = "running"
    /\ \E x \in active, answers \in BOOLEAN :
        /\ active' = active \ {x}
        /\ events' = Append(events, [of |-> x.url, url |-> Label(x.index)])
        /\ answered' = IF answers THEN answered + 1 ELSE answered
    /\ UNCHANGED <<listVars, spc, names, snap, expected, waiting, late, steady>>

CountExpected(list, asked) ==
    IF asked = <<>> THEN Cardinality({i \in DOMAIN list : Searched(list[i], asked)})
    ELSE Cardinality({k \in DOMAIN asked : \E s \in ToSet(list) :
                                              s.name = asked[k] /\ s.searchable})

-----------------------------------------------------------------------------

StreamStart ==
    /\ spc = "idle" /\ Ask("stream")
    /\ names' \in Requested
    /\ snap' = sources
    /\ expected' = CountExpected(sources, names')
    /\ spc' = IF expected' = 0 THEN "ended" ELSE "collect"
    /\ UNCHANGED <<data, holder, pc, job, broken, history,
                   waiting, active, events, answered, late, steady>>

\* Without a task searchAllConcurrent calls back and returns at once.
Collect ==
    /\ spc = "collect"
    /\ waiting' = {[index |-> i - 1, url |-> sources[i].url, rank |-> Rank[sources[i].grade]] :
                     i \in {k \in DOMAIN sources : Searched(sources[k], names)}}
    /\ steady' = (sources = snap)
    /\ spc' = IF waiting' = {} THEN "wait" ELSE "running"
    /\ UNCHANGED <<listVars, names, snap, expected, active, events, answered, late>>

\* The better grades first.
StreamClaim ==
    /\ spc = "running" /\ Cardinality(active) < Searchers
    /\ \E x \in waiting :
        /\ \A y \in waiting : x.rank <= y.rank
        /\ waiting' = waiting \ {x}
        /\ active' = active \union {x}
    /\ UNCHANGED <<listVars, spc, names, snap, expected, events, answered, late, steady>>

\* Books, no answer or an exception: the callback writes an event and counts.
StreamAnswer ==
    /\ spc = "running"
    /\ \E x \in active :
        /\ active' = active \ {x}
        /\ events' = Append(events, [of |-> x.url, url |-> Label(x.index)])
        /\ answered' = answered + 1
    /\ UNCHANGED <<listVars, spc, names, snap, expected, waiting, late, steady>>

\* parallelForEach returns, search_done is written.
StreamDone ==
    /\ spc = "running" /\ waiting = {} /\ active = {}
    /\ spc' = "wait"
    /\ UNCHANGED <<listVars, names, snap, expected, waiting, active, events, answered, late,
                   steady>>

StreamEnds ==
    /\ spc = "wait" /\ answered >= expected
    /\ spc' = "ended"
    /\ UNCHANGED <<listVars, names, snap, expected, waiting, active, events, answered, late,
                   steady>>

\* The deadline, or the server stops.
StreamTimesOut ==
    /\ spc = "wait" /\ answered < expected
    /\ spc' = "ended" /\ late' = TRUE
    /\ UNCHANGED <<listVars, names, snap, expected, waiting, active, events, answered, steady>>

StreamNext ==
    ~broken /\ (StreamStart \/ Collect \/ StreamClaim \/ StreamAnswer \/ StreamDone
                \/ StreamEnds \/ StreamTimesOut)

StreamFairness ==
    WF_<<listVars, streamVars>>(~broken /\ (Collect \/ StreamClaim \/ StreamAnswer
                                            \/ StreamDone \/ StreamEnds \/ StreamTimesOut))

-----------------------------------------------------------------------------
(* Properties. *)

\* An event carries the url of the source it is about, unless the list changed between
\* the route's copy and the engine's tasks (routes_search.cpp:86, 96).
EventsNameTheirSource == steady => \A k \in DOMAIN events : events[k].url = events[k].of

\* The route's count is reached without the sixty seconds, unless the list or a grade
\* changed between the two reads or the client named a source twice
\* (routes_search.cpp:121).
StreamNeedsNoDeadline ==
    late => ~steady \/ \E k, l \in DOMAIN names : k # l /\ names[k] = names[l]

\* What a stream says is so: whom an event is about, and how many events will come.
StreamIsTrue == EventsNameTheirSource /\ StreamNeedsNoDeadline

\* A stream ends, and with an event for each source that was searched.
StreamIsAnswered ==
    spc \notin {"idle", "collect"} ~> (spc = "ended" /\ Len(events) = answered) \/ broken
=============================================================================

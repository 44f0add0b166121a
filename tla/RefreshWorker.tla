---------------------------- MODULE RefreshWorker ----------------------------
(***************************************************************************)
(* The background refresh of book catalogs in src/engine/engine_bookshelf  *)
(* .cpp: the queue of refresh jobs, its de-duplication by queuedRefreshKeys*)
(* and the flags in each book's reading state, the one worker thread that  *)
(* serves the queue, the engine mutex it tries before it fetches, and the  *)
(* destructor that stops it.                                               *)
(*                                                                         *)
(* Web threads open books, change sources and use the engine at any time.  *)
(* A step is one critical section of bookStateMutex, one operation on the  *)
(* engine mutex or one operation on the condition variable.  Of a book's   *)
(* state only the flags that steer the queue are kept (its numbers belong  *)
(* to CatalogStore); of a job only its book, which is its key.             *)
(***************************************************************************)
EXTENDS Naturals, Sequences, FiniteSets

CONSTANTS Books,      \* book urls
          Threads,    \* web request threads
          MaxOps      \* bound: operations on the reading states in one behaviour

ASSUME OpsBound == MaxOps \in Nat

VARIABLES
    queue,        \* refreshQueue, the keys of its jobs
    queuedKeys,   \* queuedRefreshKeys
    state,        \* bookStates: is there an entry, and its two flags
    engine,       \* engineMutex: "free", "worker" or "web"
    wpc,          \* the refresh worker
    job,          \* the job it popped last
    failed,       \* its last fetch threw
    tpc,          \* each web thread
    book,         \* the book each web thread works on
    ops,          \* operations started so far
    dtor          \* ~Impl: "no", "flagged", "stopping", "gone"

web == <<tpc, book, ops>>
worker == <<wpc, job, failed>>
refreshVars == <<queue, queuedKeys, state, engine, worker, web, dtor>>

Absent == [present |-> FALSE, queued |-> FALSE, inFlight |-> FALSE]
Fresh == [present |-> TRUE, queued |-> FALSE, inFlight |-> FALSE]

alive == dtor = "no"
stopRefreshWorker == dtor \in {"stopping", "gone"}

\* Does the queue hold a job for b?
Pending(b) == \E i \in 1 .. Len(queue) : queue[i] = b

\* The worker has popped b's job and not yet put it back or finished it.
Processing(b) == wpc \in {"alive", "try", "requeue", "lock", "fetch", "apply"} /\ job = b

WorkerPCs == {"wait", "parked", "alive", "try", "requeue", "lock", "fetch", "apply", "exited"}

\* The range of every variable, and who holds the engine mutex: the worker while
\* it fetches, a web thread while it uses the engine, one at a time.
RefreshTypeOK ==
    /\ queue \in Seq(Books)
    /\ queuedKeys \in SUBSET Books
    /\ state \in [Books -> [present : BOOLEAN, queued : BOOLEAN, inFlight : BOOLEAN]]
    /\ engine \in {"free", "worker", "web"}
    /\ wpc \in WorkerPCs
    /\ job \in Books
    /\ failed \in BOOLEAN
    /\ tpc \in [Threads -> {"idle", "request", "notify", "engine"}]
    /\ book \in [Threads -> Books]
    /\ ops \in 0 .. MaxOps
    /\ dtor \in {"no", "flagged", "stopping", "gone"}
    /\ engine = "worker" <=> wpc = "fetch"
    /\ \A t \in Threads : tpc[t] = "engine" => engine = "web"

RefreshInit ==
    /\ queue = <<>>
    /\ queuedKeys = {}
    /\ state = [b \in Books |-> Absent]
    /\ engine = "free"
    /\ wpc = "wait"
    /\ job \in Books
    /\ failed = FALSE
    /\ tpc = [t \in Threads |-> "idle"]
    /\ book \in [Threads -> Books]
    /\ ops = 0
    /\ dtor = "no"

-----------------------------------------------------------------------------
(* Faulty variants of operations defined below; no specification uses them. *)

\* The worker releases the key only when the job is finished.
PopKeepingKey ==
    /\ wpc = "wait" /\ queue # <<>>
    /\ job' = Head(queue)
    /\ queue' = Tail(queue)
    /\ state' = IF state[Head(queue)].present
                THEN [state EXCEPT ![Head(queue)].queued = FALSE,
                                   ![Head(queue)].inFlight = TRUE]
                ELSE state
    /\ wpc' = "alive"
    /\ UNCHANGED <<queuedKeys, engine, failed, web, dtor>>

\* A job that could not run is dropped instead of put back.
RequeueDropping ==
    /\ wpc = "requeue"
    /\ wpc' = "wait"
    /\ state' = IF state[job].present
                THEN [state EXCEPT ![job].inFlight = FALSE]
                ELSE state
    /\ UNCHANGED <<queue, queuedKeys, engine, job, failed, web, dtor>>

\* A failed fetch leaves the flag of the job set.
ApplyForgettingErrors ==
    /\ wpc = "apply"
    /\ state' = IF state[job].present /\ ~failed
                THEN [state EXCEPT ![job].inFlight = FALSE]
                ELSE state
    /\ wpc' = "wait"
    /\ UNCHANGED <<queue, queuedKeys, engine, job, failed, web, dtor>>

\* bookStates[job.key] instead of find(job.key).
ApplyResurrecting ==
    /\ wpc = "apply"
    /\ state' = [state EXCEPT ![job].present = TRUE, ![job].inFlight = FALSE]
    /\ wpc' = "wait"
    /\ UNCHANGED <<queue, queuedKeys, engine, job, failed, web, dtor>>

\* The engine mutex is not given up after try_lock().
TryLockKeeping ==
    /\ wpc = "try"
    /\ engine' = IF engine = "free" THEN "worker" ELSE engine
    /\ wpc' = IF engine = "free" THEN "lock" ELSE "requeue"
    /\ UNCHANGED <<queue, queuedKeys, state, job, failed, web, dtor>>

\* stopWorker() without notify_all().
StopSilently ==
    /\ dtor = "flagged"
    /\ dtor' = "stopping"
    /\ UNCHANGED <<queue, queuedKeys, state, engine, worker, web>>

-----------------------------------------------------------------------------
(* The worker thread.                                                      *)

\* refreshCv.wait(...): the predicate is false, release the mutex and sleep
Park ==
    /\ wpc = "wait" /\ queue = <<>> /\ ~stopRefreshWorker
    /\ wpc' = "parked"
    /\ UNCHANGED <<queue, queuedKeys, state, engine, job, failed, web, dtor>>

SpuriousWakeup ==
    /\ wpc = "parked"
    /\ wpc' = "wait"
    /\ UNCHANGED <<queue, queuedKeys, state, engine, job, failed, web, dtor>>

ExitWhenDrained ==
    /\ wpc = "wait" /\ queue = <<>> /\ stopRefreshWorker
    /\ wpc' = "exited"
    /\ UNCHANGED <<queue, queuedKeys, state, engine, job, failed, web, dtor>>

\* Take the front job; its book may be requested again from here on.
Pop ==
    /\ wpc = "wait" /\ queue # <<>>
    /\ job' = Head(queue)
    /\ queue' = Tail(queue)
    /\ queuedKeys' = queuedKeys \ {Head(queue)}
    /\ state' = IF state[Head(queue)].present
                THEN [state EXCEPT ![Head(queue)].queued = FALSE,
                                   ![Head(queue)].inFlight = TRUE]
                ELSE state
    /\ wpc' = "alive"
    /\ UNCHANGED <<engine, failed, web, dtor>>

\* if (!aliveFlag->load()) return;
CheckAlive ==
    /\ wpc = "alive"
    /\ wpc' = IF alive THEN "try" ELSE "exited"
    /\ UNCHANGED <<queue, queuedKeys, state, engine, job, failed, web, dtor>>

\* engineMutex.try_lock(), given up at once when it succeeds
TryLock ==
    /\ wpc = "try"
    /\ wpc' = IF engine = "free" THEN "lock" ELSE "requeue"
    /\ UNCHANGED <<queue, queuedKeys, state, engine, job, failed, web, dtor>>

\* Put the job back at the end, then sleep for half a second.
Requeue ==
    /\ wpc = "requeue"
    /\ state' = IF state[job].present
                THEN [state EXCEPT ![job].queued = TRUE, ![job].inFlight = FALSE]
                ELSE state
    /\ queuedKeys' = queuedKeys \union {job}
    /\ queue' = Append(queue, job)
    /\ wpc' = "wait"
    /\ UNCHANGED <<engine, job, failed, web, dtor>>

\* getCatalogForSource locks the engine mutex again, and may have to wait now
Lock ==
    /\ wpc = "lock" /\ engine = "free"
    /\ engine' = "worker"
    /\ wpc' = "fetch"
    /\ UNCHANGED <<queue, queuedKeys, state, job, failed, web, dtor>>

\* ... and returns a catalog or throws
Fetch ==
    /\ wpc = "fetch"
    /\ engine' = "free"
    /\ failed' \in BOOLEAN
    /\ wpc' = "apply"
    /\ UNCHANGED <<queue, queuedKeys, state, job, web, dtor>>

\* The last critical section: the entry may have gone; error or not, the
\* flight is over.
Apply ==
    /\ wpc = "apply"
    /\ state' = IF state[job].present
                THEN [state EXCEPT ![job].inFlight = FALSE]
                ELSE state
    /\ wpc' = "wait"
    /\ UNCHANGED <<queue, queuedKeys, engine, job, failed, web, dtor>>

-----------------------------------------------------------------------------
(* Web threads.                                                            *)

Start(t, b, next) ==
    /\ alive /\ tpc[t] = "idle" /\ ops < MaxOps
    /\ ops' = ops + 1
    /\ book' = [book EXCEPT ![t] = b]
    /\ tpc' = [tpc EXCEPT ![t] = next]

\* openBookSession: a snapshot built from the database replaces the whole
\* entry.  A finished, fully cached book is not refreshed.
OpenBookSession(t, b) ==
    /\ \E next \in {"idle", "request"} : Start(t, b, next)
    /\ state' = [state EXCEPT ![b] = Fresh]
    /\ UNCHANGED <<queue, queuedKeys, engine, worker, dtor>>

\* requestBookRefresh, its critical section
RequestBookRefresh(t) ==
    /\ tpc[t] = "request"
    /\ LET b == book[t] IN
       IF state[b].inFlight \/ b \in queuedKeys
       THEN /\ state' = [state EXCEPT ![b].present = TRUE]
            /\ tpc' = [tpc EXCEPT ![t] = "idle"]
            /\ UNCHANGED <<queue, queuedKeys>>
       ELSE /\ state' = [state EXCEPT ![b].present = TRUE, ![b].queued = TRUE]
            /\ queuedKeys' = queuedKeys \union {b}
            /\ queue' = Append(queue, b)
            /\ tpc' = [tpc EXCEPT ![t] = "notify"]
    /\ UNCHANGED <<engine, worker, book, ops, dtor>>

\* refreshCv.notify_one(), after the mutex is released
Notify(t) ==
    /\ tpc[t] = "notify"
    /\ wpc' = IF wpc = "parked" THEN "wait" ELSE wpc
    /\ tpc' = [tpc EXCEPT ![t] = "idle"]
    /\ UNCHANGED <<queue, queuedKeys, state, engine, job, failed, book, ops, dtor>>

\* changeBookSource: after the database, the entry of the old url is erased
ChangeBookSource(t, b) ==
    /\ Start(t, b, "idle")
    /\ state' = [state EXCEPT ![b] = Absent]
    /\ UNCHANGED <<queue, queuedKeys, engine, worker, dtor>>

\* saveReadProgress, cacheBookCatalog, cacheChapterContent, downloadBook:
\* bookStates[key] makes an entry if there is none and leaves the flags alone
TouchState(t, b) ==
    /\ Start(t, b, "idle")
    /\ state' = [state EXCEPT ![b].present = TRUE]
    /\ UNCHANGED <<queue, queuedKeys, engine, worker, dtor>>

\* Any request that fetches for a source holds the engine mutex meanwhile.
UseEngine(t) ==
    /\ alive /\ tpc[t] = "idle" /\ engine = "free"
    /\ engine' = "web"
    /\ tpc' = [tpc EXCEPT ![t] = "engine"]
    /\ UNCHANGED <<queue, queuedKeys, state, worker, book, ops, dtor>>

ReleaseEngine(t) ==
    /\ tpc[t] = "engine"
    /\ engine' = "free"
    /\ tpc' = [tpc EXCEPT ![t] = "idle"]
    /\ UNCHANGED <<queue, queuedKeys, state, worker, book, ops, dtor>>

-----------------------------------------------------------------------------
(* ~Impl, once no request is left.                                         *)

Flag ==
    /\ dtor = "no" /\ \A t \in Threads : tpc[t] = "idle"
    /\ dtor' = "flagged"
    /\ UNCHANGED <<queue, queuedKeys, state, engine, worker, web>>

\* stopWorker(): stopRefreshWorker = true; notify_all()
Stop ==
    /\ dtor = "flagged"
    /\ dtor' = "stopping"
    /\ wpc' = IF wpc = "parked" THEN "wait" ELSE wpc
    /\ UNCHANGED <<queue, queuedKeys, state, engine, job, failed, web>>

\* refreshWorker.join()
JoinWorker ==
    /\ dtor = "stopping" /\ wpc = "exited"
    /\ dtor' = "gone"
    /\ UNCHANGED <<queue, queuedKeys, state, engine, worker, web>>

-----------------------------------------------------------------------------

WorkerStep ==
    \/ Park \/ ExitWhenDrained \/ Pop \/ CheckAlive \/ TryLock \/ Requeue
    \/ Lock \/ Fetch \/ Apply

\* What a thread does once it has begun.
Continue(t) == RequestBookRefresh(t) \/ Notify(t) \/ ReleaseEngine(t)

Begin(t) ==
    \/ \E b \in Books : OpenBookSession(t, b) \/ ChangeBookSource(t, b) \/ TouchState(t, b)
    \/ UseEngine(t)

Destructor == Stop \/ JoinWorker

RefreshOver == dtor = "gone" /\ UNCHANGED refreshVars

RefreshNext ==
    \/ WorkerStep
    \/ SpuriousWakeup
    \/ \E t \in Threads : Begin(t) \/ Continue(t)
    \/ Flag
    \/ Destructor
    \/ RefreshOver

\* Threads that have begun go on and a fetch ends (requests have timeouts).
\* Requests need not come, and they may keep coming.
RefreshFairness ==
    /\ WF_refreshVars(WorkerStep)
    /\ \A t \in Threads : WF_refreshVars(Continue(t))
    /\ WF_refreshVars(Destructor)

RefreshSpec == RefreshInit /\ [][RefreshNext]_refreshVars /\ RefreshFairness

-----------------------------------------------------------------------------
(* Properties.                                                             *)

\* The de-duplication never swallows a request: while a key blocks further
\* requests for a book, a job for that book really is in the queue.
QueuedKeyHasJob == \A b \in queuedKeys : Pending(b)

\* A book that says it is being refreshed is the worker's current job: no
\* error, requeue or source change leaves the flag behind.  (A job that the
\* destructor cut off is the exception.)
InFlightIsCurrent ==
    \A b \in Books : state[b].inFlight => Processing(b) \/ (job = b /\ wpc = "exited")

\* The worker only updates entries; a book whose source was changed while its
\* job was queued or under way does not come back.
WorkerCreatesNoEntry ==
    [][WorkerStep => \A b \in Books : state'[b].present => state[b].present]_refreshVars

\* If the web threads leave the engine mutex alone from some time on, every
\* queued job is fetched, unless the engine is destroyed first.
QueuedJobIsFetched ==
    <>[](engine # "web") =>
        \A b \in Books : Pending(b) ~> (wpc = "fetch" /\ job = b) \/ ~alive

\* The destructor ends, whatever is in the queue.
DestructorEnds == (dtor = "flagged") ~> (dtor = "gone")

\* types.h:326-327 on the public snapshot: refreshQueued says "whether it is in
\* the background refresh queue", refreshInFlight "whether it is being refreshed".
SnapshotFlagsAreTrue ==
    \A b \in Books : state[b].present =>
        /\ state[b].queued <=> Pending(b)
        /\ state[b].inFlight <=> Processing(b)
=============================================================================

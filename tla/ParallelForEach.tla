-------------------------- MODULE ParallelForEach --------------------------
(***************************************************************************)
(* detail::parallelForEach (include/ariaread/parallel.h), the fork/join    *)
(* helper under concurrent search, download, source validation and RSS     *)
(* refresh.  One behaviour is one call: the caller clamps the concurrency, *)
(* spawns the workers one after the other, each worker claims indexes from *)
(* an atomic counter until the counter runs out or the cancel predicate is *)
(* true, and the caller joins them all.                                    *)
(*                                                                         *)
(* With one worker the code runs the same loop on the caller's thread; the *)
(* interleavings are those of a single spawned worker.  A body is a single *)
(* Begin/End pair: what it does is the business of the modules that use    *)
(* this one.  The cancel predicates of all callers are monotone (a flag    *)
(* that is never reset, a deadline that has passed), so cancelled is.      *)
(***************************************************************************)
EXTENDS Integers, FiniteSets

CONSTANTS Counts,         \* the numbers of tasks a call is made with
          Concurrencies   \* the concurrency arguments; any int is accepted

ASSUME CallArguments ==
    /\ Counts \subseteq Nat
    /\ Concurrencies \subseteq Int

VARIABLES count,        \* the call's arguments
          concurrency,
          phase,        \* the caller: "called", "spawning", "joining", "returned"
          next,         \* std::atomic<size_t> next
          spawned,      \* workers.size()
          pc,           \* each worker: where it is in its loop
          item,         \* each worker: the index i of its last claim
          cancelled,    \* what cancel() answers
          runs,         \* how often body(i) was entered, for every index
          late          \* bodies each worker entered after cancelled became true

args == <<count, concurrency>>
history == <<runs, late>>
vars == <<args, phase, next, spawned, pc, item, cancelled, history>>

ClampedConcurrency == IF concurrency <= 0 THEN 1 ELSE concurrency

ThreadCount == IF ClampedConcurrency <= count THEN ClampedConcurrency ELSE count

Workers == 1 .. ThreadCount
Indexes == 0 .. count - 1
AllIndexes == UNION {0 .. c - 1 : c \in Counts}

PCs == {"none", "check", "claim", "body", "recheck", "exited"}

\* The range of every variable.
TypeOK ==
    /\ count \in Counts
    /\ concurrency \in Concurrencies
    /\ phase \in {"called", "spawning", "joining", "returned"}
    /\ next \in Nat
    /\ spawned \in 0 .. ThreadCount
    /\ pc \in [Workers -> PCs]
    /\ item \in [Workers -> Nat]
    /\ cancelled \in BOOLEAN
    /\ runs \in [Indexes -> Nat]
    /\ late \in [Workers -> Nat]

Init ==
    /\ count \in Counts
    /\ concurrency \in Concurrencies
    /\ phase = "called"
    /\ next = 0
    /\ spawned = 0
    /\ pc = [w \in Workers |-> "none"]
    /\ item = [w \in Workers |-> 0]
    /\ cancelled = FALSE
    /\ runs = [i \in Indexes |-> 0]
    /\ late = [w \in Workers |-> 0]

-----------------------------------------------------------------------------
(* Faulty variants of the operations below.  No specification uses them;   *)
(* each shows that a property can tell the code from a plausible mistake.  *)

\* The caller waits for one worker only.
ReturnAfterFirstJoin ==
    /\ phase = "joining"
    /\ pc[1] = "exited"
    /\ phase' = "returned"
    /\ UNCHANGED <<args, next, spawned, pc, item, cancelled, history>>

\* A claim by load and store: a worker may act on the value before the last claim.
ClaimStale(w) ==
    /\ pc[w] = "claim"
    /\ \E i \in {next, next - 1} \intersect Indexes :
         /\ item' = [item EXCEPT ![w] = i]
         /\ next' = i + 1
         /\ pc' = [pc EXCEPT ![w] = "body"]
         /\ runs' = [runs EXCEPT ![i] = @ + 1]
         /\ UNCHANGED late
    /\ UNCHANGED <<args, phase, spawned, cancelled>>

\* An index past the end is not recognised: the worker goes round again.
ClaimForever(w) ==
    /\ pc[w] = "claim"
    /\ pc' = [pc EXCEPT ![w] = IF next >= count THEN "check" ELSE "body"]
    /\ item' = [item EXCEPT ![w] = next]
    /\ next' = IF next >= count THEN next ELSE next + 1
    /\ IF next >= count
       THEN UNCHANGED history
       ELSE /\ runs' = [runs EXCEPT ![next] = @ + 1]
            /\ UNCHANGED late
    /\ UNCHANGED <<args, phase, spawned, cancelled>>

\* cancel() is asked once, before the loop, and not per task.
NoRecheck(w) ==
    /\ pc[w] = "recheck"
    /\ pc' = [pc EXCEPT ![w] = "claim"]
    /\ UNCHANGED <<args, phase, next, spawned, item, cancelled, history>>

\* The spawning loop runs once too often.
SpawnOneMore ==
    /\ phase = "spawning"
    /\ spawned <= ThreadCount
    /\ spawned' = spawned + 1
    /\ pc' = [pc EXCEPT ![spawned + 1] = "check"]
    /\ UNCHANGED <<args, phase, next, item, cancelled, history>>

-----------------------------------------------------------------------------
(* The caller's thread.                                                    *)

\* if (count == 0) return;
CallEmpty ==
    /\ phase = "called"
    /\ count = 0
    /\ phase' = "returned"
    /\ UNCHANGED <<args, next, spawned, pc, item, cancelled, history>>

Call ==
    /\ phase = "called"
    /\ count > 0
    /\ phase' = "spawning"
    /\ UNCHANGED <<args, next, spawned, pc, item, cancelled, history>>

\* workers.emplace_back(worker): the new thread competes at once.
Spawn ==
    /\ phase = "spawning"
    /\ spawned < ThreadCount
    /\ spawned' = spawned + 1
    /\ pc' = [pc EXCEPT ![spawned + 1] = "check"]
    /\ UNCHANGED <<args, phase, next, item, cancelled, history>>

StartJoining ==
    /\ phase = "spawning"
    /\ spawned = ThreadCount
    /\ phase' = "joining"
    /\ UNCHANGED <<args, next, spawned, pc, item, cancelled, history>>

\* join() of every worker has returned.
Return ==
    /\ phase = "joining"
    /\ \A w \in Workers : pc[w] = "exited"
    /\ phase' = "returned"
    /\ UNCHANGED <<args, next, spawned, pc, item, cancelled, history>>

\* The caller's predicate turns true, at any moment of the call.
Cancel ==
    /\ phase # "returned"
    /\ ~cancelled
    /\ cancelled' = TRUE
    /\ UNCHANGED <<args, phase, next, spawned, pc, item, history>>

-----------------------------------------------------------------------------
(* One worker's loop.                                                      *)

\* if (cancel && cancel()) break;   before the claim
CheckBefore(w) ==
    /\ pc[w] = "check"
    /\ pc' = [pc EXCEPT ![w] = IF cancelled THEN "exited" ELSE "claim"]
    /\ UNCHANGED <<args, phase, next, spawned, item, cancelled, history>>

\* i = next.fetch_add(1); if (i >= count) break; body(i) begins
Claim(w) ==
    /\ pc[w] = "claim"
    /\ item' = [item EXCEPT ![w] = next]
    /\ next' = next + 1
    /\ IF next >= count
       THEN /\ pc' = [pc EXCEPT ![w] = "exited"]
            /\ UNCHANGED history
       ELSE /\ pc' = [pc EXCEPT ![w] = "body"]
            /\ runs' = [runs EXCEPT ![next] = @ + 1]
            /\ late' = [late EXCEPT ![w] = @ + (IF cancelled THEN 1 ELSE 0)]
    /\ UNCHANGED <<args, phase, spawned, cancelled>>

\* body(i) ends.  It returned or it threw: catch (...) { } makes them the same.
BodyEnds(w) ==
    /\ pc[w] = "body"
    /\ pc' = [pc EXCEPT ![w] = "recheck"]
    /\ UNCHANGED <<args, phase, next, spawned, item, cancelled, history>>

\* if (cancel && cancel()) break;   after the task
CheckAfter(w) ==
    /\ pc[w] = "recheck"
    /\ pc' = [pc EXCEPT ![w] = IF cancelled THEN "exited" ELSE "check"]
    /\ UNCHANGED <<args, phase, next, spawned, item, cancelled, history>>

-----------------------------------------------------------------------------

Worker(w) == CheckBefore(w) \/ Claim(w) \/ BodyEnds(w) \/ CheckAfter(w)

Caller == CallEmpty \/ Call \/ Spawn \/ StartJoining \/ Return

SomeWorker == \E w \in Workers : Worker(w)

\* The call is over; nothing of it is left.
Over == phase = "returned" /\ UNCHANGED vars

Next == Caller \/ Cancel \/ SomeWorker \/ Over

\* The scheduler runs every thread, and a body ends sooner or later: the bodies
\* are network requests with a timeout.  Nobody is obliged to cancel.
Spec == Init /\ [][Next]_vars /\ WF_vars(Caller) /\ WF_vars(SomeWorker)

-----------------------------------------------------------------------------
(* Properties.                                                             *)

\* The bodies that were entered are exactly an initial segment of the indexes,
\* each entered once: fetch_add hands every index to one worker, and a
\* cancelled call leaves no hole below a task that did run.
EnteredOncePrefix == \A i \in Indexes : runs[i] = IF i < next THEN 1 ELSE 0

\* "running tasks are not interrupted, no new one is claimed" (parallel.h:19):
\* a worker that has passed its check when the predicate turns true may still
\* enter one body, and never a second one.
AtMostOneLateBody == \A w \in Workers : late[w] <= 1

\* The batch this call implements: the refinement mapping forgets the threads.
Running == {item[w] : w \in {v \in Workers : pc[v] = "body"}}
Entered == {i \in Indexes : runs[i] > 0}

Batch == INSTANCE TaskBatch
    WITH Tasks <- AllIndexes,
         pending <- Indexes \ Entered,
         running <- Running,
         done <- Entered \ Running,
         returned <- phase = "returned"

\* parallelForEach blocks until every task is over, and leaves none undone
\* unless it was cancelled: each of its steps is a step of the abstract batch.
ImplementsBatch == Batch!Spec

\* Every call returns, cancelled or not, whatever its bodies throw.
EventuallyReturns == <>(phase = "returned")
=============================================================================

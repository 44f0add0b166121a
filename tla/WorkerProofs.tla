---------------------------- MODULE WorkerProofs ----------------------------
(***************************************************************************)
(* The threads of the program's own.  For every number of tasks and every  *)
(* concurrency argument of ParallelForEach: the type invariant, "every     *)
(* index at most once and no hole", "one late body at most per worker",    *)
(* and that a call implements the abstract TaskBatch.                      *)
(*                                                                         *)
(* For any books, any web threads and any number of operations of          *)
(* RefreshWorker: a key that blocks requests has its job, the in-flight    *)
(* flag names the worker's job, and the worker brings no forgotten book    *)
(* back.                                                                   *)
(***************************************************************************)
EXTENDS ParallelForEach, RefreshWorker, TLAPS

-----------------------------------------------------------------------------
(* ParallelForEach. *)

\* A worker in its body holds an index that was handed out, and no other
\* worker holds the same one.
ClaimsDistinct ==
    /\ \A w \in Workers : pc[w] = "body" => item[w] \in Indexes /\ item[w] < next
    /\ \A w, v \in Workers :
         pc[w] = "body" /\ pc[v] = "body" /\ w # v => item[w] # item[v]

\* Nobody stops early: a worker has exited because of the predicate or because
\* the counter ran out, and the caller has returned because all have exited.
StopsForAReason ==
    /\ \A w \in Workers : pc[w] = "exited" => cancelled \/ next >= count
    /\ phase = "returned" => \A w \in Workers : pc[w] = "exited"
    /\ phase \in {"spawning", "joining"} => count > 0
    /\ \A w \in Workers : w > spawned => pc[w] = "none"

\* A body entered after the predicate turned true is its worker's last.
LateIsLast ==
    \A w \in Workers :
        /\ late[w] \in 0 .. 1
        /\ late[w] = 1 => cancelled /\ pc[w] \in {"body", "recheck", "exited"}

IInv == TypeOK /\ EnteredOncePrefix /\ ClaimsDistinct /\ StopsForAReason /\ LateIsLast

\* What a worker's loop is made of, for any numbers of tasks and workers.
LEMMA CountsAreNumbers ==
    ASSUME TypeOK
    PROVE  /\ count \in Nat /\ concurrency \in Int /\ ThreadCount \in Nat
           /\ ThreadCount <= count
           /\ count > 0 => 1 \in Workers
BY CallArguments DEF TypeOK, ThreadCount, ClampedConcurrency, Workers

LEMMA InitInvariant == Init => IInv
<1> SUFFICES ASSUME Init PROVE IInv
  OBVIOUS
<1>1. count \in Nat /\ concurrency \in Int /\ ThreadCount \in Nat
  BY CallArguments DEF Init, ThreadCount, ClampedConcurrency
<1>2. TypeOK
  <2>1. spawned \in 0 .. ThreadCount
    BY <1>1 DEF Init
  <2>2. pc \in [Workers -> PCs] /\ item \in [Workers -> Nat] /\ late \in [Workers -> Nat]
    BY DEF Init, PCs
  <2>3. runs \in [Indexes -> Nat]
    BY DEF Init
  <2> QED
    BY <2>1, <2>2, <2>3 DEF Init, TypeOK
<1>3. EnteredOncePrefix /\ ClaimsDistinct /\ StopsForAReason /\ LateIsLast
  BY <1>1 DEF Init, EnteredOncePrefix, ClaimsDistinct, StopsForAReason, LateIsLast,
              Indexes, Workers
<1> QED
  BY <1>2, <1>3 DEF IInv


\* The arguments of the call never change, so neither do the sets made of them.
LEMMA ArgumentsFixed ==
    ASSUME UNCHANGED args
    PROVE  Workers' = Workers /\ Indexes' = Indexes /\ ThreadCount' = ThreadCount
BY DEF args, Workers, Indexes, ThreadCount, ClampedConcurrency

LEMMA NextInvariant == IInv /\ [Next]_vars => IInv'
<1> SUFFICES ASSUME IInv, [Next]_vars PROVE IInv'
  OBVIOUS
<1> USE DEF IInv, args, history
<1>a. /\ count \in Nat /\ concurrency \in Int /\ ThreadCount \in Nat
      /\ count > 0 => 1 \in Workers
  BY CountsAreNumbers
<1>b. UNCHANGED args
  BY DEF Next, Caller, CallEmpty, Call, Spawn, StartJoining, Return, Cancel, SomeWorker,
         Worker, CheckBefore, Claim, BodyEnds, CheckAfter, Over, vars
<1>c. Workers' = Workers /\ Indexes' = Indexes /\ ThreadCount' = ThreadCount
  BY <1>b, ArgumentsFixed
<1>1. CASE CallEmpty
  BY <1>a, <1>c, <1>1 DEF CallEmpty, TypeOK, EnteredOncePrefix, ClaimsDistinct,
     StopsForAReason, LateIsLast, Workers, ThreadCount, ClampedConcurrency
<1>2. CASE Call
  BY <1>a, <1>c, <1>2 DEF Call, TypeOK, EnteredOncePrefix, ClaimsDistinct,
     StopsForAReason, LateIsLast
<1>3. CASE Spawn
  <2>1. spawned + 1 \in Workers
    BY <1>a, <1>3 DEF Spawn, TypeOK, Workers
  <2>2. TypeOK'
    BY <1>a, <1>3, <1>c, <2>1 DEF Spawn, TypeOK, PCs
  <2>3. pc[spawned + 1] = "none"
    BY <1>a, <1>3, <2>1 DEF Spawn, TypeOK, StopsForAReason
  <2>4. EnteredOncePrefix' /\ ClaimsDistinct' /\ LateIsLast'
    BY <1>a, <1>3, <1>c, <2>1, <2>3 DEF Spawn, TypeOK, EnteredOncePrefix, ClaimsDistinct,
       LateIsLast
  <2>5. StopsForAReason'
    BY <1>a, <1>3, <1>c, <2>1, <2>3 DEF Spawn, TypeOK, StopsForAReason, Workers
  <2> QED
    BY <2>2, <2>4, <2>5
<1>4. CASE StartJoining
  BY <1>a, <1>c, <1>4 DEF StartJoining, TypeOK, EnteredOncePrefix, ClaimsDistinct,
     StopsForAReason, LateIsLast
<1>5. CASE Return
  BY <1>a, <1>c, <1>5 DEF Return, TypeOK, EnteredOncePrefix, ClaimsDistinct,
     StopsForAReason, LateIsLast
<1>6. CASE Cancel
  BY <1>a, <1>c, <1>6 DEF Cancel, TypeOK, EnteredOncePrefix, ClaimsDistinct,
     StopsForAReason, LateIsLast
<1>7. ASSUME NEW w \in Workers, CheckBefore(w) PROVE IInv'
  BY <1>a, <1>c, <1>7 DEF CheckBefore, TypeOK, PCs, EnteredOncePrefix, ClaimsDistinct,
     StopsForAReason, LateIsLast
<1>8. ASSUME NEW w \in Workers, Claim(w) PROVE IInv'
  <2>1. CASE next >= count
    <3>1. TypeOK'
      BY <1>a, <1>c, <1>8, <2>1 DEF Claim, TypeOK, PCs
    <3>2. EnteredOncePrefix'
      BY <1>a, <1>c, <1>8, <2>1 DEF Claim, TypeOK, EnteredOncePrefix, Indexes
    <3>3. ClaimsDistinct'
      BY <1>a, <1>c, <1>8, <2>1 DEF Claim, TypeOK, ClaimsDistinct
    <3>4. StopsForAReason'
      BY <1>a, <1>c, <1>8, <2>1 DEF Claim, TypeOK, StopsForAReason
    <3>5. LateIsLast'
      BY <1>a, <1>c, <1>8, <2>1 DEF Claim, TypeOK, LateIsLast
    <3> QED
      BY <3>1, <3>2, <3>3, <3>4, <3>5
  <2>2. CASE next < count
    <3>1. TypeOK'
      <4>1. next' \in Nat /\ item' \in [Workers -> Nat] /\ pc' \in [Workers -> PCs]
        BY <1>a, <1>8, <2>2 DEF Claim, TypeOK, PCs
      <4>2. runs' \in [Indexes -> Nat]
        BY <1>a, <1>8, <2>2 DEF Claim, TypeOK
      <4>3. late' \in [Workers -> Nat]
        BY <1>a, <1>8, <2>2 DEF Claim, TypeOK
      <4> QED
        BY <1>c, <1>8, <4>1, <4>2, <4>3 DEF Claim, TypeOK
    <3>2. EnteredOncePrefix'
      BY <1>a, <1>c, <1>8, <2>2 DEF Claim, TypeOK, EnteredOncePrefix, Indexes
    <3>3. ClaimsDistinct'
      <4>1. ~(next >= count) /\ next \in Indexes
        BY <1>a, <2>2 DEF TypeOK, Indexes
      <4>2. pc' = [pc EXCEPT ![w] = "body"] /\ item' = [item EXCEPT ![w] = next]
            /\ next' = next + 1
        BY <1>8, <4>1 DEF Claim
      <4>3. \A v \in Workers : pc'[v] = "body" =>
              \/ v = w /\ item'[v] = next
              \/ v # w /\ pc[v] = "body" /\ item'[v] = item[v]
        BY <4>2 DEF TypeOK
      <4> QED
        BY <1>c, <4>1, <4>2, <4>3 DEF TypeOK, ClaimsDistinct
    <3>4. StopsForAReason'
      BY <1>a, <1>c, <1>8, <2>2 DEF Claim, TypeOK, StopsForAReason
    <3>5. LateIsLast'
      BY <1>a, <1>c, <1>8, <2>2 DEF Claim, TypeOK, LateIsLast
    <3> QED
      BY <3>1, <3>2, <3>3, <3>4, <3>5
  <2> QED
    BY <1>a, <2>1, <2>2 DEF TypeOK
<1>9. ASSUME NEW w \in Workers, BodyEnds(w) PROVE IInv'
  BY <1>a, <1>c, <1>9 DEF BodyEnds, TypeOK, PCs, EnteredOncePrefix, ClaimsDistinct,
     StopsForAReason, LateIsLast
<1>10. ASSUME NEW w \in Workers, CheckAfter(w) PROVE IInv'
  BY <1>a, <1>c, <1>10 DEF CheckAfter, TypeOK, PCs, EnteredOncePrefix, ClaimsDistinct,
     StopsForAReason, LateIsLast
<1>11. CASE UNCHANGED vars
  BY <1>c, <1>11 DEF vars, TypeOK, EnteredOncePrefix, ClaimsDistinct, StopsForAReason, LateIsLast
<1> QED
  BY <1>1, <1>2, <1>3, <1>4, <1>5, <1>6, <1>7, <1>8, <1>9, <1>10, <1>11
     DEF Next, Caller, SomeWorker, Worker, Over

\* The inductive invariant: what the two theorems and the refinement follow from.
LEMMA Invariant == Spec => []IInv
<1> QED
  BY InitInvariant, NextInvariant, PTL DEF Spec

\* Every variable of the call stays in its range, for every call.
THEOREM TypeCorrect == Spec => []TypeOK
<1>1. IInv => TypeOK
  BY DEF IInv
<1> QED
  BY Invariant, <1>1, PTL

\* The atomic counter hands out every index at most once and leaves no hole,
\* whatever the number of workers and whenever the call is cancelled.
THEOREM EachIndexOnce == Spec => []EnteredOncePrefix
<1>1. IInv => EnteredOncePrefix
  BY DEF IInv
<1> QED
  BY Invariant, <1>1, PTL

\* After the predicate turned true a worker enters one more body at most.
THEOREM LateBodiesBounded == Spec => []AtMostOneLateBody
<1>1. IInv => AtMostOneLateBody
  BY DEF IInv, LateIsLast, AtMostOneLateBody
<1> QED
  BY Invariant, <1>1, PTL

-----------------------------------------------------------------------------
(* The refinement.                                                         *)

LEMMA InitRefines == Init => Batch!Init
<1> SUFFICES ASSUME Init PROVE Batch!Init
  OBVIOUS
<1>1. Entered = {} /\ Running = {}
  BY DEF Init, Entered, Running
<1>2. Indexes \in SUBSET AllIndexes
  BY DEF Init, Indexes, AllIndexes
<1> QED
  BY <1>1, <1>2 DEF Init, Batch!Init

LEMMA StepRefines == IInv /\ [Next]_vars => [Batch!Next]_Batch!batchVars
<1> SUFFICES ASSUME IInv, [Next]_vars PROVE [Batch!Next]_Batch!batchVars
  OBVIOUS
<1> USE DEF IInv, args, history
<1>a. /\ count \in Nat /\ concurrency \in Int /\ ThreadCount \in Nat
      /\ count > 0 => 1 \in Workers
  BY CountsAreNumbers
<1>b. UNCHANGED args
  BY DEF Next, Caller, CallEmpty, Call, Spawn, StartJoining, Return, Cancel, SomeWorker,
         Worker, CheckBefore, Claim, BodyEnds, CheckAfter, Over, vars
<1>c. Workers' = Workers /\ Indexes' = Indexes
  BY <1>b, ArgumentsFixed
<1>d. Indexes \subseteq AllIndexes
  BY DEF TypeOK, Indexes, AllIndexes
\* A step that moves no worker into or out of a body and enters nothing stutters.
<1>e. ASSUME UNCHANGED <<runs, item, cancelled>>,
             \A w \in Workers : (pc'[w] = "body") <=> (pc[w] = "body"),
             (phase' = "returned") <=> (phase = "returned")
      PROVE  UNCHANGED Batch!batchVars
  BY <1>c, <1>e DEF Batch!batchVars, Running, Entered
<1>1. CASE CallEmpty
  <2>1. Running = {} /\ Indexes = {}
    BY <1>a, <1>1 DEF CallEmpty, Running, Indexes, Workers, ThreadCount, ClampedConcurrency
  <2>2. Batch!Return
    BY <1>1, <1>c, <2>1 DEF CallEmpty, Batch!Return, Running, Entered
  <2> QED
    BY <2>2 DEF Batch!Next
<1>2. CASE Call
  BY <1>2, <1>e DEF Call
<1>3. CASE Spawn
  <2>1. spawned + 1 \in Workers /\ pc[spawned + 1] # "body"
    BY <1>a, <1>3 DEF Spawn, TypeOK, Workers, StopsForAReason
  <2> QED
    BY <1>3, <1>e, <2>1 DEF Spawn, TypeOK
<1>4. CASE StartJoining
  BY <1>4, <1>e DEF StartJoining
<1>5. CASE Return
  <2>1. Running = {}
    BY <1>5 DEF Return, Running
  <2>2. Indexes \ Entered = {} \/ cancelled
    BY <1>a, <1>5 DEF Return, StopsForAReason, EnteredOncePrefix, Entered, Indexes, TypeOK
  <2>3. Batch!Return
    BY <1>5, <1>c, <2>1, <2>2 DEF Return, Batch!Return, Running, Entered
  <2> QED
    BY <2>3 DEF Batch!Next
<1>6. CASE Cancel
  BY <1>6, <1>c DEF Cancel, Batch!Cancel, Batch!Next, Running, Entered
<1>7. ASSUME NEW w \in Workers, CheckBefore(w) PROVE UNCHANGED Batch!batchVars
  BY <1>7, <1>e DEF CheckBefore, TypeOK
<1>8. ASSUME NEW w \in Workers, Claim(w) PROVE [Batch!Next]_Batch!batchVars
  <2>1. CASE next >= count
    BY <1>8, <1>c, <2>1 DEF Claim, TypeOK, Batch!batchVars, Running, Entered
  <2>2. CASE next < count
    <3>1. next \in Indexes \ Entered
      BY <1>a, <2>2 DEF TypeOK, Indexes, EnteredOncePrefix, Entered
    <3>2. Entered' = Entered \union {next}
      <4>1. runs' = [runs EXCEPT ![next] = @ + 1]
        BY <1>8, <1>a, <2>2 DEF Claim, TypeOK
      <4> QED
        BY <1>c, <3>1, <4>1 DEF TypeOK, Entered
    <3>3. Running' = Running \union {next}
      <4>1. /\ ~(next >= count)
            /\ pc[w] = "claim"
            /\ pc' = [pc EXCEPT ![w] = "body"]
            /\ item' = [item EXCEPT ![w] = next]
        BY <1>8, <1>a, <2>2 DEF Claim, TypeOK
      <4> QED
        BY <1>c, <4>1 DEF TypeOK, Running
    <3>4. Running \subseteq Entered
      BY <1>a DEF Running, Entered, ClaimsDistinct, EnteredOncePrefix
    <3>5. phase # "returned"
      BY <1>8 DEF Claim, StopsForAReason
    <3>6. Batch!Start(next)
      BY <1>8, <1>c, <2>2, <3>1, <3>2, <3>3, <3>4, <3>5 DEF Claim, Batch!Start
    <3> QED
      BY <1>d, <3>1, <3>6 DEF Batch!Next
  <2> QED
    BY <1>a, <2>1, <2>2 DEF TypeOK
<1>9. ASSUME NEW w \in Workers, BodyEnds(w) PROVE Batch!Next
  <2>1. item[w] \in Indexes /\ item[w] \in Running
    BY <1>9 DEF BodyEnds, ClaimsDistinct, Running
  <2>2. Running' = Running \ {item[w]}
    BY <1>9, <1>c DEF BodyEnds, TypeOK, Running, ClaimsDistinct
  <2>3. Entered' = Entered /\ item[w] \in Entered
    BY <1>9, <1>a, <1>c, <2>1 DEF BodyEnds, Entered, ClaimsDistinct, EnteredOncePrefix
  <2>4. Batch!Finish(item[w])
    BY <1>9, <1>c, <2>1, <2>2, <2>3 DEF BodyEnds, Batch!Finish
  <2> QED
    BY <1>d, <2>1, <2>4 DEF Batch!Next
<1>10. ASSUME NEW w \in Workers, CheckAfter(w) PROVE UNCHANGED Batch!batchVars
  BY <1>10, <1>e DEF CheckAfter, TypeOK
<1>11. CASE UNCHANGED vars
  BY <1>11, <1>e DEF vars
<1> QED
  BY <1>1, <1>2, <1>3, <1>4, <1>5, <1>6, <1>7, <1>8, <1>9, <1>10, <1>11
     DEF Next, Caller, SomeWorker, Worker, Over

\* A call of parallelForEach is a TaskBatch: it blocks until nothing runs, and
\* leaves a task undone only when it was cancelled.
THEOREM CallImplementsBatch == Spec => ImplementsBatch
<1> QED
  BY InitRefines, StepRefines, Invariant, PTL DEF Spec, ImplementsBatch, Batch!Spec

-----------------------------------------------------------------------------
(* RefreshWorker. *)

\* A book without an entry has no flags that a new entry could inherit.
AbsentHasNoFlags == \A b \in Books : ~state[b].present => state[b] = Absent

\* The engine mutex excludes the web threads from each other.
EngineHeldOnce ==
    \A t, u \in Threads : tpc[t] = "engine" /\ tpc[u] = "engine" => t = u

RefreshInv ==
    /\ RefreshTypeOK
    /\ AbsentHasNoFlags
    /\ EngineHeldOnce
    /\ QueuedKeyHasJob
    /\ InFlightIsCurrent

\* The entries of the other books, and the type of the table, survive an update.
LEMMA UpdateEntry ==
  ASSUME RefreshTypeOK, NEW c \in Books,
         NEW r \in [present : BOOLEAN, queued : BOOLEAN, inFlight : BOOLEAN]
  PROVE  /\ [state EXCEPT ![c] = r]
                \in [Books -> [present : BOOLEAN, queued : BOOLEAN, inFlight : BOOLEAN]]
         /\ [state EXCEPT ![c] = r][c] = r
         /\ \A b \in Books \ {c} : [state EXCEPT ![c] = r][b] = state[b]
  BY DEF RefreshTypeOK

\* Appending a job keeps the pending ones and makes its book pending.
LEMMA AppendJob ==
  ASSUME queue \in Seq(Books), NEW c \in Books, queue' = Append(queue, c)
  PROVE  /\ queue' \in Seq(Books)
         /\ \A b \in Books : Pending(b) => Pending(b)'
         /\ Pending(c)'
<1>1. /\ queue' \in Seq(Books)
      /\ Len(queue') = Len(queue) + 1
      /\ \A i \in 1 .. Len(queue) : queue'[i] = queue[i]
      /\ queue'[Len(queue) + 1] = c
  OBVIOUS
<1> QED
  BY <1>1 DEF Pending

LEMMA RefreshInitInv == RefreshInit => RefreshInv
<1> SUFFICES ASSUME RefreshInit PROVE RefreshInv
  OBVIOUS
<1>1. RefreshTypeOK
  <2>1. <<>> \in Seq(Books) /\ 0 \in 0 .. MaxOps /\ wpc \in WorkerPCs
    BY OpsBound DEF RefreshInit, WorkerPCs
  <2>2. state \in [Books -> [present : BOOLEAN, queued : BOOLEAN, inFlight : BOOLEAN]]
    BY DEF RefreshInit, Absent
  <2> QED
    BY <2>1, <2>2 DEF RefreshInit, RefreshTypeOK
<1>2. AbsentHasNoFlags /\ EngineHeldOnce /\ QueuedKeyHasJob /\ InFlightIsCurrent
  BY DEF RefreshInit, AbsentHasNoFlags, EngineHeldOnce, QueuedKeyHasJob, InFlightIsCurrent, Absent
<1> QED
  BY <1>1, <1>2 DEF RefreshInv

\* The worker's steps that leave queue, keys and entries alone.
LEMMA QuietWorkerSteps ==
  ASSUME RefreshInv,
         \/ Park \/ SpuriousWakeup \/ ExitWhenDrained \/ CheckAlive \/ TryLock
         \/ Lock \/ Fetch
  PROVE  RefreshInv'
<1> USE DEF RefreshInv, worker, web
<1>1. UNCHANGED <<queue, queuedKeys, state, job, web, dtor>>
  BY DEF Park, SpuriousWakeup, ExitWhenDrained, CheckAlive, TryLock, Lock, Fetch
<1>2. RefreshTypeOK'
  BY DEF Park, SpuriousWakeup, ExitWhenDrained, CheckAlive, TryLock, Lock, Fetch,
     RefreshTypeOK, WorkerPCs
<1>3. AbsentHasNoFlags' /\ EngineHeldOnce' /\ QueuedKeyHasJob'
  BY <1>1 DEF AbsentHasNoFlags, EngineHeldOnce, QueuedKeyHasJob, Pending, Absent
<1>4. InFlightIsCurrent'
  BY <1>1 DEF Park, SpuriousWakeup, ExitWhenDrained, CheckAlive, TryLock, Lock, Fetch,
     InFlightIsCurrent, Processing
<1> QED
  BY <1>2, <1>3, <1>4

LEMMA PopStep == ASSUME RefreshInv, Pop PROVE RefreshInv'
<1> USE DEF RefreshInv, worker, web
<1> DEFINE h == Head(queue)
           r == [state[h] EXCEPT !.queued = FALSE, !.inFlight = TRUE]
<1>1. h \in Books /\ Tail(queue) \in Seq(Books)
  BY DEF Pop, RefreshTypeOK
<1>2. /\ job' = h
      /\ queue' = Tail(queue)
      /\ queuedKeys' = queuedKeys \ {h}
      /\ state' = IF state[h].present THEN [state EXCEPT ![h] = r] ELSE state
      /\ wpc = "wait" /\ wpc' = "alive"
      /\ UNCHANGED <<engine, failed, tpc, book, ops, dtor>>
  BY <1>1 DEF Pop, RefreshTypeOK
<1>3. r \in [present : BOOLEAN, queued : BOOLEAN, inFlight : BOOLEAN]
      /\ r.present = state[h].present
  BY <1>1 DEF RefreshTypeOK
<1>4. /\ [state EXCEPT ![h] = r]
                \in [Books -> [present : BOOLEAN, queued : BOOLEAN, inFlight : BOOLEAN]]
      /\ [state EXCEPT ![h] = r][h] = r
      /\ \A b \in Books \ {h} : [state EXCEPT ![h] = r][b] = state[b]
  BY <1>1, <1>3, UpdateEntry
<1> HIDE DEF r
<1>5. RefreshTypeOK'
  BY <1>1, <1>2, <1>4 DEF RefreshTypeOK, WorkerPCs
<1>6. AbsentHasNoFlags'
  BY <1>1, <1>2, <1>3, <1>4 DEF AbsentHasNoFlags, Absent
<1>7. QueuedKeyHasJob'
  <2>1. SUFFICES ASSUME NEW b \in queuedKeys, b # h PROVE Pending(b)'
    BY <1>2 DEF QueuedKeyHasJob
  <2>2. PICK i \in 1 .. Len(queue) : queue[i] = b
    BY DEF QueuedKeyHasJob, Pending
  <2>3. i # 1 /\ queue # <<>> /\ queue \in Seq(Books)
    BY <2>1, <2>2 DEF RefreshTypeOK, Pop
  <2>4. Len(queue') = Len(queue) - 1 /\ queue'[i - 1] = queue[i]
    BY <1>2, <2>3
  <2>5. i - 1 \in 1 .. Len(queue')
    BY <2>2, <2>3, <2>4
  <2> QED
    BY <2>2, <2>4, <2>5 DEF Pending
<1>8. InFlightIsCurrent'
  BY <1>1, <1>2, <1>4 DEF InFlightIsCurrent, Processing
<1>9. EngineHeldOnce'
  BY <1>2 DEF EngineHeldOnce
<1> QED
  BY <1>5, <1>6, <1>7, <1>8, <1>9

LEMMA RequeueStep == ASSUME RefreshInv, Requeue PROVE RefreshInv'
<1> USE DEF RefreshInv, worker, web
<1> DEFINE r == [state[job] EXCEPT !.queued = TRUE, !.inFlight = FALSE]
<1>1. job \in Books /\ queue \in Seq(Books)
  BY DEF RefreshTypeOK
<1>2. /\ queue' = Append(queue, job)
      /\ queuedKeys' = queuedKeys \union {job}
      /\ state' = IF state[job].present THEN [state EXCEPT ![job] = r] ELSE state
      /\ wpc = "requeue" /\ wpc' = "wait"
      /\ UNCHANGED <<engine, job, failed, tpc, book, ops, dtor>>
  BY <1>1 DEF Requeue, RefreshTypeOK
<1>3. /\ r \in [present : BOOLEAN, queued : BOOLEAN, inFlight : BOOLEAN]
      /\ r.present = state[job].present /\ r.inFlight = FALSE
  BY <1>1 DEF RefreshTypeOK
<1>4. /\ [state EXCEPT ![job] = r]
                \in [Books -> [present : BOOLEAN, queued : BOOLEAN, inFlight : BOOLEAN]]
      /\ [state EXCEPT ![job] = r][job] = r
      /\ \A b \in Books \ {job} : [state EXCEPT ![job] = r][b] = state[b]
  BY <1>1, <1>3, UpdateEntry
<1> HIDE DEF r
<1>5. /\ queue' \in Seq(Books)
      /\ \A b \in Books : Pending(b) => Pending(b)'
      /\ Pending(job)'
  BY <1>1, <1>2, AppendJob
<1>6. RefreshTypeOK'
  BY <1>1, <1>2, <1>4, <1>5 DEF RefreshTypeOK, WorkerPCs
<1>7. AbsentHasNoFlags'
  BY <1>1, <1>2, <1>3, <1>4 DEF AbsentHasNoFlags, Absent
<1>8. QueuedKeyHasJob'
  <2>1. \A b \in queuedKeys : Pending(b)' /\ b \in Books
    BY <1>5 DEF QueuedKeyHasJob, RefreshTypeOK
  <2>2. \A b \in queuedKeys' : Pending(b)'
    <3>1. TAKE b \in queuedKeys'
    <3>2. CASE b \in queuedKeys
      BY <2>1, <3>2
    <3>3. CASE b = job
      BY <1>5, <1>2, <3>3 DEF Pending
    <3> QED
      BY <1>2, <3>2, <3>3
  <2> QED
    BY <2>2 DEF QueuedKeyHasJob
<1>9. InFlightIsCurrent'
  BY <1>1, <1>2, <1>3, <1>4 DEF InFlightIsCurrent, Processing, AbsentHasNoFlags, Absent
<1>10. EngineHeldOnce'
  BY <1>2 DEF EngineHeldOnce
<1> QED
  BY <1>6, <1>7, <1>8, <1>9, <1>10

LEMMA ApplyStep == ASSUME RefreshInv, Apply PROVE RefreshInv'
<1> USE DEF RefreshInv, worker, web
<1> DEFINE r == [state[job] EXCEPT !.inFlight = FALSE]
<1>1. job \in Books
  BY DEF RefreshTypeOK
<1>2. /\ state' = IF state[job].present THEN [state EXCEPT ![job] = r] ELSE state
      /\ wpc = "apply" /\ wpc' = "wait"
      /\ UNCHANGED <<queue, queuedKeys, engine, job, failed, tpc, book, ops, dtor>>
  BY <1>1 DEF Apply, RefreshTypeOK
<1>3. /\ r \in [present : BOOLEAN, queued : BOOLEAN, inFlight : BOOLEAN]
      /\ r.present = state[job].present /\ r.inFlight = FALSE
  BY <1>1 DEF RefreshTypeOK
<1>4. /\ [state EXCEPT ![job] = r]
                \in [Books -> [present : BOOLEAN, queued : BOOLEAN, inFlight : BOOLEAN]]
      /\ [state EXCEPT ![job] = r][job] = r
      /\ \A b \in Books \ {job} : [state EXCEPT ![job] = r][b] = state[b]
  BY <1>1, <1>3, UpdateEntry
<1> HIDE DEF r
<1>5. RefreshTypeOK'
  BY <1>1, <1>2, <1>4 DEF RefreshTypeOK, WorkerPCs
<1>6. AbsentHasNoFlags'
  BY <1>1, <1>2, <1>3, <1>4 DEF AbsentHasNoFlags, Absent
<1>7. InFlightIsCurrent'
  BY <1>1, <1>2, <1>3, <1>4 DEF InFlightIsCurrent, Processing, AbsentHasNoFlags, Absent
<1>8. QueuedKeyHasJob' /\ EngineHeldOnce'
  BY <1>2 DEF QueuedKeyHasJob, Pending, EngineHeldOnce
<1> QED
  BY <1>5, <1>6, <1>7, <1>8

LEMMA BeginSteps ==
  ASSUME RefreshInv, NEW t \in Threads, NEW b \in Books,
         OpenBookSession(t, b) \/ ChangeBookSource(t, b) \/ TouchState(t, b)
  PROVE  RefreshInv'
<1> USE DEF RefreshInv, worker, web
<1>1. PICK way \in {"idle", "request"} : Start(t, b, way)
  BY DEF OpenBookSession, ChangeBookSource, TouchState
<1>2. UNCHANGED <<queue, queuedKeys, engine, wpc, job, failed, dtor>>
  BY DEF OpenBookSession, ChangeBookSource, TouchState
<1>3. PICK r \in [present : BOOLEAN, queued : BOOLEAN, inFlight : BOOLEAN] :
         /\ state' = [state EXCEPT ![b] = r]
         /\ r.inFlight => state[b].inFlight
         /\ ~r.present => r = Absent
  <2>1. CASE OpenBookSession(t, b)
    <3>1. /\ Fresh \in [present : BOOLEAN, queued : BOOLEAN, inFlight : BOOLEAN]
          /\ ~Fresh.inFlight /\ Fresh.present
      BY DEF Fresh
    <3>2. state' = [state EXCEPT ![b] = Fresh]
      BY <2>1 DEF OpenBookSession
    <3> QED
      BY <3>1, <3>2
  <2>2. CASE ChangeBookSource(t, b)
    BY <2>2 DEF ChangeBookSource, Absent
  <2>3. CASE TouchState(t, b)
    <3> DEFINE r == [state[b] EXCEPT !.present = TRUE]
    <3>1. /\ r \in [present : BOOLEAN, queued : BOOLEAN, inFlight : BOOLEAN]
          /\ r.inFlight = state[b].inFlight /\ r.present
      BY DEF RefreshTypeOK
    <3>2. state' = [state EXCEPT ![b] = r]
      BY <2>3 DEF TouchState, RefreshTypeOK
    <3> QED
      BY <3>1, <3>2
  <2> QED
    BY <2>1, <2>2, <2>3
<1>4. /\ state' \in [Books -> [present : BOOLEAN, queued : BOOLEAN, inFlight : BOOLEAN]]
      /\ state'[b] = r
      /\ \A c \in Books \ {b} : state'[c] = state[c]
  BY <1>3, UpdateEntry
<1>5. RefreshTypeOK'
  BY <1>1, <1>2, <1>4, OpsBound DEF Start, RefreshTypeOK, WorkerPCs
<1>6. AbsentHasNoFlags'
  BY <1>3, <1>4 DEF AbsentHasNoFlags, Absent
<1>7. InFlightIsCurrent'
  BY <1>2, <1>3, <1>4 DEF InFlightIsCurrent, Processing
<1>8. QueuedKeyHasJob'
  BY <1>2 DEF QueuedKeyHasJob, Pending
<1>9. EngineHeldOnce'
  BY <1>1 DEF Start, EngineHeldOnce, RefreshTypeOK
<1> QED
  BY <1>5, <1>6, <1>7, <1>8, <1>9

LEMMA RequestStep ==
  ASSUME RefreshInv, NEW t \in Threads, RequestBookRefresh(t)
  PROVE  RefreshInv'
<1> USE DEF RefreshInv, worker, web
<1> DEFINE b == book[t]
<1>1. b \in Books /\ queue \in Seq(Books)
  BY DEF RefreshTypeOK
<1>2. /\ tpc[t] = "request"
      /\ \E way \in {"idle", "notify"} : tpc' = [tpc EXCEPT ![t] = way]
      /\ UNCHANGED <<engine, wpc, job, failed, book, ops, dtor>>
  BY DEF RequestBookRefresh
<1>3. PICK r \in [present : BOOLEAN, queued : BOOLEAN, inFlight : BOOLEAN] :
         /\ state' = [state EXCEPT ![b] = r]
         /\ r.inFlight = state[b].inFlight
         /\ r.present
  <2>1. CASE state[b].inFlight \/ b \in queuedKeys
    <3> DEFINE q == [state[b] EXCEPT !.present = TRUE]
    <3>1. /\ q \in [present : BOOLEAN, queued : BOOLEAN, inFlight : BOOLEAN]
          /\ q.inFlight = state[b].inFlight /\ q.present
      BY <1>1 DEF RefreshTypeOK
    <3>2. state' = [state EXCEPT ![b] = q]
      BY <1>1, <2>1 DEF RequestBookRefresh, RefreshTypeOK
    <3> QED
      BY <3>1, <3>2
  <2>2. CASE ~(state[b].inFlight \/ b \in queuedKeys)
    <3> DEFINE q == [state[b] EXCEPT !.present = TRUE, !.queued = TRUE]
    <3>1. /\ q \in [present : BOOLEAN, queued : BOOLEAN, inFlight : BOOLEAN]
          /\ q.inFlight = state[b].inFlight /\ q.present
      BY <1>1 DEF RefreshTypeOK
    <3>2. state' = [state EXCEPT ![b] = q]
      BY <1>1, <2>2 DEF RequestBookRefresh, RefreshTypeOK
    <3> QED
      BY <3>1, <3>2
  <2> QED
    BY <2>1, <2>2
<1>4. /\ state' \in [Books -> [present : BOOLEAN, queued : BOOLEAN, inFlight : BOOLEAN]]
      /\ state'[b] = r
      /\ \A c \in Books \ {b} : state'[c] = state[c]
  BY <1>1, <1>3, UpdateEntry
<1>7. AbsentHasNoFlags' /\ InFlightIsCurrent' /\ EngineHeldOnce'
  <2>1. AbsentHasNoFlags'
    BY <1>1, <1>3, <1>4 DEF AbsentHasNoFlags, Absent
  <2>2. InFlightIsCurrent'
    BY <1>1, <1>2, <1>3, <1>4 DEF InFlightIsCurrent, Processing
  <2>3. EngineHeldOnce'
    BY <1>2 DEF EngineHeldOnce, RefreshTypeOK
  <2> QED
    BY <2>1, <2>2, <2>3
<1>5. CASE UNCHANGED <<queue, queuedKeys>>
  <2>1. RefreshTypeOK'
    BY <1>2, <1>4, <1>5 DEF RefreshTypeOK, WorkerPCs
  <2>2. QueuedKeyHasJob'
    BY <1>5 DEF QueuedKeyHasJob, Pending
  <2> QED
    BY <1>7, <2>1, <2>2
<1>6. CASE queuedKeys' = queuedKeys \union {b} /\ queue' = Append(queue, b)
  <2>1. /\ queue' \in Seq(Books)
        /\ \A c \in Books : Pending(c) => Pending(c)'
        /\ \E i \in 1 .. Len(queue') : queue'[i] = b
    BY <1>1, <1>6, AppendJob DEF Pending
  <2>2. RefreshTypeOK'
    BY <1>1, <1>2, <1>4, <1>6, <2>1 DEF RefreshTypeOK, WorkerPCs
  <2>3. QueuedKeyHasJob'
    <3>1. \A c \in queuedKeys : Pending(c)'
      BY <2>1 DEF QueuedKeyHasJob, RefreshTypeOK
    <3> QED
      BY <1>6, <2>1, <3>1 DEF QueuedKeyHasJob, Pending
  <2> QED
    BY <1>7, <2>2, <2>3
<1> QED
  BY <1>5, <1>6 DEF RequestBookRefresh

\* The steps of web threads and of the destructor that leave queue, keys and
\* entries alone.
LEMMA QuietOtherSteps ==
  ASSUME RefreshInv,
         \/ \E t \in Threads : Notify(t) \/ UseEngine(t) \/ ReleaseEngine(t)
         \/ Flag \/ Destructor \/ RefreshOver \/ UNCHANGED refreshVars
  PROVE  RefreshInv'
<1> USE DEF RefreshInv, worker, web
<1>1. CASE \E t \in Threads : Notify(t) \/ UseEngine(t) \/ ReleaseEngine(t)
  <2>1. PICK t \in Threads : Notify(t) \/ UseEngine(t) \/ ReleaseEngine(t)
    BY <1>1
  <2>2. RefreshTypeOK'
    BY <2>1 DEF Notify, UseEngine, ReleaseEngine, RefreshTypeOK, WorkerPCs, EngineHeldOnce
  <2>3. EngineHeldOnce'
    BY <2>1 DEF Notify, UseEngine, ReleaseEngine, RefreshTypeOK, EngineHeldOnce
  <2>4. AbsentHasNoFlags' /\ QueuedKeyHasJob'
    BY <2>1 DEF Notify, UseEngine, ReleaseEngine, AbsentHasNoFlags, Absent,
       QueuedKeyHasJob, Pending
  <2>5. InFlightIsCurrent'
    BY <2>1 DEF Notify, UseEngine, ReleaseEngine, InFlightIsCurrent, Processing
  <2> QED
    BY <2>2, <2>3, <2>4, <2>5
<1>2. CASE Flag \/ Destructor \/ RefreshOver \/ UNCHANGED refreshVars
  <2>1. RefreshTypeOK'
    BY <1>2 DEF Flag, Destructor, Stop, JoinWorker, RefreshOver, refreshVars, RefreshTypeOK, WorkerPCs
  <2>2. AbsentHasNoFlags' /\ QueuedKeyHasJob' /\ EngineHeldOnce'
    BY <1>2 DEF Flag, Destructor, Stop, JoinWorker, RefreshOver, refreshVars, AbsentHasNoFlags, Absent,
       QueuedKeyHasJob, Pending, EngineHeldOnce
  <2>3. InFlightIsCurrent'
    BY <1>2 DEF Flag, Destructor, Stop, JoinWorker, RefreshOver, refreshVars, InFlightIsCurrent, Processing
  <2> QED
    BY <2>1, <2>2, <2>3
<1> QED
  BY <1>1, <1>2

LEMMA RefreshNextInv == RefreshInv /\ [RefreshNext]_refreshVars => RefreshInv'
<1> SUFFICES ASSUME RefreshInv, [RefreshNext]_refreshVars PROVE RefreshInv'
  OBVIOUS
<1>1. CASE WorkerStep
  BY <1>1, QuietWorkerSteps, PopStep, RequeueStep, ApplyStep DEF WorkerStep
<1>2. CASE SpuriousWakeup
  BY <1>2, QuietWorkerSteps
<1>3. ASSUME NEW t \in Threads, Begin(t) PROVE RefreshInv'
  BY <1>3, BeginSteps, QuietOtherSteps DEF Begin
<1>4. ASSUME NEW t \in Threads, Continue(t) PROVE RefreshInv'
  BY <1>4, RequestStep, QuietOtherSteps DEF Continue
<1>5. CASE Flag \/ Destructor \/ RefreshOver \/ UNCHANGED refreshVars
  BY <1>5, QuietOtherSteps
<1> QED
  BY <1>1, <1>2, <1>3, <1>4, <1>5 DEF RefreshNext

\* The inductive invariant of the queue, of which the next three are parts.
THEOREM RefreshInvariant == RefreshSpec => []RefreshInv
<1>1. RefreshInit => RefreshInv
  BY RefreshInitInv
<1>2. RefreshInv /\ [RefreshNext]_refreshVars => RefreshInv'
  BY RefreshNextInv
<1> QED
  BY <1>1, <1>2, PTL DEF RefreshSpec

\* The variables keep their types and the engine mutex its owner
\* (engine_impl.h:215-227).
THEOREM RefreshTypeCorrect == RefreshSpec => []RefreshTypeOK
<1>1. RefreshInv => RefreshTypeOK
  BY DEF RefreshInv
<1> QED
  BY <1>1, RefreshInvariant, PTL

\* De-duplication loses no request: a key that makes requestBookRefresh return
\* early (engine_bookshelf.cpp:474-476) has a job in the queue.
THEOREM KeysHaveJobs == RefreshSpec => []QueuedKeyHasJob
<1>1. RefreshInv => QueuedKeyHasJob
  BY DEF RefreshInv
<1> QED
  BY <1>1, RefreshInvariant, PTL

\* The flag refreshInFlight never outlives the worker's interest in the book,
\* whatever path the job took (engine_bookshelf.cpp:81-144).
THEOREM FlightsEnd == RefreshSpec => []InFlightIsCurrent
<1>1. RefreshInv => InFlightIsCurrent
  BY DEF RefreshInv
<1> QED
  BY <1>1, RefreshInvariant, PTL

\* The worker updates entries and never makes one (engine_bookshelf.cpp:82,
\* 111, 137): a book dropped by changeBookSource stays dropped.
THEOREM WorkerResurrectsNothing == RefreshSpec => WorkerCreatesNoEntry
<1>1. ASSUME RefreshTypeOK, WorkerStep, NEW b \in Books, state'[b].present
      PROVE  state[b].present
  <2>1. CASE Park \/ ExitWhenDrained \/ CheckAlive \/ TryLock \/ Lock \/ Fetch
    BY <1>1, <2>1 DEF Park, ExitWhenDrained, CheckAlive, TryLock, Lock, Fetch
  <2>2. CASE Pop
    <3>1. Head(queue) \in Books
      BY <1>1, <2>2 DEF Pop, RefreshTypeOK
    <3> QED
      BY <1>1, <2>2, <3>1 DEF Pop, RefreshTypeOK
  <2>3. CASE Requeue \/ Apply
    BY <1>1, <2>3 DEF Requeue, Apply, RefreshTypeOK
  <2> QED
    BY <1>1, <2>1, <2>2, <2>3 DEF WorkerStep
<1>2. RefreshTypeOK /\ [RefreshNext]_refreshVars =>
        [WorkerStep => \A b \in Books : state'[b].present => state[b].present]_refreshVars
  BY <1>1
<1>3. RefreshInv => RefreshTypeOK
  BY DEF RefreshInv
<1> QED
  BY <1>2, <1>3, RefreshInvariant, PTL DEF RefreshSpec, WorkerCreatesNoEntry
=============================================================================

----------------------------- MODULE TaskBatch -----------------------------
(***************************************************************************)
(* What a caller of detail::parallelForEach relies on, without threads, an *)
(* index counter or a join: every task begins at most once, and the call   *)
(* returns only when nothing runs any more and nothing was left behind,    *)
(* unless the batch was cancelled.                                         *)
(***************************************************************************)
EXTENDS Integers, FiniteSets

CONSTANT Tasks          \* every task index a call may have

VARIABLES pending,      \* tasks whose body has not begun
          running,      \* tasks whose body is executing
          done,         \* tasks whose body returned or threw
          cancelled,    \* has the caller's predicate become true?
          returned      \* has the call returned?

batchVars == <<pending, running, done, cancelled, returned>>

Init ==
    /\ pending \in SUBSET Tasks
    /\ running = {}
    /\ done = {}
    /\ cancelled = FALSE
    /\ returned = FALSE

Start(i) ==
    /\ ~returned
    /\ i \in pending
    /\ pending' = pending \ {i}
    /\ running' = running \union {i}
    /\ UNCHANGED <<done, cancelled, returned>>

Finish(i) ==
    /\ i \in running
    /\ running' = running \ {i}
    /\ done' = done \union {i}
    /\ UNCHANGED <<pending, cancelled, returned>>

Cancel ==
    /\ ~returned
    /\ cancelled' = TRUE
    /\ UNCHANGED <<pending, running, done, returned>>

Return ==
    /\ ~returned
    /\ running = {}
    /\ pending = {} \/ cancelled
    /\ returned' = TRUE
    /\ UNCHANGED <<pending, running, done, cancelled>>

Next ==
    \/ \E i \in Tasks : Start(i) \/ Finish(i)
    \/ Cancel
    \/ Return

Spec == Init /\ [][Next]_batchVars
=============================================================================

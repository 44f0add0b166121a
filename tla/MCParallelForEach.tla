------------------------- MODULE MCParallelForEach -------------------------
(***************************************************************************)
(* Calls with no task, fewer tasks than workers and more tasks than        *)
(* workers, and every kind of concurrency argument: negative, zero, one    *)
(* worker, several workers.                                                *)
(***************************************************************************)
EXTENDS ParallelForEach

MCCounts == 0 .. 4
MCConcurrencies == {-1, 0, 2, 3}
=============================================================================

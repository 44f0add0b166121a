--------------------------- MODULE MCRefreshWorker ---------------------------
(***************************************************************************)
(* Two books and two web threads: a book can be opened again while its job *)
(* is queued, under way or being put back, and a second book waits behind  *)
(* it.  Threads are interchangeable, but the liveness properties forbid a  *)
(* symmetry reduction.                                                     *)
(***************************************************************************)
EXTENDS RefreshWorker
=============================================================================

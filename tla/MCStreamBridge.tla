--------------------------- MODULE MCStreamBridge ---------------------------
(* Up to three chunks: the provider can push before, between and after the *)
(* coroutine's take(), arm() and park(), and leave chunks for a next round. *)
EXTENDS StreamBridge
=============================================================================

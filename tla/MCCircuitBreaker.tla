-------------------------- MODULE MCCircuitBreaker --------------------------
(***************************************************************************)
(* Small instances of CircuitBreaker.  With a window of four samples and   *)
(* the default rates one failure among three opens a breaker, and a probed *)
(* recovery leaves that failure in the window.                             *)
(***************************************************************************)
EXTENDS CircuitBreaker, TLC

CONSTANTS g1, g2

AnyWorker == Permutations(Workers)
=============================================================================

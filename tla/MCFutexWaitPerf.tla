-------------------------- MODULE MCFutexWaitPerf ---------------------------
(* The whole performance test, for TLC. *)
EXTENDS FutexWaitPerf
=============================================================================

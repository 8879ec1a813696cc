---------------------------- MODULE MCFutexMutex ----------------------------
(* The futex lock alone, for TLC. *)
EXTENDS FutexMutex
=============================================================================

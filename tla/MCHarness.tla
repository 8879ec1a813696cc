----------------------------- MODULE MCHarness ------------------------------
(* The harness alone, for TLC. *)
EXTENDS Harness
=============================================================================

----------------------------- MODULE MCTimeout ------------------------------
(* The timeout arithmetic for TLC, in units of 100 ms: a second has 10 of  *)
(* them and a 32-bit long ends at 21.  The sum with the long timeout of    *)
(* run.sh, 20, need not fit; 12 is the longest timeout whose sum does.     *)
EXTENDS Timeout

Some == {-3, 0, 1, 9, 10, 12, 13, 20, 21}
=============================================================================

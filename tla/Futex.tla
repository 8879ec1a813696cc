------------------------------- MODULE Futex -------------------------------
(***************************************************************************)
(* The futex primitives of include/futextest.h, as constant-level          *)
(* operators: the width of futex_t, the atomic operations on a futex word, *)
(* and what FUTEX_WAIT and FUTEX_WAKE do to the set of tasks blocked on a  *)
(* futex.  The kernel is not part of the repository: the last two are      *)
(* modelled from the wrappers' contracts and from how the programs use     *)
(* them.                                                                   *)
(***************************************************************************)
EXTENDS Integers, FiniteSets

CONSTANT Word   \* the number of values of futex_t: 2^32 in every build

ASSUME WordAssumption == Word \in Nat /\ Word >= 4

futex_t == 0 .. Word - 1

FUTEX_INITIALIZER == 0

INT_MAX == (Word \div 2) - 1

(* The C conversions between int and u_int32_t (two's complement).         *)
ToInt(u) == IF u <= INT_MAX THEN u ELSE u - Word
ToU32(n) == IF n < 0 THEN n + Word ELSE n

(* The value a futex word holds after the atomic operation.  cmpxchg       *)
(* returns the value before it.                                            *)
futex_cmpxchg(val, oldval, newval) == IF val = oldval THEN newval ELSE val
futex_dec(val) == IF val = 0 THEN Word - 1 ELSE val - 1

(* FUTEX_WAIT blocks the caller exactly when the word still holds the      *)
(* value the caller expects; the test and the enqueueing are one atomic    *)
(* step of the kernel.  Otherwise it returns EWOULDBLOCK.                  *)
futex_wait_blocks(uval, val) == uval = val

(* The sets of tasks one FUTEX_WAKE may wake, of those blocked on the      *)
(* futex: up to nr_wake of them, in an order the caller may not rely on.   *)
futex_wake(blocked, nr_wake) ==
  {S \in SUBSET blocked : \/ Cardinality(S) = nr_wake
                          \/ S = blocked /\ Cardinality(S) < nr_wake}

=============================================================================

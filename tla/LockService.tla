---------------------------- MODULE LockService ----------------------------
(***************************************************************************)
(* What the lock measured by performance/futex_wait.c promises: every      *)
(* thread takes and releases one lock a given number of times, at most one *)
(* thread holds it, and as long as some thread still wants it and nobody   *)
(* holds it, somebody gets it.                                             *)
(***************************************************************************)
EXTENDS Naturals

CONSTANTS Threads,   \* the threads that share the lock
          Loops,     \* how many times each of them takes it
          None       \* "no thread holds the lock"

VARIABLES owner,     \* the thread that holds the lock, or None
          left       \* how many acquisitions each thread has still to make

vars == <<owner, left>>

Init == owner = None /\ left = [t \in Threads |-> Loops]

Acquire(t) ==
  /\ owner = None
  /\ left[t] > 0
  /\ owner' = t
  /\ left' = [left EXCEPT ![t] = @ - 1]

Release(t) ==
  /\ owner = t
  /\ owner' = None
  /\ UNCHANGED left

Next == \E t \in Threads : Acquire(t) \/ Release(t)

Safety == Init /\ [][Next]_vars

(* The lock is never idle for ever while somebody wants it, and nobody     *)
(* keeps it for ever.  No thread is promised its turn over the others.     *)
Spec ==
  /\ Safety
  /\ WF_vars(\E t \in Threads : Acquire(t))
  /\ WF_vars(\E t \in Threads : Release(t))

=============================================================================

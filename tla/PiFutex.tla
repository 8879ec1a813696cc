------------------------------ MODULE PiFutex -------------------------------
(***************************************************************************)
(* The kernel's side of the priority-inheritance futex operations wrapped  *)
(* by include/futextest.h, as operators on the state of a PI futex: the    *)
(* thread that owns it and the threads queued behind it.  The kernel is    *)
(* not part of the repository; this is what the test programs rely on.     *)
(* All their threads have the same priority, so any queued thread may be   *)
(* the next owner.                                                         *)
(***************************************************************************)
EXTENDS Integers, FiniteSets

Nobody == -1

(* FUTEX_INITIALIZER, as the PI operations read it.                        *)
PI_INITIALIZER == [owner |-> Nobody, queue |-> {}]

(* FUTEX_LOCK_PI: the caller owns the futex or queues for it; the call     *)
(* returns once the caller is the owner.                                   *)
futex_lock_pi(pi, t) ==
  IF pi.owner = Nobody THEN [pi EXCEPT !.owner = t]
                       ELSE [pi EXCEPT !.queue = @ \cup {t}]

(* FUTEX_UNLOCK_PI hands the futex to a queued thread; it refuses (EPERM)  *)
(* and does nothing if the caller is not the owner.                        *)
futex_unlock_pi(pi, t) ==
  CASE pi.owner # t -> {pi}
    [] pi.owner = t /\ pi.queue = {} -> {PI_INITIALIZER}
    [] OTHER -> {[owner |-> u, queue |-> pi.queue \ {u}] : u \in pi.queue}

(* FUTEX_CMP_REQUEUE_PI with nr_wake = 1, the only value it accepts: it    *)
(* takes up to 1 + nr_requeue of the threads waiting on the first futex;   *)
(* one of them gets the second futex if that is free, and the others queue *)
(* for it.  It returns how many it took.                                   *)
Moves(waiting, nr_requeue) ==
  {S \in SUBSET waiting : \/ Cardinality(S) = 1 + nr_requeue
                          \/ S = waiting /\ Cardinality(S) < 1 + nr_requeue}

futex_cmp_requeue_pi(waiting, pi, nr_requeue) ==
  UNION {IF S = {} \/ pi.owner # Nobody
         THEN {[moved |-> S, pi |-> [pi EXCEPT !.queue = @ \cup S]]}
         ELSE {[moved |-> S, pi |-> [owner |-> u, queue |-> pi.queue \cup (S \ {u})]] :
                 u \in S}
         : S \in Moves(waiting, nr_requeue)}

(* A thread queued for the futex gives up (its timeout has expired).       *)
pi_dequeue(pi, t) == [pi EXCEPT !.queue = @ \ {t}]

=============================================================================

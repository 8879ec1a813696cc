------------------------------ MODULE Timeout -------------------------------
(***************************************************************************)
(* How unit_test() of functional/futex_requeue_pi.c turns -t N into the    *)
(* absolute time that every waiter hands to FUTEX_WAIT_REQUEUE_PI, with    *)
(* the width of long, and when a wait with that timeout ends.              *)
(***************************************************************************)
EXTENDS Integers

CONSTANTS NSEC,       \* nanoseconds in a second: 1000000000
          LONG_MAX,   \* the largest long
          Timeouts,   \* the values of timeout_ns to consider
          MaxClock    \* the last instant to consider

ASSUME NsecAssumption == NSEC \in Nat \ {0}
ASSUME LongAssumption == LONG_MAX \in Nat
ASSUME TimeoutsAssumption == Timeouts \subseteq -LONG_MAX - 1 .. LONG_MAX
ASSUME ClockAssumption == MaxClock \in Nat

VARIABLES clock,        \* CLOCK_MONOTONIC, in nanoseconds
          timeout_ns,
          start,        \* when unit_test() read the clock
          ts,
          pc            \* unit_test(), and then a waiter of it

vars == <<clock, timeout_ns, start, ts, pc>>

Init ==
  /\ clock \in 0 .. NSEC - 1
  /\ timeout_ns \in Timeouts
  /\ start = 0 /\ ts = [tv_sec |-> 0, tv_nsec |-> 0]
  /\ pc = "start"

clock_gettime == [tv_sec |-> clock \div NSEC, tv_nsec |-> clock % NSEC]

(* The division and the remainder of C: the quotient is truncated.         *)
Quot(a, b) == IF a >= 0 THEN a \div b ELSE -((-a) \div b)
Rem(a, b) == IF a >= 0 THEN a % b ELSE -((-a) % b)

(* A sum of two longs: undefined if it does not fit, so either the bits    *)
(* that remain or, from a wider register, all of them.                     *)
Fits(x) == x \in -LONG_MAX - 1 .. LONG_MAX
LongSum(x) ==
  IF Fits(x) THEN {x}
  ELSE {x, ((x + LONG_MAX + 1) % (2 * LONG_MAX + 2)) - (LONG_MAX + 1)}

(* Mutant: the seconds are not carried over.                               *)
set_timeout_no_carry ==
  /\ pc = "start" /\ timeout_ns # 0
  /\ LET now == clock_gettime
     IN  ts' = [tv_sec |-> now.tv_sec, tv_nsec |-> Rem(now.tv_nsec + timeout_ns, NSEC)]
  /\ start' = clock
  /\ pc' = "waiting"
  /\ UNCHANGED <<clock, timeout_ns>>

(* Mutant: tv_nsec is not reduced.                                         *)
set_timeout_raw ==
  /\ pc = "start" /\ timeout_ns # 0
  /\ LET now == clock_gettime
     IN  ts' = [tv_sec |-> now.tv_sec + Quot(now.tv_nsec + timeout_ns, NSEC),
                tv_nsec |-> now.tv_nsec + timeout_ns]
  /\ start' = clock
  /\ pc' = "waiting"
  /\ UNCHANGED <<clock, timeout_ns>>

(* secs is computed in long, the new tv_nsec in 64 bits.                   *)
set_timeout ==
  /\ pc = "start" /\ timeout_ns # 0
  /\ LET now == clock_gettime
     IN  \E sum \in LongSum(now.tv_nsec + timeout_ns) :
           ts' = [tv_sec |-> now.tv_sec + Quot(sum, NSEC),
                  tv_nsec |-> Rem(now.tv_nsec + timeout_ns, NSEC)]
  /\ start' = clock
  /\ pc' = "waiting"
  /\ UNCHANGED <<clock, timeout_ns>>

(* tsp stays NULL.                                                         *)
no_timeout ==
  /\ pc = "start" /\ timeout_ns = 0
  /\ pc' = "untimed"
  /\ UNCHANGED <<clock, timeout_ns, start, ts>>

Total == ts.tv_sec * NSEC + ts.tv_nsec

(* The kernel refuses (EINVAL) a time that is not well formed, and ends    *)
(* the wait (ETIMEDOUT) once the time has come.                            *)
Valid == ts.tv_sec >= 0 /\ ts.tv_nsec \in 0 .. NSEC - 1

refuse ==
  /\ pc = "waiting" /\ ~ Valid
  /\ pc' = "refused"
  /\ UNCHANGED <<clock, timeout_ns, start, ts>>

expire ==
  /\ pc = "waiting" /\ Valid
  /\ clock >= Total
  /\ pc' = "timedout"
  /\ UNCHANGED <<clock, timeout_ns, start, ts>>

tick ==
  /\ clock < MaxClock
  /\ clock' = clock + 1
  /\ UNCHANGED <<timeout_ns, start, ts, pc>>

Next == set_timeout \/ no_timeout \/ refuse \/ expire \/ tick

Spec == Init /\ [][Next]_vars

(* Time goes on, and timers that are due expire.                           *)
FairSpec == Spec /\ WF_vars(tick) /\ WF_vars(expire \/ refuse)

-----------------------------------------------------------------------------
TimeoutTypeOK ==
  /\ clock \in Nat /\ start \in Nat
  /\ timeout_ns \in Timeouts
  /\ ts \in [tv_sec : Int, tv_nsec : -(NSEC - 1) .. NSEC - 1]
  /\ pc \in {"start", "untimed", "waiting", "refused", "timedout"}

(* The sum that line 303 divides fits in a long, whatever the clock reads. *)
SumFits == Fits(timeout_ns + NSEC - 1)

(* The absolute time is the clock plus the timeout to the nanosecond, the  *)
(* division in one width and the remainder in another notwithstanding, as  *)
(* long as the sum fits ...                                                *)
DeadlineExact ==
  pc \in {"waiting", "refused", "timedout"} /\ SumFits => Total = start + timeout_ns

(* ... and if it does not, the deadline is never put off: a 32-bit long    *)
(* makes waiters time out early, but it does not keep them on f1 for       *)
(* longer than -t says.                                                    *)
NeverLate ==
  pc \in {"waiting", "refused", "timedout"} => Total <= start + timeout_ns

(* A positive timeout whose sum fits makes a time the kernel accepts.      *)
NotRefused == timeout_ns > 0 /\ SumFits => pc # "refused"

(* A wait with a positive timeout times out, if the clock runs for long    *)
(* enough.                                                                 *)
TimesOut ==
  (pc = "waiting" /\ timeout_ns > 0 /\ SumFits /\ start + timeout_ns <= MaxClock)
    ~> pc = "timedout"

=============================================================================

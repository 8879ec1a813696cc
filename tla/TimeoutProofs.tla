--------------------------- MODULE TimeoutProofs ----------------------------
(***************************************************************************)
(* For every clock, every length of a second and every width of long: the  *)
(* absolute time that unit_test() hands to its waiters is never late, and  *)
(* where the sum it divides fits in a long it is exact and the kernel      *)
(* accepts it.                                                             *)
(***************************************************************************)
EXTENDS Timeout, TLAPS

(* Division and remainder of a natural number belong together.             *)
LEMMA DivMod ==
  ASSUME NEW a \in Nat, NEW n \in Nat \ {0}
  PROVE  /\ a \div n \in Nat
         /\ a % n \in 0 .. n - 1
         /\ (a \div n) * n + (a % n) = a
<1>1. a \div n \in Nat
  OBVIOUS
<1>2. a % n \in 0 .. n - 1
  OBVIOUS
<1>3. (a \div n) * n + (a % n) = a
  OBVIOUS
<1> QED BY <1>1, <1>2, <1>3

(* So do C's, for negative numbers too; the remainder has the sign of the  *)
(* number that is divided.                                                 *)
LEMMA QuotRem ==
  ASSUME NEW a \in Int, NEW n \in Nat \ {0}
  PROVE  /\ Quot(a, n) \in Int
         /\ Rem(a, n) \in -(n - 1) .. n - 1
         /\ Quot(a, n) * n + Rem(a, n) = a
         /\ a >= 0 => Quot(a, n) >= 0 /\ Rem(a, n) >= 0
<1>1. CASE a >= 0
  <2>1. a \in Nat
    BY <1>1
  <2>2. Quot(a, n) = a \div n /\ Rem(a, n) = a % n
    BY <1>1 DEF Quot, Rem
  <2>3. a \div n \in Nat /\ a % n \in 0 .. n - 1 /\ (a \div n) * n + (a % n) = a
    BY <2>1, DivMod
  <2> QED BY <2>2, <2>3
<1>2. CASE ~ (a >= 0)
  <2> DEFINE b == -a
  <2>1. b \in Nat
    BY <1>2
  <2>2. Quot(a, n) = -(b \div n) /\ Rem(a, n) = -(b % n)
    BY <1>2 DEF Quot, Rem
  <2> HIDE DEF b
  <2>3. b \div n \in Nat /\ b % n \in 0 .. n - 1 /\ (b \div n) * n + (b % n) = b
    BY <2>1, DivMod
  <2> DEFINE q == b \div n
             r == b % n
  <2>4. (-q) * n = -(q * n)
    <3> HIDE DEF q
    <3>1. q \in Int
      BY <2>3 DEF q
    <3> QED BY <3>1
  <2>5. a = -b
    BY DEF b
  <2>6. ~ (a >= 0)
    BY <1>2
  <2> HIDE DEF q, r
  <2>7. q \in Nat /\ r \in 0 .. n - 1 /\ q * n + r = b
    BY <2>3 DEF q, r
  <2>8. Quot(a, n) = -q /\ Rem(a, n) = -r
    BY <2>2 DEF q, r
  <2>9. q * n \in Int
    BY <2>7
  <2> QED BY <2>1, <2>4, <2>5, <2>6, <2>7, <2>8, <2>9
<1> QED BY <1>1, <1>2

(* The quotient of C does not decrease.                                    *)
LEMMA QuotMonotone ==
  ASSUME NEW a \in Int, NEW b \in Int, NEW n \in Nat \ {0}, a <= b
  PROVE  Quot(a, n) <= Quot(b, n)
<1>1. CASE a >= 0
  <2>1. a \in Nat /\ b \in Nat /\ b >= 0
    BY <1>1
  <2> DEFINE p == a \div n
             q == b \div n
  <2>2. Quot(a, n) = p /\ Quot(b, n) = q
    BY <1>1, <2>1 DEF Quot
  <2>3. p \in Nat /\ q \in Nat /\ p * n <= a /\ b < q * n + n
    BY <2>1, DivMod
  <2> HIDE DEF p, q
  <2>4. SUFFICES ASSUME q + 1 <= p PROVE FALSE
    BY <2>2, <2>3
  <2>5. (q + 1) * n <= p * n /\ (q + 1) * n = q * n + n
    BY <2>3, <2>4
  <2>6. p * n \in Int /\ q * n \in Int
    BY <2>3
  <2> QED BY <2>3, <2>5, <2>6
<1>2. CASE a < 0 /\ b >= 0
  <2>1. Quot(b, n) >= 0 /\ Quot(b, n) \in Int
    BY <1>2, QuotRem
  <2>2. -a \in Nat /\ Quot(a, n) = -((-a) \div n)
    BY <1>2 DEF Quot
  <2>3. (-a) \div n \in Nat
    BY <2>2, DivMod
  <2> QED BY <2>1, <2>2, <2>3
<1>3. CASE b < 0
  <2> DEFINE c == -a
             d == -b
             p == c \div n
             q == d \div n
  <2>1. c \in Nat /\ d \in Nat /\ d <= c
    BY <1>3
  <2>2. Quot(a, n) = -p /\ Quot(b, n) = -q
    BY <1>3 DEF Quot
  <2> HIDE DEF c, d
  <2>3. p \in Nat /\ q \in Nat /\ q * n <= d /\ c < p * n + n
    BY <2>1, DivMod
  <2> HIDE DEF p, q
  <2>4. SUFFICES ASSUME p + 1 <= q PROVE FALSE
    BY <2>2, <2>3
  <2>5. (p + 1) * n <= q * n /\ (p + 1) * n = p * n + n
    BY <2>3, <2>4
  <2>6. p * n \in Int /\ q * n \in Int
    BY <2>3
  <2> QED BY <2>1, <2>3, <2>5, <2>6
<1> QED BY <1>1, <1>2, <1>3

-----------------------------------------------------------------------------
(* The sum that the code divides is what it should be if it fits in a      *)
(* long, and otherwise at most that.                                       *)
LEMMA SumInLong ==
  ASSUME NEW t \in Timeouts, NEW nsec \in 0 .. NSEC - 1, NEW x \in LongSum(nsec + t)
  PROVE  /\ t \in Int /\ x \in Int /\ x <= nsec + t
         /\ Fits(t + NSEC - 1) => x = nsec + t
<1>1. t \in -LONG_MAX - 1 .. LONG_MAX
  BY TimeoutsAssumption
<1> DEFINE s == nsec + t
           w == 2 * LONG_MAX + 2
           u == s + LONG_MAX + 1
<1>2. s \in Int /\ w \in Nat \ {0} /\ u \in Nat
  BY <1>1, NsecAssumption, LongAssumption
<1>3. ASSUME Fits(t + NSEC - 1) PROVE x = s
  <2>1. t + NSEC - 1 \in -LONG_MAX - 1 .. LONG_MAX
    BY <1>3 DEF Fits
  <2>2. Fits(s)
    BY <1>1, <2>1, NsecAssumption, LongAssumption DEF Fits
  <2> QED BY <2>2 DEF LongSum
<1>4. x = s \/ x = (u % w) - (LONG_MAX + 1)
  BY DEF LongSum
<1>5. u % w \in Int /\ u % w <= u
  <2> HIDE DEF u, w
  <2>1. u \div w \in Nat /\ u % w \in 0 .. w - 1 /\ (u \div w) * w + (u % w) = u
    BY <1>2, DivMod
  <2>2. (u \div w) * w \in Nat
    BY <1>2, <2>1
  <2> QED BY <1>2, <2>1, <2>2
<1>6. u - (LONG_MAX + 1) = s
  BY <1>2, LongAssumption
<1> HIDE DEF u, w, s
<1>7. x \in Int /\ x <= s
  BY <1>2, <1>4, <1>5, <1>6, LongAssumption
<1> QED BY <1>1, <1>3, <1>7 DEF s

(* What ts is worth, and that it is well formed for a positive timeout.    *)
TsExact ==
  /\ Total = start + timeout_ns
  /\ timeout_ns > 0 => Valid

(* The inductive invariant: it ties ts to the clock that was read, and a   *)
(* refusal to a time that is not well formed.                              *)
TimeoutInv ==
  /\ TimeoutTypeOK
  /\ NeverLate
  /\ pc \in {"waiting", "refused", "timedout"} /\ SumFits => TsExact
  /\ pc = "refused" => ~ Valid

(* The step that computes ts, in two parts: seconds and nanoseconds are in *)
(* range, and together they are at most the time that was asked for.       *)
LEMMA SetTimeout ==
  ASSUME TimeoutInv, set_timeout
  PROVE  TimeoutInv'
<1> DEFINE nsec == clock % NSEC
           sec == clock \div NSEC
           sum == nsec + timeout_ns
<1>1. clock \in Nat /\ timeout_ns \in Timeouts /\ start \in Nat
  BY DEF TimeoutInv, TimeoutTypeOK
<1>2. sec \in Nat /\ nsec \in 0 .. NSEC - 1 /\ sec * NSEC + nsec = clock
  BY <1>1, DivMod, NsecAssumption
<1>3. PICK x \in LongSum(sum) :
        ts' = [tv_sec |-> sec + Quot(x, NSEC), tv_nsec |-> Rem(sum, NSEC)]
  BY DEF set_timeout, clock_gettime
<1>4. timeout_ns \in Int /\ x \in Int /\ x <= sum /\ (SumFits => x = sum)
  BY <1>1, <1>2, SumInLong DEF SumFits
<1>5. start' = clock /\ pc' = "waiting" /\ clock' = clock /\ timeout_ns' = timeout_ns
  BY DEF set_timeout
<1>6. sum \in Int /\ (timeout_ns > 0 => sum >= 0)
  BY <1>2, <1>4, NsecAssumption
<1> DEFINE p == Quot(x, NSEC)
           q == Quot(sum, NSEC)
           r == Rem(sum, NSEC)
<1>7. /\ q \in Int /\ r \in -(NSEC - 1) .. NSEC - 1
      /\ q * NSEC + r = sum
      /\ sum >= 0 => q >= 0 /\ r >= 0
  BY <1>6, QuotRem, NsecAssumption
<1>8. p \in Int /\ p <= q /\ (SumFits => p = q)
  BY <1>4, <1>6, QuotRem, QuotMonotone, NsecAssumption
<1>9. sum = nsec + timeout_ns
  OBVIOUS
<1>10. ts'.tv_sec = sec + p /\ ts'.tv_nsec = r
  BY <1>3
<1>11. ts' \in [tv_sec : Int, tv_nsec : -(NSEC - 1) .. NSEC - 1]
  BY <1>2, <1>3, <1>7, <1>8
<1> HIDE DEF nsec, sec, sum, p, q, r
<1>12. /\ (sec + p) * NSEC = sec * NSEC + p * NSEC
       /\ sec * NSEC \in Int /\ p * NSEC \in Int /\ q * NSEC \in Int
       /\ p * NSEC <= q * NSEC
  BY <1>2, <1>7, <1>8, NsecAssumption
<1>13. Total' = sec * NSEC + p * NSEC + r
  BY <1>10, <1>12 DEF Total
<1>14. Total' <= start' + timeout_ns'
  BY <1>1, <1>2, <1>4, <1>5, <1>6, <1>7, <1>9, <1>12, <1>13, NsecAssumption
<1>15. SumFits => Total' = start' + timeout_ns'
  BY <1>1, <1>2, <1>4, <1>5, <1>6, <1>7, <1>8, <1>9, <1>12, <1>13, NsecAssumption
<1>16. SumFits /\ timeout_ns' > 0 => Valid'
  BY <1>2, <1>5, <1>6, <1>7, <1>8, <1>10, NsecAssumption DEF Valid
<1>17. SumFits' = SumFits
  BY <1>5 DEF SumFits
<1>18. SumFits' => TsExact'
  BY <1>15, <1>16, <1>17 DEF TsExact
<1>19. TimeoutTypeOK'
  BY <1>1, <1>5, <1>11 DEF TimeoutTypeOK
<1>20. NeverLate'
  BY <1>14 DEF NeverLate
<1> QED BY <1>5, <1>18, <1>19, <1>20 DEF TimeoutInv

LEMMA TimeoutInvInit == Init => TimeoutInv
  BY NsecAssumption DEF Init, TimeoutInv, TimeoutTypeOK, NeverLate

(* The other steps leave ts, start and the timeout alone.                  *)
LEMMA TimeoutInvNext == ASSUME TimeoutInv, [Next]_vars PROVE TimeoutInv'
<1> DEFINE Same == UNCHANGED <<timeout_ns, start, ts>>
<1>1. ASSUME Same
      PROVE  Total' = Total /\ Valid' = Valid /\ TsExact' = TsExact /\ SumFits' = SumFits
  BY <1>1 DEF Total, Valid, TsExact, SumFits
<1> USE DEF TimeoutInv, TimeoutTypeOK, NeverLate
<1>2. CASE set_timeout
  BY <1>2, SetTimeout
<1>3. CASE no_timeout
  BY <1>3 DEF no_timeout
<1>4. CASE refuse
  <2>1. Same /\ clock' = clock /\ pc = "waiting" /\ pc' = "refused" /\ ~ Valid
    BY <1>4 DEF refuse
  <2> HIDE DEF Same
  <2> QED BY <2>1, <1>1 DEF Same
<1>5. CASE expire
  <2>1. Same /\ clock' = clock /\ pc = "waiting" /\ pc' = "timedout"
    BY <1>5 DEF expire
  <2> HIDE DEF Same
  <2> QED BY <2>1, <1>1 DEF Same
<1>6. CASE tick
  <2>1. Same /\ clock' = clock + 1 /\ pc' = pc
    BY <1>6 DEF tick
  <2> HIDE DEF Same
  <2> QED BY <2>1, <1>1 DEF Same
<1>7. CASE UNCHANGED vars
  <2>1. Same /\ clock' = clock /\ pc' = pc
    BY <1>7 DEF vars
  <2> HIDE DEF Same
  <2> QED BY <2>1, <1>1 DEF Same
<1> QED BY <1>2, <1>3, <1>4, <1>5, <1>6, <1>7 DEF Next

(* The invariant holds throughout, in every width of long.                 *)
THEOREM TimeoutInvariance == Spec => []TimeoutInv
<1>1. TimeoutInv /\ [Next]_vars => TimeoutInv'
  BY TimeoutInvNext
<1> QED BY <1>1, TimeoutInvInit, PTL DEF Spec

(* set_timeout computes fields that are in range.                          *)
THEOREM TimeoutTypeCorrect == Spec => []TimeoutTypeOK
<1>1. TimeoutInv => TimeoutTypeOK
  BY DEF TimeoutInv
<1> QED BY <1>1, TimeoutInvariance, PTL

(* The deadline of lines 302 to 305 is the clock plus -t, exactly, if the  *)
(* sum of line 303 fits.                                                   *)
THEOREM DeadlineIsExact == Spec => []DeadlineExact
<1>1. TimeoutInv => DeadlineExact
  BY DEF TimeoutInv, TsExact, DeadlineExact
<1> QED BY <1>1, TimeoutInvariance, PTL

(* An overflow in line 303 never puts the deadline off.                    *)
THEOREM DeadlineIsNeverLate == Spec => []NeverLate
<1>1. TimeoutInv => NeverLate
  BY DEF TimeoutInv
<1> QED BY <1>1, TimeoutInvariance, PTL

(* FUTEX_WAIT_REQUEUE_PI never refuses the time made from a positive -t    *)
(* whose sum fits.                                                         *)
THEOREM PositiveIsAccepted == Spec => []NotRefused
<1>1. TimeoutInv => NotRefused
  BY DEF TimeoutInv, TsExact, NotRefused
<1> QED BY <1>1, TimeoutInvariance, PTL

=============================================================================

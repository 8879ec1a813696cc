-------------------------- MODULE FutexMutexProofs --------------------------
(***************************************************************************)
(* Proofs about the futex lock of performance/futex_wait.c, for any set of *)
(* threads and any number of loops.                                        *)
(***************************************************************************)
EXTENDS FutexMutex, FiniteSetTheorems, TLAPS

(* FUTEX_WAKE with nr_wake = 1 wakes only tasks that are blocked, and      *)
(* wakes somebody when somebody is blocked: what NoLostWakeup rests on.    *)
LEMMA WakeOne ==
  ASSUME NEW B, NEW S \in futex_wake(B, 1)
  PROVE  /\ S \subseteq B
         /\ B # {} => S # {}
BY FS_EmptySet DEF futex_wake

(* The invariant that carries mutual exclusion: it is inductive.           *)
LockInv == TypeOK /\ MutualExclusion /\ WordTracksHolder

(* The word, the program counters and the loop counters keep their types.  *)
THEOREM TypeCorrect == Spec => []TypeOK
<1>1. Init => TypeOK
  BY LoopsAssumption DEF Init, TypeOK, PC, FUTEX_INITIALIZER
<1>2. TypeOK /\ [Next]_vars => TypeOK'
  <2> SUFFICES ASSUME TypeOK, [Next]_vars PROVE TypeOK'
    OBVIOUS
  <2> USE LoopsAssumption DEF TypeOK, PC, Goto, LoopHead, futex_cmpxchg
  <2>1. ASSUME NEW t \in Threads, test(t) PROVE TypeOK'
    BY <2>1 DEF test
  <2>2. ASSUME NEW t \in Threads, lock_read(t) PROVE TypeOK'
    BY <2>2 DEF lock_read
  <2>3. ASSUME NEW t \in Threads, lock_cas01(t) PROVE TypeOK'
    BY <2>3 DEF lock_cas01
  <2>4. ASSUME NEW t \in Threads, lock_cas12(t) PROVE TypeOK'
    BY <2>4 DEF lock_cas12
  <2>5. ASSUME NEW t \in Threads, lock_wait(t) PROVE TypeOK'
    BY <2>5 DEF lock_wait
  <2>6. ASSUME NEW t \in Threads, lock_reread(t) PROVE TypeOK'
    BY <2>6 DEF lock_reread
  <2>7. ASSUME NEW t \in Threads, lock_cas02(t) PROVE TypeOK'
    BY <2>7 DEF lock_cas02
  <2>8. ASSUME NEW t \in Threads, unlock_read(t) PROVE TypeOK'
    BY <2>8 DEF unlock_read
  <2>9. ASSUME NEW t \in Threads, unlock_cas10(t) PROVE TypeOK'
    BY <2>9 DEF unlock_cas10
  <2>10. ASSUME NEW t \in Threads, unlock_cas20(t) PROVE TypeOK'
    BY <2>10 DEF unlock_cas20
  <2>11. ASSUME NEW t \in Threads, unlock_wake(t) PROVE TypeOK'
    BY <2>11 DEF unlock_wake
  <2>12. ASSUME NEW t \in Threads, spurious(t) PROVE TypeOK'
    BY <2>12 DEF spurious
  <2>13. CASE Finished \/ UNCHANGED vars
    BY <2>13 DEF Finished, vars
  <2> QED
    BY <2>1, <2>2, <2>3, <2>4, <2>5, <2>6, <2>7, <2>8, <2>9, <2>10, <2>11,
       <2>12, <2>13 DEF Next, ThreadStep
<1> QED
  BY <1>1, <1>2, PTL DEF Spec

(* A step of any thread, or a spurious return, preserves LockInv.          *)
LEMMA LockInvStep == LockInv /\ [Next]_vars /\ TypeOK' => LockInv'
<1> SUFFICES ASSUME LockInv, [Next]_vars, TypeOK' PROVE LockInv'
  OBVIOUS
<1> USE DEF LockInv, TypeOK, PC, MutualExclusion, WordTracksHolder, Holding,
            Goto, LoopHead, futex_cmpxchg
<1>1. ASSUME NEW t \in Threads, test(t) PROVE LockInv'
  BY <1>1 DEF test
<1>2. ASSUME NEW t \in Threads, lock_read(t) PROVE LockInv'
  BY <1>2 DEF lock_read
<1>3. ASSUME NEW t \in Threads, lock_cas01(t) PROVE LockInv'
  BY <1>3 DEF lock_cas01
<1>4. ASSUME NEW t \in Threads, lock_cas12(t) PROVE LockInv'
  BY <1>4 DEF lock_cas12
<1>5. ASSUME NEW t \in Threads, lock_wait(t) PROVE LockInv'
  BY <1>5 DEF lock_wait
<1>6. ASSUME NEW t \in Threads, lock_reread(t) PROVE LockInv'
  BY <1>6 DEF lock_reread
<1>7. ASSUME NEW t \in Threads, lock_cas02(t) PROVE LockInv'
  BY <1>7 DEF lock_cas02
<1>8. ASSUME NEW t \in Threads, unlock_read(t) PROVE LockInv'
  BY <1>8 DEF unlock_read
<1>9. ASSUME NEW t \in Threads, unlock_cas10(t) PROVE LockInv'
  BY <1>9 DEF unlock_cas10
<1>10. ASSUME NEW t \in Threads, unlock_cas20(t) PROVE LockInv'
  BY <1>10 DEF unlock_cas20
<1>11. ASSUME NEW t \in Threads, unlock_wake(t) PROVE LockInv'
  BY <1>11, WakeOne DEF unlock_wake, Blocked
<1>12. ASSUME NEW t \in Threads, spurious(t) PROVE LockInv'
  BY <1>12 DEF spurious
<1>13. CASE Finished \/ UNCHANGED vars
  BY <1>13 DEF Finished, vars
<1> QED
  BY <1>1, <1>2, <1>3, <1>4, <1>5, <1>6, <1>7, <1>8, <1>9, <1>10, <1>11,
     <1>12, <1>13 DEF Next, ThreadStep

(* The invariant that the lock rests on: holder and word belong together.  *)
THEOREM LockInvariance == Spec => []LockInv
<1>1. Init => LockInv
  BY LoopsAssumption DEF Init, LockInv, TypeOK, PC, MutualExclusion,
     WordTracksHolder, Holding, FUTEX_INITIALIZER
<1> QED
  BY <1>1, LockInvStep, TypeCorrect, PTL DEF Spec

(* The lock is never held by two threads: futex_wait_lock and              *)
(* futex_cmpxchg_unlock, any number of threads.                            *)
THEOREM LockCorrect == Spec => []MutualExclusion
<1>1. LockInv => MutualExclusion
  BY DEF LockInv
<1> QED
  BY <1>1, LockInvariance, PTL

(* The word is 0 exactly while nobody holds the lock, also between the     *)
(* two writes of an unlock and while waiters put it back to 2.             *)
THEOREM WordIsExact == Spec => []WordTracksHolder
<1>1. LockInv => WordTracksHolder
  BY DEF LockInv
<1> QED
  BY <1>1, LockInvariance, PTL

(* A blocked thread never depends on a wake-up that has already happened:  *)
(* NoLostWakeup is inductive by itself, and holds of every reachable state *)
(* whatever the number of threads and of waiters.                          *)
THEOREM NoWakeupIsLost == Spec => []NoLostWakeup
<1>1. Init => NoLostWakeup
  BY DEF Init, NoLostWakeup, Blocked
<1>2. NoLostWakeup /\ TypeOK /\ TypeOK' /\ [Next]_vars => NoLostWakeup'
  <2> SUFFICES ASSUME NoLostWakeup, TypeOK, TypeOK', [Next]_vars
               PROVE  NoLostWakeup'
    OBVIOUS
  <2> USE DEF NoLostWakeup, Blocked, Contending, TypeOK, PC, Goto, LoopHead,
              futex_cmpxchg, futex_wait_blocks
  <2>1. ASSUME NEW t \in Threads, test(t) PROVE NoLostWakeup'
    BY <2>1 DEF test
  <2>2. ASSUME NEW t \in Threads, lock_read(t) PROVE NoLostWakeup'
    BY <2>2 DEF lock_read
  <2>3. ASSUME NEW t \in Threads, lock_cas01(t) PROVE NoLostWakeup'
    BY <2>3 DEF lock_cas01
  <2>4. ASSUME NEW t \in Threads, lock_cas12(t) PROVE NoLostWakeup'
    BY <2>4 DEF lock_cas12
  <2>5. ASSUME NEW t \in Threads, lock_wait(t) PROVE NoLostWakeup'
    BY <2>5 DEF lock_wait
  <2>6. ASSUME NEW t \in Threads, lock_reread(t) PROVE NoLostWakeup'
    BY <2>6 DEF lock_reread
  <2>7. ASSUME NEW t \in Threads, lock_cas02(t) PROVE NoLostWakeup'
    BY <2>7 DEF lock_cas02
  <2>8. ASSUME NEW t \in Threads, unlock_read(t) PROVE NoLostWakeup'
    BY <2>8 DEF unlock_read
  <2>9. ASSUME NEW t \in Threads, unlock_cas10(t) PROVE NoLostWakeup'
    BY <2>9 DEF unlock_cas10
  <2>10. ASSUME NEW t \in Threads, unlock_cas20(t) PROVE NoLostWakeup'
    BY <2>10 DEF unlock_cas20
  <2>11. ASSUME NEW t \in Threads, unlock_wake(t) PROVE NoLostWakeup'
    <3>1. PICK S \in futex_wake(Blocked, 1) :
            pc' = [u \in Threads |-> IF u \in S THEN "lock_reread"
                                     ELSE IF u = t THEN "test" ELSE pc[u]]
      BY <2>11 DEF unlock_wake
    <3>2. S \subseteq Blocked /\ (Blocked # {} => S # {})
      BY WakeOne
    <3>3. CASE Blocked = {}
      BY <3>1, <3>2, <3>3
    <3>4. CASE Blocked # {}
      <4>1. PICK u \in Threads : u \in S
        BY <3>2, <3>4
      <4>2. pc'[u] = "lock_reread"
        BY <3>1, <4>1
      <4> QED
        BY <4>1, <4>2
    <3> QED
      BY <3>3, <3>4
  <2>12. ASSUME NEW t \in Threads, spurious(t) PROVE NoLostWakeup'
    BY <2>12 DEF spurious
  <2>13. CASE Finished \/ UNCHANGED vars
    BY <2>13 DEF Finished, vars
  <2> QED
    BY <2>1, <2>2, <2>3, <2>4, <2>5, <2>6, <2>7, <2>8, <2>9, <2>10, <2>11,
       <2>12, <2>13 DEF Next, ThreadStep
<1> QED
  BY <1>1, <1>2, TypeCorrect, PTL DEF Spec

-----------------------------------------------------------------------------
(* What the refinement mapping makes of the owner.                         *)
LEMMA OwnerIsHolder ==
  ASSUME LockInv
  PROVE  /\ \A t \in Threads : Holding(t) => owner = t
         /\ (~ \E t \in Threads : Holding(t)) => owner = None
BY DEF LockInv, MutualExclusion, owner

(* A step that moves no thread across the acquiring exchange or the        *)
(* releasing one is a stuttering step of LockService.                      *)
LEMMA StutterStep ==
  ASSUME TypeOK, TypeOK',
         \A t \in Threads : Holding(t)' <=> Holding(t),
         \A t \in Threads : left'[t] = left[t]
  PROVE  UNCHANGED Service!vars
<1>1. owner' = owner
  BY DEF owner
<1>2. left' = left
  BY DEF left
<1> QED
  BY <1>1, <1>2 DEF Service!vars

(* A step in which t, until then without it, takes the free lock is an     *)
(* Acquire step of LockService.                                            *)
LEMMA AcquireStep ==
  ASSUME LockInv, LockInv', NEW t \in Threads,
         ~ \E u \in Threads : Holding(u), Locking(t),
         Holding(t)', UNCHANGED loops,
         \A u \in Threads \ {t} : pc'[u] = pc[u]
  PROVE  Service!Acquire(t)
<1> USE LoopsAssumption DEF LockInv, TypeOK
<1>1. owner = None
  BY OwnerIsHolder
<1>2. owner' = t
  BY DEF owner, MutualExclusion
<1>3. ~ Locking(t)'
  BY DEF Locking, Holding, Contending
<1>4. left[t] = loops[t] + 1 /\ loops[t] \in Nat
  BY DEF left
<1>5. left' = [left EXCEPT ![t] = @ - 1]
  <2>1. \A u \in Threads \ {t} : left'[u] = left[u]
    BY DEF left, Locking, Contending
  <2>2. left'[t] = left[t] - 1
    BY <1>3, <1>4 DEF left
  <2> QED
    BY <2>1, <2>2 DEF left
<1> QED
  BY <1>1, <1>2, <1>4, <1>5 DEF Service!Acquire

(* A step in which the holder frees the lock is a Release step.            *)
LEMMA ReleaseStep ==
  ASSUME LockInv, LockInv', NEW t \in Threads,
         Holding(t), pc'[t] \in {"test", "unlock_wake"}, UNCHANGED loops,
         \A u \in Threads \ {t} : pc'[u] = pc[u]
  PROVE  Service!Release(t)
<1> USE DEF LockInv, TypeOK
<1>1. owner = t
  BY OwnerIsHolder
<1>2. ~ \E u \in Threads : Holding(u)'
  BY DEF MutualExclusion, Holding
<1>3. owner' = None
  BY <1>2 DEF owner
<1>4. left' = left
  BY DEF left, Locking, Contending, Holding
<1> QED
  BY <1>1, <1>3, <1>4 DEF Service!Release

(* Every step of the program is an acquisition, a release or nothing at    *)
(* all for whoever sees the lock only through LockService.                 *)
LEMMA RefinementStep ==
  LockInv /\ LockInv' /\ [Next]_vars => [Service!Next]_(Service!vars)
<1> SUFFICES ASSUME LockInv, LockInv', [Next]_vars
             PROVE  [Service!Next]_(Service!vars)
  OBVIOUS
<1> USE LoopsAssumption DEF Goto, LoopHead, futex_cmpxchg
<1>0. TypeOK /\ TypeOK'
  BY DEF LockInv
<1>f. futex = 0 <=> ~ \E t \in Threads : Holding(t)
  BY DEF LockInv, WordTracksHolder
<1>1. ASSUME NEW t \in Threads, test(t) PROVE UNCHANGED Service!vars
  BY <1>0, <1>1, StutterStep
     DEF test, Holding, left, Locking, Contending, TypeOK
<1>2. ASSUME NEW t \in Threads,
             lock_read(t) \/ lock_cas12(t) \/ lock_wait(t) \/ lock_reread(t)
      PROVE UNCHANGED Service!vars
  <2>1. /\ \A u \in Threads : Holding(u)' <=> Holding(u)
        /\ \A u \in Threads : left'[u] = left[u]
    BY <1>0, <1>2 DEF lock_read, lock_cas12, lock_wait, lock_reread, Holding,
       left, Locking, Contending, TypeOK
  <2> QED
    BY <1>0, <2>1, StutterStep
<1>3. ASSUME NEW t \in Threads, lock_cas01(t) \/ lock_cas02(t)
      PROVE [Service!Next]_(Service!vars)
  <2>1. CASE futex = 0
    <3>1. /\ Locking(t) /\ Holding(t)' /\ UNCHANGED loops
          /\ \A u \in Threads \ {t} : pc'[u] = pc[u]
      BY <1>0, <1>3, <2>1 DEF lock_cas01, lock_cas02, Holding, Locking,
         Contending, TypeOK
    <3>2. Service!Acquire(t)
      BY <1>f, <2>1, <3>1, AcquireStep
    <3> QED
      BY <3>2 DEF Service!Next
  <2>2. CASE futex # 0
    <3>1. /\ \A u \in Threads : Holding(u)' <=> Holding(u)
          /\ \A u \in Threads : left'[u] = left[u]
      BY <1>0, <1>3, <2>2 DEF lock_cas01, lock_cas02, Holding, left, Locking,
         Contending, TypeOK
    <3> QED
      BY <1>0, <3>1, StutterStep
  <2> QED
    BY <2>1, <2>2
<1>4. ASSUME NEW t \in Threads, unlock_read(t) PROVE UNCHANGED Service!vars
  <2>1. futex # 0
    BY <1>4, <1>f DEF unlock_read, Holding
  <2>2. /\ \A u \in Threads : Holding(u)' <=> Holding(u)
        /\ \A u \in Threads : left'[u] = left[u]
    BY <1>0, <1>4, <2>1
       DEF unlock_read, Holding, left, Locking, Contending, TypeOK
  <2> QED
    BY <1>0, <2>2, StutterStep
<1>5. ASSUME NEW t \in Threads, unlock_cas10(t)
      PROVE [Service!Next]_(Service!vars)
  <2>1. CASE futex = 2
    <3>1. /\ \A u \in Threads : Holding(u)' <=> Holding(u)
          /\ \A u \in Threads : left'[u] = left[u]
      BY <1>0, <1>5, <2>1
         DEF unlock_cas10, Holding, left, Locking, Contending, TypeOK
    <3> QED
      BY <1>0, <3>1, StutterStep
  <2>2. CASE futex # 2
    <3>1. /\ Holding(t) /\ pc'[t] = "test" /\ UNCHANGED loops
          /\ \A u \in Threads \ {t} : pc'[u] = pc[u]
      BY <1>0, <1>5, <2>2 DEF unlock_cas10, Holding, TypeOK
    <3>2. Service!Release(t)
      BY <3>1, ReleaseStep
    <3> QED
      BY <3>2 DEF Service!Next
  <2> QED
    BY <2>1, <2>2
<1>6. ASSUME NEW t \in Threads, unlock_cas20(t)
      PROVE [Service!Next]_(Service!vars)
  <2>1. /\ Holding(t) /\ pc'[t] = "unlock_wake" /\ UNCHANGED loops
        /\ \A u \in Threads \ {t} : pc'[u] = pc[u]
    BY <1>0, <1>6 DEF unlock_cas20, Holding, TypeOK
  <2>2. Service!Release(t)
    BY <2>1, ReleaseStep
  <2> QED
    BY <2>2 DEF Service!Next
<1>7. ASSUME NEW t \in Threads, unlock_wake(t) PROVE UNCHANGED Service!vars
  <2>1. /\ \A u \in Threads : Holding(u)' <=> Holding(u)
        /\ \A u \in Threads : left'[u] = left[u]
    BY <1>0, <1>7, WakeOne
       DEF unlock_wake, Blocked, Holding, left, Locking, Contending, TypeOK
  <2> QED
    BY <1>0, <2>1, StutterStep
<1>8. ASSUME NEW t \in Threads, spurious(t) PROVE UNCHANGED Service!vars
  BY <1>0, <1>8, StutterStep
     DEF spurious, Holding, left, Locking, Contending, TypeOK
<1>9. CASE Finished \/ UNCHANGED vars
  <2>1. /\ \A u \in Threads : Holding(u)' <=> Holding(u)
        /\ \A u \in Threads : left'[u] = left[u]
    BY <1>9 DEF Finished, vars, Holding, left, Locking, Contending
  <2> QED
    BY <1>0, <2>1, StutterStep
<1> QED
  BY <1>1, <1>2, <1>3, <1>4, <1>5, <1>6, <1>7, <1>8, <1>9
     DEF Next, ThreadStep

(* futex_wait_lock and futex_cmpxchg_unlock implement an atomic lock: to   *)
(* its users the lock is taken and freed in single steps, one thread at a  *)
(* time, and each thread takes it `loops' times.                           *)
THEOREM LockRefinement == Spec => Service!Safety
<1>1. Init => LockInv
  BY LoopsAssumption DEF Init, LockInv, TypeOK, PC, MutualExclusion,
     WordTracksHolder, Holding, FUTEX_INITIALIZER
<1>2. Init => Service!Init
  BY DEF Init, Service!Init, owner, left, Holding, Locking, Contending
<1> QED
  BY <1>1, <1>2, LockInvStep, RefinementStep, TypeCorrect, PTL
     DEF Spec, LockInv, Service!Safety

=============================================================================

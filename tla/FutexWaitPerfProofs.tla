------------------------ MODULE FutexWaitPerfProofs -------------------------
(***************************************************************************)
(* Proofs about the whole of performance/futex_wait.c, for any number of   *)
(* threads and of iterations: the composition runs the harness and the     *)
(* lock, and what the program prints counts the work it has done.          *)
(***************************************************************************)
EXTENDS FutexWaitPerf, HarnessProofs

(* The constants that the lock gets satisfy its assumptions: the share of  *)
(* each thread is a number, and N is no worker.                            *)
LEMMA LockAssumptions == Loops \in Nat /\ N \notin Workers
BY WordFacts, IterationsAssumption DEF Loops, Workers

(* Every step of the program is one of the harness, and one of the lock,   *)
(* or leaves the other alone.                                              *)
LEMMA ProgramStep ==
  ASSUME [Next]_vars
  PROVE  [HarnessNext]_harnessVars /\ [Lock!Next]_(Lock!vars)
<1>1. ASSUME NEW w \in Workers, WorkerStep(w)
      PROVE  [HarnessNext]_harnessVars /\ [Lock!Next]_(Lock!vars)
  BY <1>1 DEF WorkerStep, measured_step, measured_return, HarnessNext, Lock!Next, lockVars,
     Lock!vars
<1>2. ASSUME NEW w \in Workers, spurious_lock(w)
      PROVE  [HarnessNext]_harnessVars /\ [Lock!Next]_(Lock!vars)
  BY <1>2 DEF spurious_lock, Lock!Next
<1>3. CASE (MainStep \/ SpuriousStep \/ HarnessDone) /\ UNCHANGED lockVars
  BY <1>3 DEF HarnessNext, lockVars, Lock!vars
<1>4. CASE UNCHANGED vars
  BY <1>4 DEF vars, Lock!vars
<1> QED
  BY <1>1, <1>2, <1>3, <1>4 DEF Next

(* futex_wait.c runs locktest() as Harness has it: whatever Harness        *)
(* promises of barriers, frame and clock it promises with the futex lock   *)
(* as the measured function.                                               *)
THEOREM ProgramRunsHarness == Spec => HarnessSpec
<1>1. Init => HarnessInit
  BY DEF Init
<1>2. [Next]_vars => [HarnessNext]_harnessVars
  BY ProgramStep
<1> QED
  BY <1>1, <1>2, PTL DEF Spec, HarnessSpec

(* And its workers use the lock as FutexMutex has it.                      *)
THEOREM ProgramRunsLock == Spec => Lock!Spec
<1>1. Init => Lock!Init
  BY DEF Init
<1>2. [Next]_vars => [Lock!Next]_(Lock!vars)
  BY ProgramStep
<1> QED
  BY <1>1, <1>2, PTL DEF Spec, Lock!Spec

-----------------------------------------------------------------------------
(* Word, holder and loop counters belong together; a thread that is done   *)
(* has made all its iterations.                                            *)
LockState ==
  /\ Lock!TypeOK /\ Lock!MutualExclusion /\ Lock!WordTracksHolder
  /\ \A w \in Workers : pc[w] = "done" => loops[w] = 0

(* A worker uses the lock inside the measured function only.               *)
Placed ==
  \A w \in Workers : /\ wat[w] = "before" /\ wpc[w] # "body" => pc[w] = "test"
                     /\ wat[w] = "after" => pc[w] = "done"

(* The lock's own steps keep its state, whoever takes them.                *)
LEMMA LockStateStep ==
  ASSUME LockState, [Lock!Next]_(Lock!vars)
  PROVE  LockState'
<1> USE LockAssumptions DEF LockState, Lock!TypeOK, Lock!PC, Lock!MutualExclusion,
        Lock!WordTracksHolder, Lock!Holding, Lock!Goto, Lock!LoopHead, Lock!futex_cmpxchg
<1>1. ASSUME NEW t \in Workers, Lock!test(t) PROVE LockState'
  BY <1>1 DEF Lock!test
<1>2. ASSUME NEW t \in Workers, Lock!lock_read(t) PROVE LockState'
  BY <1>2 DEF Lock!lock_read
<1>3. ASSUME NEW t \in Workers, Lock!lock_cas01(t) PROVE LockState'
  BY <1>3 DEF Lock!lock_cas01
<1>4. ASSUME NEW t \in Workers, Lock!lock_cas12(t) PROVE LockState'
  BY <1>4 DEF Lock!lock_cas12
<1>5. ASSUME NEW t \in Workers, Lock!lock_wait(t) PROVE LockState'
  BY <1>5 DEF Lock!lock_wait
<1>6. ASSUME NEW t \in Workers, Lock!lock_reread(t) PROVE LockState'
  BY <1>6 DEF Lock!lock_reread
<1>7. ASSUME NEW t \in Workers, Lock!lock_cas02(t) PROVE LockState'
  BY <1>7 DEF Lock!lock_cas02
<1>8. ASSUME NEW t \in Workers, Lock!unlock_read(t) PROVE LockState'
  BY <1>8 DEF Lock!unlock_read
<1>9. ASSUME NEW t \in Workers, Lock!unlock_cas10(t) PROVE LockState'
  BY <1>9 DEF Lock!unlock_cas10
<1>10. ASSUME NEW t \in Workers, Lock!unlock_cas20(t) PROVE LockState'
  BY <1>10 DEF Lock!unlock_cas20
<1>11. ASSUME NEW t \in Workers, Lock!unlock_wake(t) PROVE LockState'
  BY <1>11 DEF Lock!unlock_wake, Lock!Blocked, Lock!futex_wake
<1>12. ASSUME NEW t \in Workers, Lock!spurious(t) PROVE LockState'
  BY <1>12 DEF Lock!spurious
<1>13. CASE Lock!Finished \/ UNCHANGED Lock!vars
  BY <1>13 DEF Lock!Finished, Lock!vars
<1> QED
  BY <1>1, <1>2, <1>3, <1>4, <1>5, <1>6, <1>7, <1>8, <1>9, <1>10, <1>11, <1>12, <1>13
     DEF Lock!Next, Lock!ThreadStep

(* A step of one thread in the lock moves, besides itself, only threads    *)
(* that are blocked there.                                                 *)
LEMMA LockMoves ==
  ASSUME LockState, NEW t \in Workers, Lock!ThreadStep(t) \/ Lock!spurious(t)
  PROVE  /\ pc[t] # "done"
         /\ \A u \in Workers \ {t} : pc'[u] = pc[u] \/ pc[u] = "blocked"
<1> USE DEF LockState, Lock!TypeOK, Lock!Goto
<1>1. CASE Lock!unlock_wake(t)
  BY <1>1 DEF Lock!unlock_wake, Lock!Blocked, Lock!futex_wake
<1>2. CASE ~ Lock!unlock_wake(t)
  BY <1>2 DEF Lock!ThreadStep, Lock!spurious, Lock!test, Lock!lock_read, Lock!lock_cas01,
     Lock!lock_cas12, Lock!lock_wait, Lock!lock_reread, Lock!lock_cas02,
     Lock!unlock_read, Lock!unlock_cas10, Lock!unlock_cas20
<1> QED
  BY <1>1, <1>2

(* Every step keeps the workers' use of the lock within the function.      *)
LEMMA PlacedStep ==
  ASSUME HarnessInv, LockState, Placed, [Next]_vars
  PROVE  Placed'
<1>0. HarnessTypeOK
  BY DEF HarnessInv
<1>1. ASSUME NEW w \in Workers, measured_step(w) \/ spurious_lock(w) PROVE Placed'
  <2>1. /\ UNCHANGED <<wpc, wat>>
        /\ pc[w] # "done"
        /\ \A u \in Workers \ {w} : pc'[u] = pc[u] \/ pc[u] = "blocked"
    BY <1>1, LockMoves DEF measured_step, spurious_lock, harnessVars
  <2>2. wpc[w] = "body"
    BY <1>1 DEF measured_step, spurious_lock, Placed, Lock!spurious, HarnessTypeOK,
       Barriers, HarnessInv
  <2>3. wat[w] = "before"
    BY <2>2 DEF HarnessInv, WorkerInv
  <2> QED
    BY <2>1, <2>2, <2>3 DEF Placed
<1>2. ASSUME NEW w \in Workers, measured_return(w) PROVE Placed'
  BY <1>0, <1>2
     DEF measured_return, body_return, WGoto, lockVars, Placed, HarnessTypeOK
<1>3. ASSUME NEW w \in Workers, SyncStep(w) \/ spurious_worker(w), UNCHANGED lockVars
      PROVE  Placed'
  <2>1. /\ UNCHANGED <<wat, pc>>
        /\ \A u \in Workers : wpc[u] = "body" => wpc'[u] = "body"
    BY <1>0, <1>3
       DEF SyncStep, sync_dec, sync_check, sync_wake, sync_poll, sync_wait, sync_return,
           spurious_worker, WGoto, lockVars, HarnessTypeOK
  <2> QED
    BY <2>1 DEF Placed
<1>4. ASSUME MainStep \/ spurious_main, UNCHANGED lockVars PROVE Placed'
  <2>1. UNCHANGED <<wat, pc>>
    BY <1>4 DEF MainStep, create_ok, create_fail, wait_read, wait_call, take_time,
       unblock_store, unblock_wake, join, spurious_main, lockVars
  <2>2. \A u \in Workers : wpc[u] = "body" => wpc'[u] = "body"
    <3>1. CASE create_ok
      <4>1. i \in Workers /\ wpc[i] = "none"
        BY <1>0, <3>1, WordFacts
        DEF create_ok, HarnessInv, CreateInv, HarnessTypeOK, Workers
      <4> QED
        BY <1>0, <3>1, <4>1 DEF create_ok, WGoto, HarnessTypeOK
    <3>2. CASE unblock_wake
      <4>1. PICK S \in futex_wake(BlockedAt(mat), INT_MAX) :
              wpc' = [w \in Workers |-> IF w \in S THEN "poll" ELSE wpc[w]]
        BY <3>2 DEF unblock_wake
      <4>2. \A w \in S : wpc[w] = "blocked"
        BY DEF futex_wake, BlockedAt
      <4> QED
        BY <4>1, <4>2
    <3>3. CASE ~ create_ok /\ ~ unblock_wake
      BY <1>4, <3>3 DEF MainStep, create_fail, wait_read, wait_call, take_time,
         unblock_store, join, spurious_main
    <3> QED
      BY <3>1, <3>2, <3>3
  <2> QED
    BY <2>1, <2>2 DEF Placed
<1>5. CASE (HarnessDone /\ UNCHANGED lockVars) \/ UNCHANGED vars
  BY <1>5 DEF HarnessDone, vars, harnessVars, lockVars, Placed
<1> QED
  BY <1>1, <1>2, <1>3, <1>4, <1>5 DEF Next, WorkerStep, SpuriousStep

(* The invariant of the composition.                                       *)
ProgramInv == HarnessInv /\ LockState /\ Placed

(* It holds of every reachable state: for any number of threads and any    *)
(* number of iterations, a pthread_create that fails included.             *)
THEOREM ProgramInvariance == Spec => []ProgramInv
<1>1. Init => LockState /\ Placed
  BY LockAssumptions
  DEF Init, HarnessInit, Lock!Init, LockState, Placed, Lock!TypeOK, Lock!PC,
      Lock!MutualExclusion, Lock!WordTracksHolder, Lock!Holding, Lock!FUTEX_INITIALIZER
<1>2. HarnessInv /\ LockState /\ Placed /\ [Next]_vars => LockState' /\ Placed'
  BY ProgramStep, LockStateStep, PlacedStep
<1>3. Spec => []HarnessInv
  BY ProgramRunsHarness, HarnessInvariance, PTL
<1> QED
  BY <1>1, <1>2, <1>3, PTL DEF Spec, ProgramInv

(* Inside the measured function the workers exclude each other, and the    *)
(* word says whether the lock is held.                                     *)
THEOREM ProgramExcludes == Spec => [](Lock!MutualExclusion /\ Lock!WordTracksHolder)
<1>1. ProgramInv => Lock!MutualExclusion /\ Lock!WordTracksHolder
  BY DEF ProgramInv, LockState
<1> QED
  BY <1>1, ProgramInvariance, PTL

(* The number of operations locktest() prints is the number the workers    *)
(* have made while the clock was running: when it stops, each of them is   *)
(* done with its share and the lock is free, and outside the measured time *)
(* nobody is in the lock.                                                  *)
THEOREM WorkIsCounted == Spec => []ResultCountsAllWork
<1>1. ProgramInv => ResultCountsAllWork
  <2> SUFFICES ASSUME ProgramInv PROVE ResultCountsAllWork
    OBVIOUS
  <2> USE DEF ProgramInv
  <2>1. ASSUME ClockStopped
        PROVE  (\A w \in Workers : pc[w] = "done" /\ loops[w] = 0) /\ futex = 0
    <3>1. HasMet("after")
      BY <2>1 DEF ClockStopped, HasMet
    <3>2. Arrived("after") = Workers
      BY <3>1, Counting DEF HarnessInv, MetInv, Barriers
    <3>3. \A w \in Workers : wat[w] = "after"
      BY <3>2 DEF Arrived
    <3>4. \A w \in Workers : pc[w] = "done"
      BY <3>3 DEF Placed
    <3>5. futex = 0
      BY <3>4 DEF LockState, Lock!WordTracksHolder, Lock!Holding
    <3> QED
      BY <3>4, <3>5 DEF LockState
  <2>2. ASSUME ~ ClockRunning, NEW w \in Workers PROVE pc[w] \in {"test", "done"}
    <3>1. wpc[w] # "body"
      BY <2>2, WindowIsMeasured DEF MeasuredWindow
    <3> QED
      BY <3>1 DEF Placed, HarnessInv, HarnessTypeOK, Barriers
  <2> QED
    BY <2>1, <2>2 DEF ResultCountsAllWork
<1> QED
  BY <1>1, ProgramInvariance, PTL

=============================================================================

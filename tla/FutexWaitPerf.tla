--------------------------- MODULE FutexWaitPerf ----------------------------
(***************************************************************************)
(* The whole of performance/futex_wait.c: main() calls locktest() with     *)
(* futex_wait_test, so that the workers of Harness run FutexMutex between  *)
(* the two barriers.  A worker inside "body" takes the lock's steps; its   *)
(* locktest_function returns when the lock's loop is done.                 *)
(***************************************************************************)
EXTENDS Harness

CONSTANT Iterations   \* the option -i

ASSUME IterationsAssumption == Iterations \in Nat

VARIABLES futex, pc, loops   \* shared.futex and the state of FutexMutex

Loops == Iterations \div N   \* shared.loops = iterations / threads

Lock == INSTANCE FutexMutex WITH Threads <- Workers, None <- N

vars == <<harnessVars, futex, pc, loops>>
lockVars == <<futex, pc, loops>>

Init == HarnessInit /\ Lock!Init

(* A worker runs the harness and, inside the measured function, the lock.  *)
measured_step(w) ==
  /\ wpc[w] = "body"
  /\ Lock!ThreadStep(w)
  /\ UNCHANGED harnessVars

measured_return(w) ==
  /\ pc[w] = "done"
  /\ body_return(w)
  /\ UNCHANGED lockVars

WorkerStep(w) ==
  \/ SyncStep(w) /\ UNCHANGED lockVars
  \/ measured_step(w)
  \/ measured_return(w)

spurious_lock(w) == Lock!spurious(w) /\ UNCHANGED harnessVars

Next ==
  \/ \E w \in Workers : WorkerStep(w) \/ spurious_lock(w)
  \/ (MainStep \/ SpuriousStep \/ HarnessDone) /\ UNCHANGED lockVars

Spec ==
  /\ Init /\ [][Next]_vars
  /\ \A w \in Workers : WF_vars(WorkerStep(w))
  /\ WF_vars(MainStep /\ UNCHANGED lockVars)

-----------------------------------------------------------------------------
(* The main thread has taken `after': what it will divide by the elapsed   *)
(* time is threads * shared.loops.                                         *)
ClockStopped ==
  /\ ~ aborted
  /\ mat = "after"
  /\ mpc \in {"unblock_store", "unblock_wake", "join", "returned"}

(* The result locktest prints counts work that was done, all of it within  *)
(* the measured time: when the clock stops every worker has completed all  *)
(* its iterations and the lock is free, and while the clock is not running *)
(* nobody holds, wants or waits for the lock.                              *)
ResultCountsAllWork ==
  /\ ClockStopped =>
       /\ \A w \in Workers : pc[w] = "done" /\ loops[w] = 0
       /\ futex = 0
  /\ ~ ClockRunning => \A w \in Workers : pc[w] \in {"test", "done"}

(* Harness assumes that the measured function returns; with the futex lock *)
(* as that function it does, so everything Harness promises under that     *)
(* assumption (HarnessTermination included) holds of the whole program.    *)
DischargesHarness == HarnessFairSpec

(* The program terminates, whatever the interleaving and even if a         *)
(* pthread_create fails, and a worker that was created has exited by then. *)
ProgramTermination ==
  <>(Returned /\ \A w \in Workers : wpc[w] \in {"none", "exited"})

=============================================================================

---------------------------- MODULE FutexMutex -----------------------------
(***************************************************************************)
(* The three-state futex lock of performance/futex_wait.c and the loop     *)
(* that measures it.  The word is 0 when the lock is free, 1 when it is    *)
(* held and nobody is known to wait, 2 when it is held and its holder must *)
(* wake a waiter.                                                          *)
(*                                                                         *)
(* One step is one access to the shared word or one system call; what a    *)
(* thread does with its local `status' until the next one is part of the   *)
(* step, and is kept in pc.                                                *)
(***************************************************************************)
EXTENDS Futex

CONSTANTS Threads,   \* the threads running futex_wait_test
          Loops,     \* its argument `loops'
          None       \* "no thread", for the refinement at the end

ASSUME LoopsAssumption == Loops \in Nat
ASSUME NoneAssumption == None \notin Threads

VARIABLES futex,     \* shared.futex
          pc,        \* what each thread does next
          loops      \* each thread's `loops'

vars == <<futex, pc, loops>>

PC == {"test",
       "lock_read", "lock_cas01", "lock_cas12", "lock_wait", "blocked",
       "lock_reread", "lock_cas02",
       "unlock_read", "unlock_cas10", "unlock_cas20", "unlock_wake",
       "done"}

Goto(t, l) == pc' = [pc EXCEPT ![t] = l]

(* The threads blocked in FUTEX_WAIT on the word.                          *)
Blocked == {t \in Threads : pc[t] = "blocked"}

Init ==
  /\ futex = FUTEX_INITIALIZER
  /\ pc = [t \in Threads |-> "test"]
  /\ loops = [t \in Threads |-> Loops]

-----------------------------------------------------------------------------
(* Mutant: the loop runs once too often.                                   *)
test_once_more(t) ==
  /\ pc[t] = "test"
  /\ \/ /\ loops[t] >= 0
        /\ loops' = [loops EXCEPT ![t] = @ - 1]
        /\ Goto(t, "lock_read")
     \/ /\ loops[t] < 0
        /\ Goto(t, "done")
        /\ UNCHANGED loops
  /\ UNCHANGED futex

(* futex_wait_test(): while (loops--) { lock; unlock; }                    *)
test(t) ==
  /\ pc[t] = "test"
  /\ \/ /\ loops[t] > 0
        /\ loops' = [loops EXCEPT ![t] = @ - 1]
        /\ Goto(t, "lock_read")
     \/ /\ loops[t] = 0
        /\ Goto(t, "done")
        /\ UNCHANGED loops
  /\ UNCHANGED futex

-----------------------------------------------------------------------------
(* futex_wait_lock()                                                       *)

(* Where the test at the head of the while loop leads for a value of       *)
(* status: out of the loop with the lock held, to the exchange of 1 for 2, *)
(* or straight to FUTEX_WAIT.                                              *)
LoopHead(status) == CASE status = 0 -> "unlock_read"
                      [] status = 1 -> "lock_cas12"
                      [] OTHER      -> "lock_wait"

lock_read(t) ==
  /\ pc[t] = "lock_read"
  /\ Goto(t, IF futex = 0 THEN "lock_cas01" ELSE LoopHead(futex))
  /\ UNCHANGED <<futex, loops>>

(* Mutant: a test and a store instead of a compare-and-exchange.           *)
lock_cas01_store(t) ==
  /\ pc[t] = "lock_cas01"
  /\ futex' = 1
  /\ Goto(t, "unlock_read")
  /\ UNCHANGED loops

lock_cas01(t) ==
  /\ pc[t] = "lock_cas01"
  /\ futex' = futex_cmpxchg(futex, 0, 1)
  /\ Goto(t, LoopHead(futex))
  /\ UNCHANGED loops

(* Mutant: "contended" is stored whatever the word holds by now.           *)
lock_cas12_store(t) ==
  /\ pc[t] = "lock_cas12"
  /\ futex' = 2
  /\ Goto(t, IF futex # 0 THEN "lock_wait" ELSE "lock_cas02")
  /\ UNCHANGED loops

lock_cas12(t) ==
  /\ pc[t] = "lock_cas12"
  /\ futex' = futex_cmpxchg(futex, 1, 2)
  /\ Goto(t, IF futex # 0 THEN "lock_wait" ELSE "lock_cas02")
  /\ UNCHANGED loops

lock_wait(t) ==
  /\ pc[t] = "lock_wait"
  /\ Goto(t, IF futex_wait_blocks(futex, 2) THEN "blocked" ELSE "lock_reread")
  /\ UNCHANGED <<futex, loops>>

(* Mutant: a woken thread takes the wake-up for the lock.                  *)
lock_reread_handoff(t) ==
  /\ pc[t] = "lock_reread"
  /\ Goto(t, "unlock_read")
  /\ UNCHANGED <<futex, loops>>

lock_reread(t) ==
  /\ pc[t] = "lock_reread"
  /\ Goto(t, IF futex = 0 THEN "lock_cas02" ELSE LoopHead(futex))
  /\ UNCHANGED <<futex, loops>>

(* Mutant: a thread that has waited takes the lock as uncontended.         *)
lock_cas02_one(t) ==
  /\ pc[t] = "lock_cas02"
  /\ futex' = futex_cmpxchg(futex, 0, 1)
  /\ Goto(t, LoopHead(futex))
  /\ UNCHANGED loops

lock_cas02(t) ==
  /\ pc[t] = "lock_cas02"
  /\ futex' = futex_cmpxchg(futex, 0, 2)
  /\ Goto(t, LoopHead(futex))
  /\ UNCHANGED loops

-----------------------------------------------------------------------------
(* futex_cmpxchg_unlock()                                                  *)
unlock_read(t) ==
  /\ pc[t] = "unlock_read"
  /\ Goto(t, CASE futex = 1 -> "unlock_cas10"
               [] futex = 2 -> "unlock_cas20"
               [] OTHER     -> "test")
  /\ UNCHANGED <<futex, loops>>

(* Mutant: the result of the first exchange is ignored.                    *)
unlock_cas10_ignored(t) ==
  /\ pc[t] = "unlock_cas10"
  /\ futex' = futex_cmpxchg(futex, 1, 0)
  /\ Goto(t, "test")
  /\ UNCHANGED loops

unlock_cas10(t) ==
  /\ pc[t] = "unlock_cas10"
  /\ futex' = futex_cmpxchg(futex, 1, 0)
  /\ Goto(t, IF futex = 2 THEN "unlock_cas20" ELSE "test")
  /\ UNCHANGED loops

(* Mutant: nobody is woken.                                                *)
unlock_cas20_no_wake(t) ==
  /\ pc[t] = "unlock_cas20"
  /\ futex' = futex_cmpxchg(futex, 2, 0)
  /\ Goto(t, "test")
  /\ UNCHANGED loops

unlock_cas20(t) ==
  /\ pc[t] = "unlock_cas20"
  /\ futex' = futex_cmpxchg(futex, 2, 0)
  /\ Goto(t, "unlock_wake")
  /\ UNCHANGED loops

(* The woken thread returns from FUTEX_WAIT to the read after it.          *)
unlock_wake(t) ==
  /\ pc[t] = "unlock_wake"
  /\ \E S \in futex_wake(Blocked, 1) :
       pc' = [u \in Threads |-> IF u \in S THEN "lock_reread"
                                ELSE IF u = t THEN "test" ELSE pc[u]]
  /\ UNCHANGED <<futex, loops>>

-----------------------------------------------------------------------------
(* FUTEX_WAIT may return to a thread nobody woke (an interrupted call, a   *)
(* spurious wake-up); the lock ignores what the call returns.              *)
spurious(t) ==
  /\ pc[t] = "blocked"
  /\ Goto(t, "lock_reread")
  /\ UNCHANGED <<futex, loops>>

ThreadStep(t) ==
  \/ test(t)
  \/ lock_read(t) \/ lock_cas01(t) \/ lock_cas12(t)
  \/ lock_wait(t) \/ lock_reread(t) \/ lock_cas02(t)
  \/ unlock_read(t) \/ unlock_cas10(t) \/ unlock_cas20(t) \/ unlock_wake(t)

AllDone == \A t \in Threads : pc[t] = "done"

(* Stuttering once every thread has returned, so that any other state      *)
(* without a successor is reported as a deadlock.                          *)
Finished == AllDone /\ UNCHANGED vars

Next == (\E t \in Threads : ThreadStep(t) \/ spurious(t)) \/ Finished

Spec == Init /\ [][Next]_vars

(* A runnable thread is eventually scheduled; a blocked one is not         *)
(* promised anything.                                                      *)
FairSpec == Spec /\ \A t \in Threads : WF_vars(ThreadStep(t))

-----------------------------------------------------------------------------
TypeOK ==
  /\ futex \in {0, 1, 2}
  /\ pc \in [Threads -> PC]
  /\ loops \in [Threads -> 0 .. Loops]

(* The threads between a successful lock and the store that releases it.   *)
Holding(t) == pc[t] \in {"unlock_read", "unlock_cas10", "unlock_cas20"}

(* No two threads are between the exchange that takes the lock in          *)
(* futex_wait_lock and the one that frees it in futex_cmpxchg_unlock.      *)
MutualExclusion == \A t, u \in Threads : Holding(t) /\ Holding(u) => t = u

(* The word tells the truth: it is 0 exactly when nobody holds the lock,   *)
(* and a holder that has decided to release a contended lock finds it      *)
(* contended, so the result futex_cmpxchg_unlock ignores is never a        *)
(* failure.                                                                *)
WordTracksHolder ==
  /\ futex = 0 <=> ~ \E t \in Threads : Holding(t)
  /\ \A t \in Threads : pc[t] = "unlock_cas20" => futex = 2

(* The threads that will leave 2 in the word, or read it there, before     *)
(* they block or take the lock.                                            *)
Contending(t) == pc[t] \in {"lock_cas12", "lock_wait", "lock_reread", "lock_cas02"}

(* No wake-up is lost: while a thread is blocked, either the word tells    *)
(* the holder to wake somebody, or somebody is about to call FUTEX_WAKE,   *)
(* or some awake thread will put the word back to 2 before it is done.     *)
NoLostWakeup ==
  Blocked # {} =>
    \/ futex = 2
    \/ \E t \in Threads : pc[t] = "unlock_wake" \/ Contending(t)

(* Every thread gets the lock as often as it asked for and returns from    *)
(* futex_wait_test.                                                        *)
Termination == <>AllDone

-----------------------------------------------------------------------------
(* The lock implements LockService: the thread that holds it is its owner, *)
(* and an acquisition counts from the exchange that succeeds, although     *)
(* futex_wait_test counts it down before it calls futex_wait_lock.         *)
owner == IF \E t \in Threads : Holding(t)
         THEN CHOOSE t \in Threads : Holding(t) ELSE None

Locking(t) == pc[t] = "lock_read" \/ pc[t] = "lock_cas01"
              \/ pc[t] = "blocked" \/ Contending(t)

left == [t \in Threads |-> IF Locking(t) THEN loops[t] + 1 ELSE loops[t]]

Service == INSTANCE LockService

(* Refinement with liveness, checked by TLC.                               *)
ImplementsLockService == Service!Spec

=============================================================================

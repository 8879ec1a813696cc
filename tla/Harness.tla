------------------------------ MODULE Harness -------------------------------
(***************************************************************************)
(* performance/harness.h: locktest() creates the workers, meets them at    *)
(* barrier_before, starts the clock, releases them into the function being *)
(* measured, meets them again at barrier_after, stops the clock, releases  *)
(* them and joins them.  If a pthread_create fails it releases the workers *)
(* it has created with -1, joins them and returns RET_ERROR.               *)
(*                                                                         *)
(* One step is one access to a shared word or one system call.  The        *)
(* measured function is the single state "body" here; FutexWaitPerf puts   *)
(* the futex lock in its place.                                            *)
(***************************************************************************)
EXTENDS Futex, Logging

CONSTANT N   \* the argument `threads' of locktest

ASSUME NAssumption == N \in 1 .. INT_MAX

Workers == 0 .. N - 1
Barriers == {"before", "after"}

VARIABLES barrier,   \* shared.barrier_before and shared.barrier_after
          wpc,       \* what each worker does next
          wat,       \* the barrier each worker is at, or comes to next
          mpc,       \* what the main thread does next
          mat,       \* the barrier the main thread is at
          seen,      \* `threads' in barrier_wait
          i,         \* `i' in locktest
          ret        \* what locktest will return

mainVars == <<mpc, mat, seen, i, ret>>
harnessVars == <<barrier, wpc, wat, mainVars>>

WorkerPC == {"none", "dec", "check", "wake", "poll", "wait", "blocked",
             "return", "body", "exited"}
MainPC == {"create", "wait_read", "wait_call", "wait_blocked", "times",
           "unblock_store", "unblock_wake", "join", "returned"}

barrier_init(threads) == [threads |-> threads, unblock |-> 0]

(* locktest has set up `shared' and is about to create the first thread.   *)
HarnessInit ==
  /\ barrier = [b \in Barriers |-> barrier_init(N)]
  /\ wpc = [w \in Workers |-> "none"]
  /\ wat = [w \in Workers |-> "before"]
  /\ mpc = "create"
  /\ mat = "before"
  /\ seen = 0
  /\ i = 0
  /\ ret = RET_PASS

(* locktest is on its pthread_create error path.                           *)
aborted == ret = RET_ERROR

-----------------------------------------------------------------------------
(* barrier_sync(), called by the workers.                                  *)

WGoto(w, l) == wpc' = [wpc EXCEPT ![w] = l]

(* Mutant: the second barrier counts down the first one's word.            *)
sync_dec_before(w) ==
  /\ wpc[w] = "dec"
  /\ barrier' = [barrier EXCEPT !["before"].threads = futex_dec(@)]
  /\ WGoto(w, "check")
  /\ UNCHANGED <<wat, mainVars>>

(* futex_dec(&barrier->threads); its result is not used.                   *)
sync_dec(w) ==
  /\ wpc[w] = "dec"
  /\ barrier' = [barrier EXCEPT ![wat[w]].threads = futex_dec(@)]
  /\ WGoto(w, "check")
  /\ UNCHANGED <<wat, mainVars>>

(* Mutant: the test is for the value before the decrement.                 *)
sync_check_one(w) ==
  /\ wpc[w] = "check"
  /\ WGoto(w, IF barrier[wat[w]].threads = 1 THEN "wake" ELSE "poll")
  /\ UNCHANGED <<barrier, wat, mainVars>>

(* The word is read again: any worker that comes here late enough sees 0.  *)
sync_check(w) ==
  /\ wpc[w] = "check"
  /\ WGoto(w, IF barrier[wat[w]].threads = 0 THEN "wake" ELSE "poll")
  /\ UNCHANGED <<barrier, wat, mainVars>>

(* futex_wake(&barrier->threads, 1): only the main thread waits there.     *)
sync_wake(w) ==
  /\ wpc[w] = "wake"
  /\ mpc' = IF mpc = "wait_blocked" /\ mat = wat[w] THEN "wait_read" ELSE mpc
  /\ WGoto(w, "poll")
  /\ UNCHANGED <<barrier, wat, mat, seen, i, ret>>

sync_poll(w) ==
  /\ wpc[w] = "poll"
  /\ WGoto(w, IF barrier[wat[w]].unblock = 0 THEN "wait" ELSE "return")
  /\ UNCHANGED <<barrier, wat, mainVars>>

sync_wait(w) ==
  /\ wpc[w] = "wait"
  /\ WGoto(w, IF futex_wait_blocks(barrier[wat[w]].unblock, 0)
              THEN "blocked" ELSE "poll")
  /\ UNCHANGED <<barrier, wat, mainVars>>

-----------------------------------------------------------------------------
(* Mutant: the result is tested as a truth value.                          *)
sync_return_nonzero(w) ==
  /\ wpc[w] = "return"
  /\ WGoto(w, IF wat[w] = "before" /\ ToInt(barrier[wat[w]].unblock) # 0
              THEN "body" ELSE "exited")
  /\ UNCHANGED <<barrier, wat, mainVars>>

(* locktest_thread(): what becomes of the value barrier_sync returns, an   *)
(* int made of the unsigned word.  After barrier_after it is ignored.      *)
sync_return(w) ==
  /\ wpc[w] = "return"
  /\ WGoto(w, IF wat[w] = "before" /\ ToInt(barrier[wat[w]].unblock) > 0
              THEN "body" ELSE "exited")
  /\ UNCHANGED <<barrier, wat, mainVars>>

(* locktest_function returns.                                              *)
body_return(w) ==
  /\ wpc[w] = "body"
  /\ wat' = [wat EXCEPT ![w] = "after"]
  /\ WGoto(w, "dec")
  /\ UNCHANGED <<barrier, mainVars>>

-----------------------------------------------------------------------------
(* locktest(), the main thread.                                            *)

(* Mutant: one thread too many.                                            *)
create_ok_one_more ==
  /\ mpc = "create"
  /\ WGoto(i, "dec")
  /\ i' = i + 1
  /\ mpc' = IF i' > N THEN "wait_read" ELSE "create"
  /\ UNCHANGED <<barrier, wat, mat, seen, ret>>

create_ok ==
  /\ mpc = "create"
  /\ i < N
  /\ WGoto(i, "dec")
  /\ i' = i + 1
  /\ mpc' = IF i' = N THEN "wait_read" ELSE "create"
  /\ UNCHANGED <<barrier, wat, mat, seen, ret>>

create_fail ==
  /\ mpc = "create"
  /\ i < N
  /\ ret' = RET_ERROR
  /\ mpc' = "unblock_store"
  /\ UNCHANGED <<barrier, wpc, wat, mat, seen, i>>

(* Mutant: the loop stops one worker early.                                *)
wait_read_early ==
  /\ mpc = "wait_read"
  /\ seen' = barrier[mat].threads
  /\ mpc' = IF ToInt(seen') > 1 THEN "wait_call" ELSE "times"
  /\ UNCHANGED <<barrier, wpc, wat, mat, i, ret>>

(* barrier_wait(): while ((threads = barrier->threads) > 0)                *)
wait_read ==
  /\ mpc = "wait_read"
  /\ seen' = barrier[mat].threads
  /\ mpc' = IF ToInt(seen') > 0 THEN "wait_call" ELSE "times"
  /\ UNCHANGED <<barrier, wpc, wat, mat, i, ret>>

wait_call ==
  /\ mpc = "wait_call"
  /\ mpc' = IF futex_wait_blocks(barrier[mat].threads, seen)
            THEN "wait_blocked" ELSE "wait_read"
  /\ UNCHANGED <<barrier, wpc, wat, mat, seen, i, ret>>

(* before = times(...), or after = times(...)                              *)
take_time ==
  /\ mpc = "times"
  /\ mpc' = "unblock_store"
  /\ UNCHANGED <<barrier, wpc, wat, mat, seen, i, ret>>

(* barrier_unblock(): the store, then the wake-up of every waiter.         *)
unblock_store ==
  /\ mpc = "unblock_store"
  /\ barrier' = [barrier EXCEPT ![mat].unblock = ToU32(IF aborted THEN -1 ELSE 1)]
  /\ mpc' = "unblock_wake"
  /\ UNCHANGED <<wpc, wat, mat, seen, i, ret>>

(* What locktest does after barrier_unblock returns.                       *)
AfterUnblock ==
  \/ /\ mat = "before" /\ ~ aborted
     /\ mat' = "after"
     /\ mpc' = "wait_read"
     /\ UNCHANGED i
  \/ /\ mat = "before" /\ aborted
     /\ mpc' = "join"
     /\ UNCHANGED <<mat, i>>
  \/ /\ mat = "after"
     /\ mpc' = "join"
     /\ i' = 0
     /\ UNCHANGED mat

BlockedAt(b) == {w \in Workers : wpc[w] = "blocked" /\ wat[w] = b}

(* Mutant: only one worker is woken.                                       *)
unblock_wake_one ==
  /\ mpc = "unblock_wake"
  /\ \E S \in futex_wake(BlockedAt(mat), 1) :
       wpc' = [w \in Workers |-> IF w \in S THEN "poll" ELSE wpc[w]]
  /\ AfterUnblock
  /\ UNCHANGED <<barrier, wat, seen, ret>>

unblock_wake ==
  /\ mpc = "unblock_wake"
  /\ \E S \in futex_wake(BlockedAt(mat), INT_MAX) :
       wpc' = [w \in Workers |-> IF w \in S THEN "poll" ELSE wpc[w]]
  /\ AfterUnblock
  /\ UNCHANGED <<barrier, wat, seen, ret>>

(* Mutant: the error path does not join the first thread.                  *)
join_skips_first ==
  /\ mpc = "join"
  /\ \/ /\ ~ aborted /\ i < N
        /\ wpc[i] = "exited"
        /\ i' = i + 1
        /\ mpc' = IF i' = N THEN "returned" ELSE "join"
     \/ /\ aborted /\ i > 1
        /\ wpc[i - 1] = "exited"
        /\ i' = i - 1
        /\ UNCHANGED mpc
     \/ /\ aborted /\ i <= 1
        /\ mpc' = "returned"
        /\ UNCHANGED i
  /\ UNCHANGED <<barrier, wpc, wat, mat, seen, ret>>

(* pthread_join of every thread created: upwards on the normal path,       *)
(* downwards from the last one created on the error path.                  *)
join ==
  /\ mpc = "join"
  /\ \/ /\ ~ aborted /\ i < N
        /\ wpc[i] = "exited"
        /\ i' = i + 1
        /\ mpc' = IF i' = N THEN "returned" ELSE "join"
     \/ /\ aborted /\ i > 0
        /\ wpc[i - 1] = "exited"
        /\ i' = i - 1
        /\ UNCHANGED mpc
     \/ /\ aborted /\ i = 0
        /\ mpc' = "returned"
        /\ UNCHANGED i
  /\ UNCHANGED <<barrier, wpc, wat, mat, seen, ret>>

-----------------------------------------------------------------------------
(* FUTEX_WAIT may return to a thread nobody woke; both waits are in loops. *)
spurious_worker(w) ==
  /\ wpc[w] = "blocked"
  /\ WGoto(w, "poll")
  /\ UNCHANGED <<barrier, wat, mainVars>>

spurious_main ==
  /\ mpc = "wait_blocked"
  /\ mpc' = "wait_read"
  /\ UNCHANGED <<barrier, wpc, wat, mat, seen, i, ret>>

SyncStep(w) ==
  \/ sync_dec(w) \/ sync_check(w) \/ sync_wake(w)
  \/ sync_poll(w) \/ sync_wait(w) \/ sync_return(w)

MainStep ==
  \/ create_ok \/ create_fail
  \/ wait_read \/ wait_call \/ take_time
  \/ unblock_store \/ unblock_wake \/ join

SpuriousStep == (\E w \in Workers : spurious_worker(w)) \/ spurious_main

Returned == mpc = "returned"

(* Stuttering once locktest has returned, so that any other state without  *)
(* a successor is reported as a deadlock.                                  *)
HarnessDone == Returned /\ UNCHANGED harnessVars

HarnessNext ==
  \/ \E w \in Workers : SyncStep(w) \/ body_return(w)
  \/ MainStep
  \/ SpuriousStep
  \/ HarnessDone

HarnessSpec == HarnessInit /\ [][HarnessNext]_harnessVars

(* Every thread that is not blocked is eventually scheduled, and the       *)
(* measured function returns.                                              *)
HarnessFairSpec ==
  /\ HarnessSpec
  /\ \A w \in Workers : WF_harnessVars(SyncStep(w) \/ body_return(w))
  /\ WF_harnessVars(MainStep)

-----------------------------------------------------------------------------
HarnessTypeOK ==
  /\ barrier \in [Barriers -> [threads : futex_t, unblock : futex_t]]
  /\ wpc \in [Workers -> WorkerPC]
  /\ wat \in [Workers -> Barriers]
  /\ mpc \in MainPC
  /\ mat \in Barriers
  /\ seen \in futex_t
  /\ i \in 0 .. N
  /\ ret \in {RET_PASS, RET_ERROR}

(* The main thread has read the clock before, and not yet after, the work. *)
ClockRunning ==
  /\ ~ aborted
  /\ \/ mat = "before" /\ mpc \in {"unblock_store", "unblock_wake"}
     \/ mat = "after" /\ mpc \in {"wait_read", "wait_call", "wait_blocked", "times"}

(* The time locktest reports is the time of the measured function: no      *)
(* worker is inside it before `before' is taken or after `after' is, and   *)
(* on the error path no worker ever enters it.                             *)
MeasuredWindow == \A w \in Workers : wpc[w] = "body" => ClockRunning

(* `shared' lives in locktest's frame: when locktest returns, on either    *)
(* path, no worker will touch it any more.                                 *)
NoUseAfterReturn ==
  Returned => \A w \in Workers : wpc[w] \in {"none", "exited"}

(* The workers that have counted themselves down at barrier b, and those   *)
(* that have left it.                                                      *)
Arrived(b) ==
  {w \in Workers : \/ wat[w] = b /\ wpc[w] \notin {"none", "dec"}
                   \/ b = "before" /\ wat[w] = "after"}

Gone(b) ==
  {w \in Workers : \/ wat[w] = b /\ wpc[w] \in {"body", "exited"}
                   \/ b = "before" /\ wat[w] = "after"}

(* The unsigned counter of a barrier is exactly the number of workers      *)
(* still to come; in particular it never wraps below 0, which barrier_wait *)
(* would take for "all here".                                              *)
CounterExact ==
  \A b \in Barriers : barrier[b].threads + Cardinality(Arrived(b)) = N

(* Nobody sleeps through the event it waits for.  While the main thread is *)
(* blocked in barrier_wait somebody has still to come or to call           *)
(* FUTEX_WAKE; while a worker is blocked in barrier_sync the barrier is    *)
(* still shut or barrier_unblock has still to call FUTEX_WAKE.             *)
NoSleeperForgotten ==
  /\ mpc = "wait_blocked" =>
       \/ Arrived(mat) # Workers
       \/ \E w \in Workers : wat[w] = mat /\ wpc[w] \in {"check", "wake"}
  /\ \A w \in Workers : wpc[w] = "blocked" =>
       \/ barrier[wat[w]].unblock = 0
       \/ mpc = "unblock_wake" /\ mat = wat[w]

(* locktest always returns, with or without a failing pthread_create.      *)
HarnessTermination == <>Returned

(* Each of the two barriers keeps the promise of Rendezvous: the workers   *)
(* are met when the main thread leaves barrier_wait, and let go by the     *)
(* store of barrier_unblock.                                               *)
Gate(b) ==
  LET leftWait == mpc \in {"times", "unblock_store"} /\ ~ aborted
  IN  CASE barrier[b].unblock # 0 -> IF aborted THEN "abandoned" ELSE "open"
        [] barrier[b].unblock = 0 /\ mat = b /\ leftWait -> "met"
        [] OTHER -> "closed"

BeforeMeeting == INSTANCE Rendezvous
  WITH arrived <- Arrived("before"), gate <- Gate("before"), gone <- Gone("before")
AfterMeeting == INSTANCE Rendezvous
  WITH arrived <- Arrived("after"), gate <- Gate("after"), gone <- Gone("after")

(* The refinement, for barrier_before and barrier_after.                   *)
ImplementsRendezvous == BeforeMeeting!Spec /\ AfterMeeting!Spec

=============================================================================

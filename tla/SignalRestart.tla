--------------------------- MODULE SignalRestart ----------------------------
(***************************************************************************)
(* functional/futex_requeue_pi_signal_restart.c: main() holds the PI futex *)
(* f2, signals the waiter blocked on f1 and requeues it to f2 until a      *)
(* requeue finds it, then signals it again; the waiter must come back with *)
(* EWOULDBLOCK.                                                            *)
(*                                                                         *)
(* One step is one access to a shared variable or one system call.  A      *)
(* SIGUSR1 sent to the waiter is pending until the waiter takes it.        *)
(***************************************************************************)
EXTENDS PiFutex, TestMain

Main == 0
Waiter == 1

VARIABLES f2,          \* the PI futex: its owner and its queue
          denied,      \* history: main() did not get f2 and has not noticed
          pending,     \* a SIGUSR1 is pending for the waiter
          requeued,    \* requeued.val
          waiter_ret,
          wpc,         \* what the waiter does next
          mpc,         \* what main() does next
          res, ret     \* its locals

mainVars == <<mpc, res, ret>>
vars == <<f2, denied, pending, requeued, waiter_ret, wpc, mainVars, io>>

WaiterPC == {"none", "start", "call", "on_f1", "on_f2",
             "ret_0", "ret_wouldblock", "ret_error", "unlock", "exited"}
MainPC == {"sigaction", "create", "lock", "locking", "kill", "usleep", "requeue",
           "decide", "kill_after", "join", "unlock", "out", "print", "return", "returned"}

Init ==
  /\ PlainInit /\ begun = FALSE
  /\ f2 = PI_INITIALIZER /\ denied = FALSE
  /\ pending = FALSE
  /\ requeued = 0
  /\ waiter_ret = 0
  /\ wpc = "none"
  /\ mpc = IF Running THEN "sigaction" ELSE "returned"
  /\ res = 0 /\ ret = RET_PASS

-----------------------------------------------------------------------------
(* waiterfn()                                                              *)

waiter_start ==
  /\ wpc = "start"
  /\ waiter_ret' = RET_PASS
  /\ wpc' = "call"
  /\ UNCHANGED <<f2, denied, pending, requeued, mainVars, io>>

(* FUTEX_WAIT_REQUEUE_PI blocks on f1, which is never written ...          *)
waiter_call ==
  /\ wpc = "call"
  /\ wpc' = "on_f1"
  /\ UNCHANGED <<f2, denied, pending, requeued, waiter_ret, mainVars, io>>

(* ... or it fails ...                                                     *)
waiter_fail ==
  /\ "wait" \in MayFail
  /\ wpc = "call"
  /\ wpc' = "ret_error"
  /\ UNCHANGED <<f2, denied, pending, requeued, waiter_ret, mainVars, io>>

(* ... it is restarted by a signal that finds the waiter on f1 ...         *)
waiter_restart ==
  /\ wpc = "on_f1"
  /\ pending
  /\ pending' = FALSE
  /\ wpc' = "call"
  /\ UNCHANGED <<f2, denied, requeued, waiter_ret, mainVars, io>>

(* ... and once the waiter has been requeued it returns 0 with f2 or, on a *)
(* signal, EWOULDBLOCK without it.                                         *)
waiter_return ==
  /\ wpc = "on_f2"
  /\ f2.owner = Waiter \/ pending
  /\ wpc' = IF f2.owner = Waiter THEN "ret_0" ELSE "ret_wouldblock"
  /\ pending' = FALSE
  /\ f2' = pi_dequeue(f2, Waiter)
  /\ UNCHANGED <<denied, requeued, waiter_ret, mainVars, io>>

(* handle_signal(): a signal taken outside the kernel changes nothing.     *)
handle_signal ==
  /\ pending
  /\ wpc \in {"start", "call", "ret_0", "ret_wouldblock", "ret_error", "unlock"}
  /\ pending' = FALSE
  /\ UNCHANGED <<f2, denied, requeued, waiter_ret, wpc, mainVars, io>>

(* if (!requeued.val || errno != EWOULDBLOCK): a failure ...               *)
waiter_check ==
  /\ \/ /\ wpc \in {"ret_wouldblock", "ret_error"}
        /\ requeued = 0 \/ wpc # "ret_wouldblock"
        /\ waiter_ret' = RET_FAIL /\ Say("FAIL") /\ wpc' = "exited"
     \/ /\ wpc = "ret_0"
        /\ Say("FAIL") /\ wpc' = "unlock"
        /\ UNCHANGED waiter_ret
     \/ /\ requeued = 1 /\ wpc = "ret_wouldblock"
        /\ wpc' = "exited"
        /\ UNCHANGED <<waiter_ret, io>>
  /\ UNCHANGED <<f2, denied, pending, requeued, mainVars>>

(* ... and a waiter that got f2 gives it back.                             *)
waiter_unlock ==
  /\ wpc = "unlock"
  /\ f2' \in futex_unlock_pi(f2, Waiter)
  /\ waiter_ret' = RET_FAIL
  /\ wpc' = "exited"
  /\ UNCHANGED <<denied, pending, requeued, mainVars, io>>

-----------------------------------------------------------------------------
(* main()                                                                  *)

sigaction ==
  /\ mpc = "sigaction"
  /\ Prepared
  /\ mpc' = "create"
  /\ UNCHANGED <<f2, denied, pending, requeued, waiter_ret, wpc, res, ret>>

sigaction_fail ==
  /\ "sigaction" \in MayFail
  /\ mpc = "sigaction"
  /\ Unprepared
  /\ mpc' = "returned"
  /\ UNCHANGED <<f2, denied, pending, requeued, waiter_ret, wpc, res, ret>>

(* What create_rt_thread() returns: each of its four calls may fail, and   *)
(* there is no thread then.                                                *)
create_rt_thread == IF "create" \in MayFail THEN {0, -1} ELSE {0}

create ==
  /\ mpc = "create"
  /\ wpc' = "start"
  /\ mpc' = "lock"
  /\ UNCHANGED <<f2, denied, pending, requeued, waiter_ret, res, ret, io>>

create_fail ==
  /\ -1 \in create_rt_thread
  /\ mpc = "create"
  /\ ret' = RET_ERROR /\ Say("ERROR")
  /\ mpc' = "out"
  /\ UNCHANGED <<f2, denied, pending, requeued, waiter_ret, wpc, res>>

(* futex_lock_pi(&f2): main() does not look at the result.                 *)
lock ==
  /\ mpc = "lock"
  /\ \/ f2' = futex_lock_pi(f2, Main) /\ mpc' = "locking" /\ UNCHANGED denied
     \/ /\ "lock" \in MayFail
        /\ denied' = TRUE /\ mpc' = "kill"
        /\ UNCHANGED f2
  /\ UNCHANGED <<pending, requeued, waiter_ret, wpc, res, ret, io>>

locked ==
  /\ mpc = "locking"
  /\ f2.owner = Main
  /\ mpc' = "kill"
  /\ UNCHANGED <<f2, denied, pending, requeued, waiter_ret, wpc, res, ret, io>>

(* pthread_kill(waiter, SIGUSR1), in the loop and after it: nothing comes  *)
(* of it if the waiter has exited.                                         *)
kill ==
  /\ mpc = "kill"
  /\ pending' = (wpc # "exited")
  /\ mpc' = "usleep"
  /\ UNCHANGED <<f2, denied, requeued, waiter_ret, wpc, res, ret, io>>

(* usleep(DELAY_US): the waiter may be back on f1 by then, or may not.     *)
delay ==
  /\ mpc = "usleep"
  /\ mpc' = "requeue"
  /\ UNCHANGED <<f2, denied, pending, requeued, waiter_ret, wpc, res, ret, io>>

(* Mutant: no second signal.                                               *)
kill_after_forgotten ==
  /\ mpc = "kill_after"
  /\ mpc' = "join"
  /\ UNCHANGED <<f2, denied, pending, requeued, waiter_ret, wpc, res, ret, io>>

kill_after ==
  /\ mpc = "kill_after"
  /\ pending' = (wpc # "exited")
  /\ mpc' = "join"
  /\ UNCHANGED <<f2, denied, requeued, waiter_ret, wpc, res, ret, io>>

requeue ==
  /\ mpc = "requeue"
  /\ \E m \in futex_cmp_requeue_pi(IF wpc = "on_f1" THEN {Waiter} ELSE {}, f2, 0) :
       /\ f2' = m.pi
       /\ wpc' = IF m.moved # {} THEN "on_f2" ELSE wpc
       /\ res' = Cardinality(m.moved)
  /\ mpc' = "decide"
  /\ UNCHANGED <<denied, pending, requeued, waiter_ret, ret, io>>

requeue_fail ==
  /\ "requeue" \in MayFail
  /\ mpc = "requeue"
  /\ res' = -1
  /\ mpc' = "decide"
  /\ UNCHANGED <<f2, denied, pending, requeued, waiter_ret, wpc, ret, io>>

(* Mutant: the waiter that was requeued is not enough.                     *)
decide_more ==
  /\ mpc = "decide"
  /\ \/ res > 1 /\ requeued' = 1 /\ mpc' = "kill_after"
     \/ res <= 1 /\ mpc' = "kill" /\ UNCHANGED requeued
  /\ UNCHANGED <<f2, denied, pending, waiter_ret, wpc, res, ret, io>>

(* The loop ends on res > 0; both tests in the code are for that.          *)
decide ==
  /\ mpc = "decide"
  /\ \/ res > 0 /\ requeued' = 1 /\ mpc' = "kill_after"
     \/ res <= 0 /\ mpc' = "kill" /\ UNCHANGED requeued
  /\ UNCHANGED <<f2, denied, pending, waiter_ret, wpc, res, ret, io>>

(* Mutant: main does not wait for the waiter before it unlocks f2.         *)
join_skipped ==
  /\ mpc = "join"
  /\ mpc' = "unlock"
  /\ UNCHANGED <<f2, denied, pending, requeued, waiter_ret, wpc, res, ret, io>>

join ==
  /\ mpc = "join"
  /\ wpc = "exited"
  /\ mpc' = "unlock"
  /\ UNCHANGED <<f2, denied, pending, requeued, waiter_ret, wpc, res, ret, io>>

unlock ==
  /\ mpc = "unlock"
  /\ f2' \in futex_unlock_pi(f2, Main)
  /\ mpc' = "out"
  /\ UNCHANGED <<denied, pending, requeued, waiter_ret, wpc, res, ret, io>>

(* Mutant: main returns what its last requeue returned.                    *)
out_res ==
  /\ mpc = "out"
  /\ ret' = IF ret = RET_PASS THEN res ELSE ret
  /\ mpc' = "print"
  /\ UNCHANGED <<f2, denied, pending, requeued, waiter_ret, wpc, res, io>>

out ==
  /\ mpc = "out"
  /\ ret' = IF ret = RET_PASS /\ waiter_ret # 0 THEN waiter_ret ELSE ret
  /\ mpc' = "print"
  /\ UNCHANGED <<f2, denied, pending, requeued, waiter_ret, wpc, res, io>>

print ==
  /\ mpc = "print"
  /\ Report(ret)
  /\ mpc' = "return"
  /\ UNCHANGED <<f2, denied, pending, requeued, waiter_ret, wpc, res, ret>>

return ==
  /\ mpc = "return"
  /\ Exit(ret)
  /\ mpc' = "returned"
  /\ UNCHANGED <<f2, denied, pending, requeued, waiter_ret, wpc, res, ret>>

-----------------------------------------------------------------------------
WaiterStep ==
  \/ waiter_start \/ waiter_call \/ waiter_fail \/ waiter_restart
  \/ waiter_return \/ handle_signal \/ waiter_check \/ waiter_unlock

MainStep ==
  \/ sigaction \/ sigaction_fail \/ create \/ create_fail \/ lock \/ locked
  \/ kill \/ delay \/ requeue \/ requeue_fail \/ decide \/ kill_after
  \/ join \/ unlock \/ out \/ print \/ return

Returned == mpc = "returned"

(* Stuttering once main() has returned, so that any other state without a  *)
(* successor is reported as a deadlock.                                    *)
Finished == Returned /\ UNCHANGED vars

Next == WaiterStep \/ MainStep \/ Finished

Spec == Init /\ [][Next]_vars

(* Both threads are scheduled whenever they are not blocked.               *)
FairSpec == Spec /\ WF_vars(WaiterStep) /\ WF_vars(MainStep)

-----------------------------------------------------------------------------
SignalTypeOK ==
  /\ TestTypeOK
  /\ f2 \in [owner : {Main, Waiter, Nobody}, queue : SUBSET {Main, Waiter}]
  /\ denied \in BOOLEAN /\ pending \in BOOLEAN
  /\ requeued \in {0, 1}
  /\ waiter_ret \in {RET_PASS, RET_FAIL}
  /\ wpc \in WaiterPC
  /\ mpc \in MainPC
  /\ res \in {-1, 0, 1}
  /\ ret \in {RET_PASS, RET_ERROR, RET_FAIL}

(* The comment on the join: "so the futex_unlock_pi() can't happen before  *)
(* the signal wakeup is detected in the kernel".  main() is in or before   *)
(* its join while the waiter is in the kernel, and f2 is never given to    *)
(* the waiter, so that the signal is the only thing that can end its wait; *)
(* unless main() itself never got f2, which it does not look at.           *)
UnlockAfterDetection ==
  /\ f2.owner = Waiter => denied
  /\ wpc \in {"on_f1", "on_f2"} =>
       mpc \in {"lock", "locking", "kill", "usleep", "requeue", "decide", "kill_after", "join"}

(* A pass is earned: main() reports one only if it had f2, a requeue       *)
(* succeeded and the waiter, off f2's queue again, came back from it with  *)
(* EWOULDBLOCK and saw that it had been requeued.                          *)
PassMeansInterrupted ==
  printed = <<"PASS">> =>
    /\ ~ denied
    /\ requeued = 1 /\ res = 1
    /\ wpc = "exited" /\ waiter_ret = RET_PASS
    /\ f2 = PI_INITIALIZER

(* From the requeue that finds the waiter on, the test comes to its end,   *)
(* whether the waiter takes the signal sent before the requeue or the one  *)
(* sent after it.                                                          *)
ReturnsOnceRequeued == (mpc = "decide" /\ res > 0) ~> Returned

(* The comment in the loop: "Wait for the waiter to block on f1 again."    *)
(* If, from some round on, the delay is long enough for the waiter to take *)
(* the signal and to block again, and the requeue does not keep failing,   *)
(* the loop ends and the test returns; unless the waiter's own call has    *)
(* failed, which the loop never looks at.                                  *)
DelayEndsTest ==
  /\ <>[][delay => ~ pending /\ wpc \in {"on_f1", "on_f2", "exited"}]_vars
  /\ <>[][~ requeue_fail]_vars
  => <>(Returned \/ wpc = "ret_error")

-----------------------------------------------------------------------------
(* What the comments and the description say of the program.               *)

(* "If res is non-zero, we either requeued the waiter or hit an error,     *)
(* break out and handle it."                                               *)
ErrorBreaksOut == [][mpc = "decide" /\ res # 0 => mpc' # "kill"]_vars

(* DESCRIPTION: a signal before the requeue "should be restarted by the    *)
(* kernel", one after it "should return EWOULDBLOCK to the waiter".  The   *)
(* kernel modelled here does both, so the test passes.                     *)
CorrectKernelPasses == printed # <<>> => ret = RET_PASS

=============================================================================

----------------------------- MODULE RequeuePi ------------------------------
(***************************************************************************)
(* functional/futex_requeue_pi.c: THREAD_MAX waiters block on f1 with      *)
(* FUTEX_WAIT_REQUEUE_PI; a waker moves them to the PI futex f2, one at a  *)
(* time (signal) or all at once (broadcast); with -o a third thread owns   *)
(* f2 meanwhile; with -t the waiters time out.  unit_test() creates them   *)
(* all, joins them and works out the verdict.                              *)
(*                                                                         *)
(* One step is one access to a shared variable or one system call.  f1 and *)
(* wake_complete are never written, so a wait on either always blocks.     *)
(***************************************************************************)
EXTENDS PiFutex, Logging

CONSTANTS THREAD_MAX,       \* the number of waiters: 10
          MAX_WAKE_ITERS,   \* 1000
          Commands,         \* the command lines to consider, as sequences of options
          MayFail           \* the calls that may fail

ASSUME ThreadAssumption == THREAD_MAX \in Nat \ {0}
ASSUME ItersAssumption == MAX_WAKE_ITERS \in Nat
ASSUME FailAssumption == MayFail \subseteq {"create", "wait", "requeue", "lock"}

Waiters == 0 .. THREAD_MAX - 1
Waker == THREAD_MAX
Blocker == THREAD_MAX + 1

VARIABLES opt,               \* the options main() has parsed
          waiters_blocked, waiters_woken,
          f2,                \* the PI futex: its owner and its queue
          denied,            \* history: the threads whose last futex_lock_pi(&f2)
                             \* failed and that went on without noticing
          wpc, wret,         \* each waiter: what it does next, args[i].ret
          kpc, kret,         \* the waker: what it does next, waker_arg.ret
          task_count, iters, \* the waker's locals; iters is its `i'
          bpc, bret,         \* the third-party blocker, blocker_arg.ret
          mpc, i, ret,       \* main and unit_test
          waiter_ret,        \* the index the pointer of that name stands for
          status             \* <<>> while the program runs, <<code>> once it has exited

waiterVars == <<wpc, wret>>
wakerVars == <<kpc, kret, task_count, iters>>
blockerVars == <<bpc, bret>>
mainVars == <<mpc, i, ret, waiter_ret, status>>
counters == <<waiters_blocked, waiters_woken>>
vars == <<opt, counters, f2, denied, waiterVars, wakerVars, blockerVars, mainVars>>

WaiterPC == {"none", "run", "call", "on_f1", "on_f2",
             "woken_ok", "woken_timeout", "woken_error",
             "lock", "locking", "unlock", "exited"}
WakerPC == {"none", "poll", "loop", "lock", "locking", "requeue", "test",
            "unlock", "tally", "wake", "exit", "exited"}
BlockerPC == {"none", "lock", "locking", "wait", "waiting", "unlock", "exited"}
MainPC == {"create_blocker", "create", "create_waker", "join_call", "join_null",
           "join_store", "join_blocker", "join_waker", "returned", "usage", "exited"}

(* What the options leave behind once main() has been through them all:    *)
(* -b sets broadcast and -o sets owner; locked is what the last of -l and  *)
(* -o makes of it, since -o clears it; timeout is whether the last -t gave *)
(* a number that atoi does not turn into 0 ("t") or one that it does       *)
(* ("t0").  -c and -v change only how messages look and which are shown.   *)
getopt(argv) ==
  LET At(c) == {k \in DOMAIN argv : argv[k] = c}
      LastIs(c, d) == \E k \in At(c) : \A j \in At(d) : j < k
  IN  [broadcast |-> At("b") # {}, owner |-> At("o") # {},
       locked |-> LastIs("l", "o"), timeout |-> LastIs("t", "t0")]

(* The loop ends the program at the first -h, with 0, or at the first      *)
(* option it does not know, with 1.                                        *)
usage(argv) ==
  LET Stops == {k \in DOMAIN argv : argv[k] \notin {"b", "c", "l", "o", "t", "t0", "v"}}
  IN  CASE Stops = {} -> <<>>
        [] \E k \in Stops : argv[k] = "h" /\ \A j \in Stops : k <= j -> <<0>>
        [] OTHER -> <<1>>

(* main() has parsed its options and calls unit_test(), or has exited.     *)
(* args[] is not initialised: all that is known of a ret is that it is 0   *)
(* or is not.                                                              *)
Garbage == {0, 1}

Init ==
  /\ \E argv \in Commands : opt = getopt(argv) /\ status = usage(argv)
  /\ waiters_blocked = 0 /\ waiters_woken = 0
  /\ f2 = PI_INITIALIZER /\ denied = {}
  /\ wpc = [w \in Waiters |-> "none"]
  /\ wret \in [Waiters -> Garbage]
  /\ kpc = "none" /\ kret = 0 /\ task_count = 0 /\ iters = 0
  /\ bpc = "none" /\ bret = 0
  /\ mpc = CASE status # <<>> -> "usage"
             [] status = <<>> /\ opt.owner -> "create_blocker"
             [] OTHER -> "create"
  /\ i = 0 /\ ret = RET_PASS /\ waiter_ret = 0

-----------------------------------------------------------------------------
(* waiterfn()                                                              *)

WGoto(w, l) == wpc' = [wpc EXCEPT ![w] = l]

waiter_run(w) ==
  /\ wpc[w] = "run"
  /\ waiters_blocked' = waiters_blocked + 1
  /\ WGoto(w, "call")
  /\ UNCHANGED <<opt, waiters_woken, f2, denied, wret, wakerVars, blockerVars, mainVars>>

(* FUTEX_WAIT_REQUEUE_PI: the waiter blocks on f1 ...                      *)
waiter_call(w) ==
  /\ wpc[w] = "call"
  /\ WGoto(w, "on_f1")
  /\ UNCHANGED <<opt, counters, f2, denied, wret, wakerVars, blockerVars, mainVars>>

(* ... or the call fails, at once or after the waiter has blocked.         *)
waiter_fail(w) ==
  /\ "wait" \in MayFail
  /\ wpc[w] \in {"call", "on_f1"}
  /\ WGoto(w, "woken_error")
  /\ wret' = [wret EXCEPT ![w] = -1]
  /\ UNCHANGED <<opt, counters, f2, denied, wakerVars, blockerVars, mainVars>>

(* It returns 0 to a waiter that owns f2 ...                               *)
waiter_requeued(w) ==
  /\ wpc[w] = "on_f2"
  /\ f2.owner = w
  /\ WGoto(w, "woken_ok")
  /\ wret' = [wret EXCEPT ![w] = 0]
  /\ UNCHANGED <<opt, counters, f2, denied, wakerVars, blockerVars, mainVars>>

(* ... and ETIMEDOUT to one that does not get f2 in time, requeued or not. *)
waiter_timeout(w) ==
  /\ opt.timeout
  /\ wpc[w] = "on_f1" \/ (wpc[w] = "on_f2" /\ f2.owner # w)
  /\ WGoto(w, "woken_timeout")
  /\ wret' = [wret EXCEPT ![w] = -1]
  /\ f2' = pi_dequeue(f2, w)
  /\ UNCHANGED <<opt, counters, denied, wakerVars, blockerVars, mainVars>>

(* Mutant: a waiter that timed out goes on as if it owned f2.              *)
waiter_woke_no_lock(w) ==
  /\ wpc[w] \in {"woken_ok", "woken_timeout"}
  /\ waiters_woken' = waiters_woken + 1
  /\ WGoto(w, "unlock")
  /\ wret' = [wret EXCEPT ![w] = 0]
  /\ UNCHANGED <<opt, waiters_blocked, f2, denied, wakerVars, blockerVars, mainVars>>

(* A waiter without f2 takes it, whatever the reason it has not got it.    *)
waiter_woke(w) ==
  /\ waiters_woken' = waiters_woken + 1
  /\ \/ /\ wpc[w] = "woken_ok"
        /\ WGoto(w, "unlock")
        /\ UNCHANGED wret
     \/ /\ wpc[w] = "woken_timeout"
        /\ WGoto(w, "lock")
        /\ wret' = [wret EXCEPT ![w] = 0]
     \/ /\ wpc[w] = "woken_error"
        /\ WGoto(w, "lock")
        /\ wret' = [wret EXCEPT ![w] = RET_ERROR]
  /\ UNCHANGED <<opt, waiters_blocked, f2, denied, wakerVars, blockerVars, mainVars>>

(* futex_lock_pi(&f2): it takes f2 or queues for it, or fails at once; the *)
(* waiter does not look at the result.                                     *)
waiter_lock(w) ==
  /\ wpc[w] = "lock"
  /\ \/ f2' = futex_lock_pi(f2, w) /\ WGoto(w, "locking") /\ UNCHANGED denied
     \/ /\ "lock" \in MayFail
        /\ denied' = denied \cup {w} /\ WGoto(w, "unlock")
        /\ UNCHANGED f2
  /\ UNCHANGED <<opt, counters, wret, wakerVars, blockerVars, mainVars>>

waiter_locked(w) ==
  /\ wpc[w] = "locking"
  /\ f2.owner = w
  /\ WGoto(w, "unlock")
  /\ UNCHANGED <<opt, counters, f2, denied, wret, wakerVars, blockerVars, mainVars>>

(* Mutant: the waiter exits without unlocking f2.                          *)
waiter_unlock_forgotten(w) ==
  /\ wpc[w] = "unlock"
  /\ WGoto(w, "exited")
  /\ UNCHANGED <<opt, counters, f2, denied, wret, wakerVars, blockerVars, mainVars>>

waiter_unlock(w) ==
  /\ wpc[w] = "unlock"
  /\ f2' \in futex_unlock_pi(f2, w)
  /\ WGoto(w, "exited")
  /\ UNCHANGED <<opt, counters, denied, wret, wakerVars, blockerVars, mainVars>>

-----------------------------------------------------------------------------
(* broadcast_wakerfn() and signal_wakerfn()                                *)

OnF1 == {w \in Waiters : wpc[w] = "on_f1"}

(* Where a waker goes that is about to requeue: with -l it takes f2 first. *)
StartRequeue == IF opt.locked THEN "lock" ELSE "requeue"

(* while (waiters_blocked.val < THREAD_MAX) usleep(1000)                   *)
waker_poll ==
  /\ kpc = "poll"
  /\ waiters_blocked >= THREAD_MAX
  /\ kpc' = IF opt.broadcast THEN StartRequeue ELSE "loop"
  /\ UNCHANGED <<opt, counters, f2, denied, waiterVars, kret, task_count, iters,
                 blockerVars, mainVars>>

(* Neither does the waker, which requeues with f2 or without it.           *)
waker_lock ==
  /\ kpc = "lock"
  /\ \/ /\ f2' = futex_lock_pi(f2, Waker) /\ kpc' = "locking"
        /\ denied' = denied \ {Waker}
     \/ /\ "lock" \in MayFail
        /\ denied' = denied \cup {Waker} /\ kpc' = "requeue"
        /\ UNCHANGED f2
  /\ UNCHANGED <<opt, counters, waiterVars, kret, task_count, iters,
                 blockerVars, mainVars>>

waker_locked ==
  /\ kpc = "locking"
  /\ f2.owner = Waker
  /\ kpc' = "requeue"
  /\ UNCHANGED <<opt, counters, f2, denied, waiterVars, kret, task_count, iters,
                 blockerVars, mainVars>>

(* One FUTEX_CMP_REQUEUE_PI that takes n waiters from f1.                  *)
Requeue(n, nr_requeue) ==
  \E m \in futex_cmp_requeue_pi(OnF1, f2, nr_requeue) :
    /\ n = Cardinality(m.moved)
    /\ f2' = m.pi
    /\ wpc' = [w \in Waiters |-> IF w \in m.moved THEN "on_f2" ELSE wpc[w]]

(* continue_requeue: the last iteration allowed is an error whatever it    *)
(* did, and its tasks are not counted.                                     *)
broadcast_requeue ==
  /\ kpc = "requeue" /\ opt.broadcast
  /\ \E n \in 0 .. THREAD_MAX :
       /\ Requeue(n, THREAD_MAX)
       /\ iters' = iters + 1
       /\ \/ /\ iters' < MAX_WAKE_ITERS
             /\ kret' = n
             /\ task_count' = task_count + n
             /\ kpc' = "test"
          \/ /\ iters' >= MAX_WAKE_ITERS
             /\ kret' = RET_ERROR
             /\ kpc' = "wake"
             /\ UNCHANGED task_count
  /\ UNCHANGED <<opt, counters, denied, wret, blockerVars, mainVars>>

(* if (task_count < THREAD_MAX - waiters_woken.val) goto continue_requeue  *)
broadcast_test ==
  /\ kpc = "test"
  /\ kpc' = IF task_count < THREAD_MAX - waiters_woken THEN "requeue" ELSE "wake"
  /\ UNCHANGED <<opt, counters, f2, denied, waiterVars, kret, task_count, iters,
                 blockerVars, mainVars>>

(* Mutant: the two counters are added up, as broadcast_wakerfn does.       *)
signal_loop_sum ==
  /\ kpc = "loop"
  /\ kpc' = IF task_count < THREAD_MAX - waiters_woken THEN StartRequeue ELSE "wake"
  /\ UNCHANGED <<opt, counters, f2, denied, waiterVars, kret, task_count, iters,
                 blockerVars, mainVars>>

(* The condition of the while loop of signal_wakerfn.                      *)
signal_loop ==
  /\ kpc = "loop"
  /\ kpc' = IF task_count < THREAD_MAX /\ waiters_woken < THREAD_MAX
            THEN StartRequeue ELSE "wake"
  /\ UNCHANGED <<opt, counters, f2, denied, waiterVars, kret, task_count, iters,
                 blockerVars, mainVars>>

signal_requeue ==
  /\ kpc = "requeue" /\ ~ opt.broadcast
  /\ \E n \in 0 .. 1 : Requeue(n, 0) /\ kret' = n
  /\ kpc' = IF opt.locked THEN "unlock" ELSE "tally"
  /\ UNCHANGED <<opt, counters, denied, wret, task_count, iters, blockerVars, mainVars>>

(* Either call fails.                                                      *)
requeue_fail ==
  /\ "requeue" \in MayFail
  /\ kpc = "requeue"
  /\ kret' = RET_ERROR
  /\ kpc' = CASE opt.broadcast -> "wake"
              [] ~ opt.broadcast /\ opt.locked -> "unlock"
              [] OTHER -> "tally"
  /\ UNCHANGED <<opt, counters, f2, denied, waiterVars, task_count, iters,
                 blockerVars, mainVars>>

(* Mutant: one iteration more before it gives up.                          *)
signal_tally_late ==
  /\ kpc = "tally"
  /\ \/ /\ kret < 0
        /\ kpc' = "wake"
        /\ UNCHANGED <<kret, task_count, iters>>
     \/ /\ kret >= 0
        /\ task_count' = task_count + kret
        /\ iters' = iters + 1
        /\ IF iters' > MAX_WAKE_ITERS + THREAD_MAX + 1
           THEN kret' = RET_ERROR /\ kpc' = "wake"
           ELSE UNCHANGED kret /\ kpc' = "loop"
  /\ UNCHANGED <<opt, counters, f2, denied, waiterVars, blockerVars, mainVars>>

(* The rest of the body of that loop: it breaks on an error, and gives up  *)
(* after MAX_WAKE_ITERS + THREAD_MAX iterations.                           *)
signal_tally ==
  /\ kpc = "tally"
  /\ \/ /\ kret < 0
        /\ kpc' = "wake"
        /\ UNCHANGED <<kret, task_count, iters>>
     \/ /\ kret >= 0
        /\ task_count' = task_count + kret
        /\ iters' = iters + 1
        /\ IF iters' > MAX_WAKE_ITERS + THREAD_MAX
           THEN kret' = RET_ERROR /\ kpc' = "wake"
           ELSE UNCHANGED kret /\ kpc' = "loop"
  /\ UNCHANGED <<opt, counters, f2, denied, waiterVars, blockerVars, mainVars>>

(* futex_wake(&wake_complete, 1): it reaches a blocker that waits there.   *)
waker_wake ==
  /\ kpc = "wake"
  /\ bpc' = IF bpc = "waiting" THEN "unlock" ELSE bpc
  /\ kpc' = IF opt.broadcast /\ opt.locked THEN "unlock" ELSE "exit"
  /\ UNCHANGED <<opt, counters, f2, denied, waiterVars, kret, task_count, iters,
                 bret, mainVars>>

(* The broadcaster lets f2 go at the end, the signaller in every iteration. *)
waker_unlock ==
  /\ kpc = "unlock"
  /\ f2' \in futex_unlock_pi(f2, Waker)
  /\ kpc' = IF opt.broadcast THEN "exit" ELSE "tally"
  /\ UNCHANGED <<opt, counters, denied, waiterVars, kret, task_count, iters,
                 blockerVars, mainVars>>

waker_exit ==
  /\ kpc = "exit"
  /\ kret' = IF kret > 0 \/ (kret = 0 /\ ~ opt.broadcast) THEN task_count ELSE kret
  /\ kpc' = "exited"
  /\ UNCHANGED <<opt, counters, f2, denied, waiterVars, task_count, iters,
                 blockerVars, mainVars>>

-----------------------------------------------------------------------------
(* third_party_blocker()                                                   *)

blocker_lock ==
  /\ bpc = "lock"
  /\ \/ f2' = futex_lock_pi(f2, Blocker) /\ bpc' = "locking" /\ UNCHANGED bret
     \/ /\ "lock" \in MayFail
        /\ bpc' = "exited" /\ bret' = RET_ERROR
        /\ UNCHANGED f2
  /\ UNCHANGED <<opt, counters, denied, waiterVars, wakerVars, mainVars>>

blocker_locked ==
  /\ bpc = "locking"
  /\ f2.owner = Blocker
  /\ bpc' = "wait"
  /\ UNCHANGED <<opt, counters, f2, denied, waiterVars, wakerVars, bret, mainVars>>

(* futex_wait(&wake_complete, wake_complete): nobody writes the word.      *)
blocker_wait ==
  /\ bpc = "wait"
  /\ bpc' = "waiting"
  /\ UNCHANGED <<opt, counters, f2, denied, waiterVars, wakerVars, bret, mainVars>>

(* It fails, at once or after the blocker has blocked.                     *)
blocker_fail ==
  /\ "wait" \in MayFail
  /\ bpc \in {"wait", "waiting"}
  /\ bpc' = "unlock" /\ bret' = -1
  /\ UNCHANGED <<opt, counters, f2, denied, waiterVars, wakerVars, mainVars>>

(* A wake-up nobody sent.                                                  *)
blocker_spurious ==
  /\ bpc = "waiting"
  /\ bpc' = "unlock"
  /\ UNCHANGED <<opt, counters, f2, denied, waiterVars, wakerVars, bret, mainVars>>

(* The unlock fails (EPERM) if the blocker does not own f2; args->ret      *)
(* holds what the wait returned.                                           *)
blocker_unlock ==
  /\ bpc = "unlock"
  /\ f2' \in futex_unlock_pi(f2, Blocker)
  /\ bret' = IF bret = 0 /\ f2.owner = Blocker THEN 0 ELSE RET_ERROR
  /\ bpc' = "exited"
  /\ UNCHANGED <<opt, counters, denied, waiterVars, wakerVars, mainVars>>

-----------------------------------------------------------------------------
(* unit_test()                                                             *)

create_blocker ==
  /\ mpc = "create_blocker"
  /\ bpc' = "lock"
  /\ mpc' = "create"
  /\ UNCHANGED <<opt, counters, f2, denied, waiterVars, wakerVars, bret, i, ret,
                 waiter_ret, status>>

create_waiter ==
  /\ mpc = "create"
  /\ WGoto(i, "run")
  /\ i' = i + 1
  /\ mpc' = IF i' < THREAD_MAX THEN "create" ELSE "create_waker"
  /\ UNCHANGED <<opt, counters, f2, denied, wret, wakerVars, blockerVars, ret,
                 waiter_ret, status>>

(* The joins start with waiter_ret = &args[0].ret and i = 0.               *)
create_waker ==
  /\ mpc = "create_waker"
  /\ kpc' = "poll"
  /\ mpc' = "join_call"
  /\ i' = 0 /\ waiter_ret' = 0
  /\ UNCHANGED <<opt, counters, f2, denied, waiterVars, kret, task_count, iters,
                 blockerVars, ret, status>>

(* What create_rt_thread() returns: each of its four calls may fail, and   *)
(* there is no thread then.                                                *)
create_rt_thread == IF "create" \in MayFail THEN {0, -1} ELSE {0}

(* It fails: unit_test returns at once, joining nobody.                    *)
create_fail ==
  /\ -1 \in create_rt_thread
  /\ mpc \in {"create_blocker", "create", "create_waker"}
  /\ ret' = RET_ERROR
  /\ mpc' = "returned"
  /\ UNCHANGED <<opt, counters, f2, denied, waiterVars, wakerVars, blockerVars,
                 i, waiter_ret, status>>

(* Mutant: the third party is not joined.                                  *)
join_waiter_last ==
  /\ mpc \in {"join_null", "join_store"}
  /\ wpc[i] = "exited"
  /\ waiter_ret' = IF mpc = "join_store" THEN i ELSE waiter_ret
  /\ i' = i + 1
  /\ mpc' = IF i' < THREAD_MAX THEN "join_call" ELSE "join_waker"
  /\ UNCHANGED <<opt, counters, f2, denied, waiterVars, wakerVars, blockerVars,
                 ret, status>>

(* Mutant: every join moves the pointer, so the last waiter's result wins. *)
join_call_always ==
  /\ mpc = "join_call"
  /\ mpc' = "join_store"
  /\ UNCHANGED <<opt, counters, f2, denied, waiterVars, wakerVars, blockerVars,
                 i, ret, waiter_ret, status>>

(* pthread_join(waiter[i], *waiter_ret ? NULL : &waiter_ret): the          *)
(* argument is evaluated while waiter i may still be running.              *)
join_call ==
  /\ mpc = "join_call"
  /\ mpc' = IF wret[waiter_ret] # 0 THEN "join_null" ELSE "join_store"
  /\ UNCHANGED <<opt, counters, f2, denied, waiterVars, wakerVars, blockerVars,
                 i, ret, waiter_ret, status>>

join_waiter ==
  /\ mpc \in {"join_null", "join_store"}
  /\ wpc[i] = "exited"
  /\ waiter_ret' = IF mpc = "join_store" THEN i ELSE waiter_ret
  /\ i' = i + 1
  /\ mpc' = CASE i' < THREAD_MAX -> "join_call"
              [] i' = THREAD_MAX /\ opt.owner -> "join_blocker"
              [] OTHER -> "join_waker"
  /\ UNCHANGED <<opt, counters, f2, denied, waiterVars, wakerVars, blockerVars,
                 ret, status>>

join_blocker ==
  /\ mpc = "join_blocker"
  /\ bpc = "exited"
  /\ mpc' = "join_waker"
  /\ UNCHANGED <<opt, counters, f2, denied, waiterVars, wakerVars, blockerVars,
                 i, ret, waiter_ret, status>>

(* The last join, and the verdict.                                         *)
join_waker ==
  /\ mpc = "join_waker"
  /\ kpc = "exited"
  /\ ret' = CASE wret[waiter_ret] # 0 -> wret[waiter_ret]
              [] wret[waiter_ret] = 0 /\ kret < 0 -> kret
              [] OTHER -> bret
  /\ mpc' = "returned"
  /\ UNCHANGED <<opt, counters, f2, denied, waiterVars, wakerVars, blockerVars,
                 i, waiter_ret, status>>

(* main() prints and returns what unit_test() has returned, which ends the *)
(* program, and with it the threads a failing create_rt_thread has left.   *)
main_return ==
  /\ mpc = "returned"
  /\ status' = <<ret>>
  /\ mpc' = "exited"
  /\ UNCHANGED <<opt, counters, f2, denied, waiterVars, wakerVars, blockerVars,
                 i, ret, waiter_ret>>

-----------------------------------------------------------------------------
Running == status = <<>>

WaiterStep(w) ==
  /\ Running
  /\ \/ waiter_run(w) \/ waiter_call(w)
     \/ waiter_requeued(w) \/ waiter_timeout(w)
     \/ waiter_woke(w) \/ waiter_lock(w) \/ waiter_locked(w) \/ waiter_unlock(w)

WakerStep ==
  /\ Running
  /\ \/ waker_poll \/ waker_lock \/ waker_locked
     \/ broadcast_requeue \/ broadcast_test
     \/ signal_loop \/ signal_requeue \/ requeue_fail \/ signal_tally
     \/ waker_wake \/ waker_unlock \/ waker_exit

BlockerStep ==
  /\ Running
  /\ blocker_lock \/ blocker_locked \/ blocker_wait \/ blocker_unlock

MainStep ==
  \/ create_blocker \/ create_waiter \/ create_waker \/ create_fail
  \/ join_call \/ join_waiter \/ join_blocker \/ join_waker
  \/ main_return

(* What the kernel may do to a thread that waits.                          *)
KernelStep ==
  /\ Running
  /\ (\E w \in Waiters : waiter_fail(w)) \/ blocker_fail \/ blocker_spurious

(* Stuttering once the program has exited.                                 *)
Finished == ~ Running /\ UNCHANGED vars

Next ==
  \/ \E w \in Waiters : WaiterStep(w)
  \/ WakerStep \/ BlockerStep \/ MainStep
  \/ KernelStep
  \/ Finished

Spec == Init /\ [][Next]_vars

(* Every thread that is not blocked is scheduled, and timers expire; a     *)
(* call that blocks need not fail, nor return without being woken.         *)
FairSpec ==
  /\ Spec
  /\ \A w \in Waiters : WF_vars(WaiterStep(w))
  /\ WF_vars(WakerStep)
  /\ WF_vars(BlockerStep)
  /\ WF_vars(MainStep)

-----------------------------------------------------------------------------
RequeueTypeOK ==
  /\ opt \in [broadcast : BOOLEAN, owner : BOOLEAN, locked : BOOLEAN, timeout : BOOLEAN]
  /\ waiters_blocked \in 0 .. THREAD_MAX /\ waiters_woken \in 0 .. THREAD_MAX
  /\ f2 \in [owner : Waiters \cup {Waker, Blocker, Nobody},
             queue : SUBSET (Waiters \cup {Waker, Blocker})]
  /\ denied \subseteq Waiters \cup {Waker}
  /\ wpc \in [Waiters -> WaiterPC] /\ wret \in [Waiters -> {RET_ERROR} \cup Garbage]
  /\ kpc \in WakerPC /\ kret \in RET_ERROR .. THREAD_MAX
  /\ task_count \in 0 .. THREAD_MAX
  /\ iters \in 0 .. MAX_WAKE_ITERS + THREAD_MAX + 1
  /\ bpc \in BlockerPC /\ bret \in {0, RET_ERROR}
  /\ mpc \in MainPC /\ i \in 0 .. THREAD_MAX /\ ret \in {RET_PASS, RET_ERROR}
  /\ waiter_ret \in Waiters /\ status \in {<<>>, <<0>>, <<1>>, <<RET_ERROR>>}

(* The threads whose position says that they own f2: they have returned    *)
(* from the call that gives it to them, have not unlocked it yet, and that *)
(* call did not fail unnoticed.                                            *)
Holds(t) ==
  /\ t \notin denied
  /\ \/ t \in Waiters /\ wpc[t] \in {"woken_ok", "unlock"}
     \/ t = Waker /\ opt.locked /\ kpc \in {"requeue", "test", "unlock"}
     \/ t = Waker /\ opt.locked /\ opt.broadcast /\ kpc = "wake"
     \/ t = Blocker /\ bpc \in {"wait", "waiting", "unlock"}

(* The threads inside a call that gives them f2.                           *)
Queues(t) ==
  \/ t \in Waiters /\ wpc[t] \in {"on_f2", "locking"}
  \/ t = Waker /\ kpc = "locking"
  \/ t = Blocker /\ bpc = "locking"

(* Whatever mixture of requeues, timeouts and errors brought a thread to   *)
(* its futex_unlock_pi(&f2), it owns f2 there, unless the futex_lock_pi of *)
(* line 146, 171 or 223, whose result nobody looks at, has failed; a       *)
(* thread after such a failure does not own f2, so that its unlock is      *)
(* refused and takes f2 from nobody.  No thread exits owning f2, and       *)
(* whoever is inside a call that is to give it f2 owns it or is queued.    *)
OwnershipExact ==
  \A t \in Waiters \cup {Waker, Blocker} :
    /\ Holds(t) => f2.owner = t
    /\ f2.owner = t => Holds(t) \/ Queues(t)
    /\ t \in f2.queue <=> Queues(t) /\ f2.owner # t

(* The waiters that nobody has taken off f1 yet.                           *)
NotYet == {w \in Waiters : wpc[w] \in {"none", "run", "call", "on_f1"}}

(* The broadcaster has f2 to itself while it requeues, and whom it has     *)
(* requeued stays on f2: -l, no timeout, and a futex_lock_pi that worked.  *)
BroadcastLocked == opt.broadcast /\ opt.locked /\ ~ opt.timeout /\ Waker \notin denied

(* A waker that ends without an error leaves no waiter behind on f1, in    *)
(* the modes whose loop condition counts every waiter once: the signaller, *)
(* and the broadcaster that holds f2 while it requeues and whose waiters   *)
(* do not time out.                                                        *)
NoWaiterLeftBehind ==
  kpc \in {"wake", "exit", "exited"} /\ kret >= 0 /\ (opt.broadcast => BroadcastLocked)
  => NotYet = {}

Returned == mpc \in {"returned", "exited"}

(* The threads that hold a pointer into the frame of unit_test(), to their *)
(* args[], waker_arg or blocker_arg, and may still write there.            *)
UsesFrame ==
  \/ \E w \in Waiters : wpc[w] \notin {"none", "exited"}
  \/ kpc \notin {"none", "exited"}
  \/ bpc \notin {"none", "exited"}

(* The frame of unit_test() goes away under a running thread on one path   *)
(* only: a create_rt_thread has failed, so that nothing was joined and no  *)
(* waker exists.  On that path what those threads write is never read, and *)
(* the program reports and returns an error.                               *)
FrameOutlivesThreads ==
  Returned /\ UsesFrame =>
    /\ -1 \in create_rt_thread /\ kpc = "none"
    /\ ret = RET_ERROR /\ status \in {<<>>, <<RET_ERROR>>}

(* Every thread was created and none of them ended in an error.            *)
AllWell ==
  /\ kpc # "none"
  /\ \A w \in Waiters : wret[w] = 0
  /\ kret >= 0 /\ bret = 0

(* The verdict is right: although the pointer waiter_ret starts out on an  *)
(* uninitialised int and is passed to pthread_join only if that int reads  *)
(* 0, unit_test reports an error exactly if a thread could not be created  *)
(* or ended in one, and never reports what args[] happened to contain; and *)
(* the program exits with 0 only then, or when asked for help.             *)
VerdictSound ==
  /\ Returned => (ret = RET_PASS <=> AllWell)
  /\ status = <<0>> => mpc = "usage" \/ AllWell

(* The waker has stopped before its work was done.                         *)
GaveUp == kpc = "exited" /\ kret = RET_ERROR

(* Without -o, and with -b only together with -l or -t, the program exits; *)
(* unless its waiters never time out and the waker has given up on them,   *)
(* or has broadcast without the f2 that -l asks for.                       *)
ConcludesOrGivesUp ==
  ~ opt.owner /\ (opt.broadcast => opt.locked \/ opt.timeout)
    ~> \/ ~ Running
       \/ ~ opt.timeout /\ (GaveUp \/ (opt.broadcast /\ Waker \in denied))

-----------------------------------------------------------------------------
(* What the documentation says of the program.                             *)

(* usage(): "-b Broadcast wakeup (all waiters)": a broadcaster that ends   *)
(* without an error has reached every waiter.                              *)
BroadcastReachesAll ==
  opt.broadcast /\ kpc = "exited" /\ kret >= 0 => NotYet = {}

(* README: "Tests return 0 for success and < 0 for failure": once the      *)
(* waker has not given up, the program returns.                            *)
TestReturnsOnceAllWoken == <>(Returned \/ GaveUp)

=============================================================================

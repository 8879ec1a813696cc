# A TLA+ verification of futextest

futextest is a small C test suite for the Linux futex system call: a header of
wrappers (`include/futextest.h`), functional tests that put the kernel's
priority-inheritance futexes and plain FUTEX_WAIT into chosen situations, and a
performance test that measures a futex lock. Its programs are short, but nearly
all of them are concurrent: threads meet at hand-made barriers, hand a lock to
each other, move each other between kernel queues, race timeouts and signals,
and then have to decide whether what they saw was right.

This directory holds TLA+ modules that model those programs step by step, TLC
configurations that check them on small instances, and TLAPS proofs of every
safety invariant and of the safety of every refinement the runs check: for every
number of threads, waiters and iterations, every command line, every choice of
what fails, every clock, timeout and width.

## 1. The system

| component | state | operations | hard because |
|---|---|---|---|
| futex wrappers, `include/futextest.h` | a 32-bit unsigned word, the kernel's queue for it | `futex_wait`, `futex_wake`, `futex_cmpxchg`, `futex_dec`, the PI operations | waits test the word and block atomically, everything around them is not atomic |
| atomic counters, `include/atomic.h` | `atomic_t` | `atomic_inc`, `atomic_set` | read without the lock by other threads |
| messages and results, `include/logging.h` | `_verbose` | `log_verbosity`, `error`, `fail`, `print_result`, the return codes | the level is clamped; messages, result line and exit status are written by several threads and must agree |
| futex lock, `performance/futex_wait.c` | one word: 0 free, 1 held, 2 held and contended | `futex_wait_lock`, `futex_cmpxchg_unlock`, `futex_wait_test` | lost wake-ups, stale `status` |
| harness, `performance/harness.h` | two barriers (a counter and a gate each), the frame of `locktest` | `barrier_init/sync/wait/unblock`, `locktest_thread`, `locktest` | wake before sleep, unsigned counters read as int, failing `pthread_create`, life time of the frame |
| `functional/futex_requeue_pi.c` | futexes `f1`, `f2`, `wake_complete`, two counters, `args[]`, options | `waiterfn`, `broadcast_wakerfn`, `signal_wakerfn`, `third_party_blocker`, `unit_test`, `main` | requeue racing timeouts, racing late waiters; uninitialised results; iteration limits |
| `functional/futex_requeue_pi_signal_restart.c` | `f1`, `f2`, `requeued`, a pending signal | `waiterfn`, `handle_signal`, `main` | signals before and after the requeue |
| timeout of `unit_test` (the same file) | `timeout_ns`, `ts` | the sum, its quotient and its remainder | two widths in one computation, overflow |
| `functional/futex_requeue_pi_mismatched_ops.c` | `f1`, `f2`, `child_ret` | `blocking_child`, `main` | joining a child nobody woke; an errno that may become the result |
| `functional/futex_wait_uninitialized_heap.c` | `child_blocked`, `child_ret` | `wait_thread`, `main` | unsynchronised reads after a delay, a child that is not joined |
| `functional/futex_wait_private_mapped_file.c` | `val` | `thr_futex_wait`, `main` | a timeout racing the wake-up; a child that ends the program |
| `functional/futex_wait_timeout.c`, `..._wouldblock.c` | – | one system call and the check of its errno | a `tv_nsec` that is not normalised |
| `run.sh`, makefiles, `stress/` | – | run the programs in order; `stress/` has no tests | – |

The programs do not talk to each other. Within a program the threads interact
through shared words, through the kernel's futex queues and through
`pthread_create` and `pthread_join`; the harness calls the lock through a
function pointer, the only call between components of this size.

What makes each part correct:

- the lock: mutual exclusion; a word that always tells whether the lock is held;
  no sleeper forgotten; every thread gets its turns;
- the harness: exactly the measured function is timed; `locktest` returns, on
  its error path too, and only when no worker uses its frame any more; nobody
  sleeps through the event it waits for;
- the requeue test: whoever unlocks the PI futex owns it; a waker that reports
  success has left nobody behind; the verdict says what happened; the test ends;
- the signal test: the PI futex is not given away before the signal has been
  seen; a pass is earned; the test ends once the requeue has succeeded, and a
  long enough delay makes it succeed;
- the timeout: the deadline is the clock plus the timeout, and never later;
- every small test: one result line, matching the exit status and the messages;
  no pass that was not earned; an end on every path that can have one.

`PROJECT.json` lists the hazards line by line.

## 2. The modules

Granularity is the same everywhere: one step is one access to a shared variable,
one system call or one result line, and what a thread does with its locals until
the next one belongs to the step. A message on stderr belongs to the step that
gives rise to it, unless another thread could tell the difference (`child_error`
and `child_report` of `PrivateMappedFile`, `child_says` of `UninitializedHeap`). A program counter per thread says which access comes next;
its labels name the place in the code. Every definition's lines are in the
`map` of `PROJECT.json`. Definitions whose comment begins with "Mutant" are
deliberately wrong variants of the definition that follows them; they are in no
specification, and serve to show that the property named in `PROJECT.json`
notices the bug.

| module | models | state |
|---|---|---|
| `Futex` | `futex_t` with its width `Word`, the conversions between int and `u_int32_t`, `futex_cmpxchg`, `futex_dec`; FUTEX_WAIT and FUTEX_WAKE (external) | none |
| `PiFutex` | FUTEX_LOCK_PI, UNLOCK_PI, CMP_REQUEUE_PI as operators on an owner and a queue (external) | none |
| `Logging` | the return codes, the verbosity and what it lets through, `print_result` | none |
| `TestProtocol` | abstract: one result and the matching exit status; an exit without a result only before the test has begun | `printed`, `status`, `begun` |
| `TestMain` | what the small tests share: the `getopt` loop, messages, the result line, the exit | `printed`, `said`, `status`, `begun`, `_verbose` |
| `MismatchedOps` | `futex_requeue_pi_mismatched_ops.c` | the two threads, `child_ret`, `ret` |
| `UninitializedHeap` | `futex_wait_uninitialized_heap.c` | the two threads, `child_blocked`, `child_ret`, `ret` |
| `PrivateMappedFile` | `futex_wait_private_mapped_file.c` | the two threads, `val`, `res`, `ret` |
| `WaitReturn` | `futex_wait_timeout.c` and `futex_wait_wouldblock.c` | `timeout_ns`, `res`, `errno`, `ret` |
| `FunctionalTests` | these five programs as `functional/run.sh` starts them, one process each: `prog` is the one that runs | theirs |
| `LockService` | abstract: one lock, acquired a given number of times by each thread | `owner`, `left` |
| `FutexMutex` | the futex lock and its loop | `futex`, `pc`, `loops` |
| `Rendezvous` | abstract: one meeting of the workers with the main thread | `arrived`, `gate`, `gone` |
| `Harness` | barriers, `locktest_thread`, `locktest` | `barrier`, `wpc`, `wat`, `mpc`, `mat`, `seen`, `i`, `ret` |
| `FutexWaitPerf` | the whole program: `Harness` with `FutexMutex` as the measured function | both |
| `RequeuePi` | `futex_requeue_pi.c` | options, counters, `f2`, one pc and result per thread, `status`; `denied` |
| `Timeout` | the absolute time `unit_test` computes, and the wait that gets it | `clock`, `timeout_ns`, `start`, `ts`, `pc` |
| `SignalRestart` | `futex_requeue_pi_signal_restart.c`, on top of `TestMain` | `f2`, the pending signal, `requeued`, the two threads; `denied` |
| `FutexMutexProofs`, `HarnessProofs`, `FutexWaitPerfProofs` | theorems about the performance test: its lock, its harness, their composition | – |
| `RequeuePiProofs`, `TimeoutProofs` | theorems about `futex_requeue_pi.c` | – |
| `TestMainProofs` | lemmas the small tests share: what the options leave, which steps are steps of `TestProtocol` | – |
| `SignalRestartProofs`, `FunctionalTestsProofs` | theorems about the signal test and the five small tests | – |
| `MC*` | constants for TLC | – |

Kernel behaviour that the programs rely on is external and kept as weak as the
programs need: FUTEX_WAKE wakes any of the sleepers, FUTEX_WAIT may return
without being woken, any thread queued on a PI futex may be its next owner (all
threads of the tests have one priority), FUTEX_CMP_REQUEUE_PI with `nr_wake` 1
moves at most `1 + nr_requeue` waiters and gives a free PI futex to one of them.
A thread that FUTEX_UNLOCK_PI has handed the futex to is its owner from then on,
even before it runs. A timeout can strike on `f1`, on `f2`, or not at all.
Signals are taken by a waiter on `f1` with a restart, on `f2` with EWOULDBLOCK,
and anywhere else without effect.

Abstractions in `RequeuePi`: an option is one element of a sequence ("t" for a
`-t` with a non-zero number, "t0" for one that is 0), and the option loop ends
the program at a `-h` or an unknown option (`usage`); an uninitialised `ret` is 0 or 1, since only its
being 0 matters; the polling loop on `waiters_blocked` is a guard; sleeping is
not modelled, because the code may rely on no particular delay; `f1` and
`wake_complete` are never written, so a wait on them blocks or fails;
`clock_gettime` succeeds. `create_rt_thread` is one step that succeeds or fails.
Every other call may fail too: the waits of the waiters and of the blocker, the
requeues, and every FUTEX_LOCK_PI. The blocker looks at the result of its lock;
the waiters and the wakers do not, and go on to requeue and to unlock `f2`
without owning it. The history variable `denied` records which threads are in
that position, and no action reads it; so it does in `SignalRestart`, where `main`
ignores the result of its lock. FUTEX_UNLOCK_PI by a thread that is not the owner
is refused. `main_return` stands for `print_result` and the return: it ends the
program and every thread that is left. Whether a waiter has a timeout is all
`RequeuePi` knows of `-t`; what time the waiters are given is the matter of
`Timeout`.

`TestProtocol` is what the code of the tests has in common, and it is more than
`README:44` says of the exit status ("0 for success and < 0 for failure"): a
program whose `mmap` or `sigaction` fails exits with 1 and without a result. The
history variable `begun` says when `main` has got these; from then on no exit is
without a result. The programs that need nothing of the kind have begun as soon
as their options are read.

Abstractions in the small tests: an option is a letter with its number; a
message is its kind, ERROR or FAIL, and is on stderr only if the verbosity lets
it through; a delay is a step, so that whatever the other thread may do in the
meantime it has done, or not. A failing kernel is one of the things that
`MayFail` lists: `detection` (the mismatch is not noticed), `zero_page` (the wait
on an untouched page blocks), `kernel` (a wrong errno). The join of a thread that
was never created, whose handle is uninitialised, returns or kills the program.

In `Timeout` a sum that does not fit in a long is undefined behaviour and has two
outcomes: the value that wraps around, or the full sum if the compiler keeps it
in a wider register.

## 3. What is checked

| run | instance | properties |
|---|---|---|
| `lock` | 3 threads, 2 loops | `TypeOK`, `MutualExclusion`, `WordTracksHolder`, `NoLostWakeup`, `Termination`, `ImplementsLockService` |
| `harness` | 3 workers, 3-bit words | `HarnessTypeOK`, `MeasuredWindow`, `NoUseAfterReturn`, `CounterExact`, `NoSleeperForgotten`, `HarnessTermination`, `ImplementsRendezvous` |
| `futex_wait_program` | 3 workers, 5 iterations (so one each, and two that the division drops) | `ResultCountsAllWork`, `DischargesHarness`, `ProgramTermination` |
| `requeue_pi` | 2 waiters, every combination of options in `functional/run.sh`, a `-h` and an unknown option, every failure | `RequeueTypeOK`, `OwnershipExact`, `NoWaiterLeftBehind`, `VerdictSound`, `FrameOutlivesThreads`, `ConcludesOrGivesUp` |
| `signal_restart` | every failure, every kind of option | `SignalTypeOK`, `UnlockAfterDetection`, `PassMeansInterrupted`, `ImplementsTestProtocol`, `ReturnsOnceRequeued`, `DelayEndsTest` |
| `functional_tests` | the five small tests, every failure, right and wrong kernels, every kind of option | `TestsTypeOK`, `MessagesAgree`, `WokenChildHasNoError`, `PassIsEarned`, `ImplementsTestProtocol`, `TestsEnd` |
| `timeout` | every phase of the clock, nine timeouts | `TimeoutTypeOK`, `DeadlineExact`, `NeverLate`, `NotRefused`, `TimesOut` |

What the newer runs show: the child's errno, which is no result of a test, never
becomes one, because `main` sees a pass only if its own wake-up ended the child's
wait; a `pthread_create` that fails unnoticed in `private_mapped_file` cannot
pass, because the wake-up then finds nobody; two threads that may both print a
result print one between them; a deadline computed from a sum that overflows
comes too early but never too late. `OwnershipExact` shows what the ignored
results of FUTEX_LOCK_PI cost: a thread that was denied `f2` never owns it, so its
unlock is refused and harms nobody; but a broadcaster that was denied the lock of
`-l` is one without `-l`, and may leave a waiter behind (`BroadcastLocked` in
`NoWaiterLeftBehind`, and an alternative of `ConcludesOrGivesUp`).
`FrameOutlivesThreads` shows that `unit_test` returns under running threads only
after a failing `create_rt_thread`, and that an error is reported then.

Bounds. Three threads are the fewest with a holder, a sleeper and a thread that
overtakes both; two loops let a thread come back while an earlier wake-up is
under way. Three workers let the one that sees the counter at 0 differ from the
one that brought it there, with a third one late; `Word = 8` is the smallest
width in which 3 fits an int and -1 is a value of its own. Two waiters show a
requeue that finds both, one or none, a free and an owned PI futex and a queue
with a choice (the waker or the blocker is there too); `MAX_WAKE_ITERS = 2`
makes both giving up and finishing in time happen; the instance has 1.1 million
states. More waiters are left to the proofs. The small tests are finite as they are; the
values bounded there are the words (`Word = 4`, for the value 0 or 1 and one
more) and the second (`NSEC = 10`, so that 9 is a valid and 20 an invalid
`tv_nsec`). `Timeout` counts in tenths of a second: `LONG_MAX = 21` is then a
32-bit long, in which the sums with 12 and less always fit and the ones with 13,
with 20 (the 2000000000 of `functional/run.sh`) and with 21 fit or not, depending
on the clock; `MaxClock = 35` lets the clock pass every deadline.

Fairness is weak fairness of every thread's own steps: the scheduler runs a
thread that is not blocked. A thread inside FUTEX_WAIT is promised nothing, and
a spurious return is never relied on, nor is the failure of a call that blocks
(`KernelStep` of `RequeuePi`, `child_wait_fail` and `wait_fail` are outside every
fairness condition; in `SignalRestart` the call fails only where it could as well
block). The expiry of a timeout is fair, since the kernel guarantees it: in
`RequeuePi` as part of the waiter's step, in `PrivateMappedFile` as
`wait_timeout`, in `Timeout` together with the clock. `HeapTerminates` assumes
nothing of the child, which a wrong kernel may never let return.
`DelayEndsTest` has a premise in place of fairness: from some round on the delay
of the loop suffices for the waiter to block again, and the requeue stops
failing; the code promises no more. `Harness` alone assumes
that the measured function returns; `DischargesHarness` shows that the futex
lock satisfies this. The futex lock needs no strong fairness, since each thread
asks for it a bounded number of times.

Deadlock is checked in the `lock`, `harness`, `futex_wait_program` and
`signal_restart` runs: their only states without another step are the final
ones. The `RequeuePi` runs switch it off because that program really can stop
for good, as the following runs show; `functional_tests` because
`mismatched_ops` can (below) and the sequential programs just end; `timeout`
because the clock is bounded.

### Disagreements with the documentation

Each of these runs checks one sentence of a comment, a usage text or the README
and is expected to fail; `PROJECT.json` quotes the sentence.

- `broadcast_misses_waiter`: with `-b` alone `broadcast_wakerfn` adds the tasks
  it has requeued to the waiters that have woken, which counts some of them
  twice; it may then stop while a late waiter is still to reach `f1`.
- `blocker_sleeps_through`: with `-o` the wake-up of `third_party_blocker` is
  lost if it comes before the wait, because no word changes.
- `requeue_error_loops`: in the signal test the branch for a failing requeue is
  unreachable (`res > 0` is tested twice).
- `early_signal_fails_test`: in the signal test a waiter may take the first
  signal after the requeue and before `requeued` is set, and the test fails a
  kernel that did what it should.
- `child_error_lost`: in `uninitialized_heap` the child clears `child_blocked`
  before it stores its error, so `main` may read the pass it started with.

Other disagreements that came up while reading and modelling, without a run of
their own:

- `-o` cancels an `-l` before it but not one after it; with `-o -l` the waker
  queues for the futex that is held until the waker is done
  (`futex_requeue_pi.c:382`).
- A waker that gives up leaves waiters on `f1` that `unit_test` joins for ever
  (`futex_requeue_pi.c:250`); `ConcludesOrGivesUp` allows for it.
- The results of FUTEX_LOCK_PI at `futex_requeue_pi.c:146`, `:171` and `:223` and
  at `futex_requeue_pi_signal_restart.c:176` are ignored; see `denied`.
- After a failing `create_rt_thread` `unit_test` returns while threads hold
  pointers into its frame (`futex_requeue_pi.c:317`, `:332`, `:342`); only the
  exit that follows keeps this harmless.
- In the signal test a waiter whose call fails exits, and `main` goes round its
  loop for ever; `DelayEndsTest` excludes it by name.
- `mismatched_ops` on a kernel that does not detect the mismatch hangs in its
  join before it prints the failure (`futex_requeue_pi_mismatched_ops.c:138`).
- `private_mapped_file` tests `ret < 0`, while `pthread_create` fails with a
  positive number (`futex_wait_private_mapped_file.c:114`).
- A failing `mmap` or `sigaction` exits with 1 and without a result line
  (`futex_wait_uninitialized_heap.c:108`,
  `futex_requeue_pi_signal_restart.c:163`), while `README:44` has "< 0" for a
  failure; `TestProtocol` has a step for it, which is possible only as long as
  the test has not begun.
- `futex_wait_timeout -t` with a second or more fails a right kernel, since
  `tv_nsec` is not normalised (`futex_wait_timeout.c:86`).
- `-v 0` hides the messages of errors and failures, of which
  `include/logging.h:100` says that they are always displayed.
- With a 32-bit long the sum of `futex_requeue_pi.c:303` overflows for the long
  timeout of `functional/run.sh`, and the waiters time out early.

## 4. What is proved

`FutexMutexProofs`, for any set of threads, any number of loops and any width:

- `TypeCorrect`: `TypeOK`.
- `LockCorrect` and `WordIsExact`: `MutualExclusion` and `WordTracksHolder`.
  Together they are inductive (`LockInvariance`): an exchange of 0 succeeds only
  if nobody holds the lock, and only the holder ever stores 0. The second half of
  `WordTracksHolder` is what makes the ignored result in `futex_cmpxchg_unlock`
  harmless.
- `NoWakeupIsLost`: `NoLostWakeup`, inductive on top of `TypeOK` and
  `LockCorrect`. The interesting step is the wake-up itself: it removes the
  wake-up that was promised, and the thread it wakes takes over the promise.
- `LockRefinement`: every behaviour is one of `LockService` without its
  fairness, with the holder as `owner` and with an acquisition counted at the
  exchange that succeeds.

`HarnessProofs`, for every number of threads from 1 to `INT_MAX` and any width:

- `HarnessTypeCorrect`: `HarnessTypeOK`; here the -1 of the error path is
  converted to a value of the word.
- `HarnessInvariance`: `HarnessInv` is inductive. It adds to the properties what
  the main thread's position says about the gates it has written (`MainInv`),
  where workers can be given those gates (`WorkerInv`), which workers exist or
  have been joined (`CreateInv`), and that a counter stays 0 once the main
  thread has met its workers (`MetInv`).
- `HarnessCorrect` (`MeasuredWindow`), `FrameOutlivesWorkers`
  (`NoUseAfterReturn`), `CountersAreExact` (`CounterExact`) and
  `SleepersAreWoken` (`NoSleeperForgotten`) follow from it. The counting argument
  (`CounterExact` with a cardinality) is what turns "the counter is 0" into "all
  have arrived".

`TimeoutProofs`, for every clock, every set of timeouts and every width of long,
whatever the number of nanoseconds in a second:

- `TimeoutInvariance`: `TimeoutInv` is inductive. It adds to `NeverLate` and to
  the type that `ts` is worth the clock plus the timeout, and is well formed for a
  positive one, if the sum fits (`TsExact`); and that only a time that is not well
  formed has been refused. The only step of interest is `set_timeout` (lemma `SetTimeout`): C's
  truncating quotient and remainder recombine to the sum (`QuotRem`, from the
  division lemma `DivMod`), the quotient is monotone (`QuotMonotone`), and the
  value a sum wraps around to is smaller than the sum, since only positive sums
  overflow (`SumInLong`).
- `TimeoutTypeCorrect`, `DeadlineIsExact`, `DeadlineIsNeverLate` and
  `PositiveIsAccepted` (`NotRefused`) follow from it.

`HarnessProofs` also has `BarriersMeet`, the refinement `ImplementsRendezvous`:
seen from either barrier, every step is one of `MeetingStep`. A worker arrives
with its decrement and leaves with the return of `barrier_sync`, which
`WorkerInv` allows only after the store of `barrier_unblock`; the main thread
meets the workers when it reads 0, and by the counting argument they are all
there.

`FutexWaitPerfProofs`, for any number of threads and of iterations:

- `ProgramRunsHarness` and `ProgramRunsLock`: the composed program implements
  `Harness` and `FutexMutex` (as `Lock`), so the safety theorems about the
  harness hold of the whole program; the constants the lock gets satisfy its
  assumptions (`LockAssumptions`), and `ProgramExcludes` states mutual exclusion
  for the program.
- `WorkIsCounted`: `ResultCountsAllWork`, from `ProgramInv`: the harness's
  invariant, the lock's (`LockState`, with the loop counters of the threads that
  are done) and their link `Placed`, that a worker is at the lock's start before
  the measured function and at its end after it. A wake-up of the lock moves
  threads other than the one that takes the step; that they are all inside the
  measured function too is what `Placed` needs to be inductive.

`RequeuePiProofs`, for any number of waiters, any `MAX_WAKE_ITERS`, every command
line and every failure; four inductive invariants, each on top of the ones
before it:

- `TypeInvariant`: `TypeInv`. The bounds in `RequeueTypeOK` (`TypeCorrect`) are
  not inductive, since three counters are only incremented. `CountInv` says what
  they count: `waiters_blocked` and `waiters_woken` are the sizes of the sets of
  waiters past those places, and `task_count`, together with what the signaller
  has requeued and not added yet, leaves room for every waiter that is still to
  be taken off `f1`. `IterInv` says that the waker looks at its limit before it
  goes on. `ControlInv` and `ResultInv` say what a position implies about the
  options, about the creation and the joins and about `ret`.
- `Ownership`: `OwnershipExact` is inductive, with every FUTEX_LOCK_PI failing or
  not. The lemmas `LockPi`, `AcquirePi`, `UnlockPi`, `DequeuePi` and
  `RequeuePiKeeps` state once what each PI operation does to the agreement
  (`Agrees`) between a futex and the sets of threads that hold it or queue for
  it; `UnlockPi` has the refusal, which is what an unlock after a failed lock
  comes to. `DeniedInv` says where a thread that was denied `f2` can be.
- `NobodyLeftBehind`: `NoWaiterLeftBehind`, from `WorkInv`. For the signaller it
  is arithmetic on `CountInv`: `task_count = THREAD_MAX` leaves no room. For the
  broadcaster `BroadcastInv` adds that, with `f2` locked and no timeouts,
  whatever `task_count` counts is still on `f2`, so no waiter is in
  `waiters_woken` as well. Without these conditions it would be false, as the
  run `broadcast_misses_waiter` shows; `f2` locked means that the lock has not
  failed unnoticed.
- `FrameOutlives` and `Verdict`: `FrameOutlivesThreads` and `VerdictSound`, from
  `ReturnInv`: the waiters below `i` have exited, and `waiter_ret` points to one
  of them that has failed if any has, although it starts on a `ret` that nobody
  has written. A return without a waker is one after a failing
  `create_rt_thread`, with an error as its result and, by `StatusInv`, as the
  exit status.

`TestMainProofs` shows that `getopt`, for any command line, leaves a verbosity
that `logging.h` knows and a program at work or gone with 0 or 1 (`GetoptType`);
that the last `-v` or `-t` exists when one was met needs a greatest member of a
set of positions, got from the least member that a set of numbers has
(`LeastExists`, by the well-foundedness of `<`). `ProtocolReport`,
`ProtocolReturn`, `ProtocolBegin` and `ProtocolAbandon` say which steps are steps
of `TestProtocol`. `Output` relates position,
result, result line and exit status of a test program; the lemmas `OutputStays`,
`OutputPrints`, `OutputReturns` and `OutputAbandons` say how it develops.

`SignalRestartProofs`: `SignalInvariant` (`SignalInv`: who owns and queues for
`f2`, by the positions of the two threads, and that after a failed lock of `main`
it is the waiter's from the requeue to its own unlock, which ends in RET_FAIL;
what `res` and `requeued` say in the loop; the output), and from it `SignalTypeCorrect`, `UnlockOnlyAfterDetection`
(`UnlockAfterDetection`), `PassIsAnInterruption` (`PassMeansInterrupted`) and the
refinement `SignalFollowsProtocol` (`ImplementsTestProtocol`).

`FunctionalTestsProofs`: one invariant per program, and `TestsInv` for the one
that runs.

- `MismatchedInv`: from the moment `main` has a pass of its own the child is on
  its way out with `child_ret = 0`.
- `HeapInv`: `child_blocked` is 0 exactly when the child's call is over, and a
  pass is read only after that.
- `MappedInv`: the output is that of `main` until the child has begun to exit and
  that of an error from then on (`Position`, `Outcome`), so that the two threads
  print one result between them; a pass means that the child was found asleep
  and silent (`Found`).
- `WaitInv`: the result is a pass exactly if `res` and `errno` are as expected.

Each of them also says that a program that has not exited has begun, except at
the `mmap` of `uninitialized_heap`; this is what leaves no exit without a result
after it.

`TestsTypeCorrect`, `MessagesAlwaysAgree` (`MessagesAgree`), `ChildErrnoStaysOut`
(`WokenChildHasNoError`), `PassesAreEarned` (`PassIsEarned`) and the refinement
`TestsFollowProtocol` (`ImplementsTestProtocol`) follow from it.

Assumptions are the named ASSUMEs of the modules: at least four word values, a
number of threads that fits an int and is not 0, natural loop counts and
iterations; a second of at least one nanosecond, timeouts that fit a long; at
least one waiter; command lines that are sequences of options with a number
each.

Only model-checked: everything temporal beyond safety, that is `Termination`,
`HarnessTermination`, `ProgramTermination`, the fairness parts of
`ImplementsLockService` and `DischargesHarness` (their safety parts are
`LockRefinement` and `ProgramRunsHarness`), `ConcludesOrGivesUp`,
`ReturnsOnceRequeued`, `DelayEndsTest`, `TestsEnd` and `TimesOut`. Liveness under
fairness, and the ENABLED in it, is out of the prover's reach. So is the
disagreement of the five failing runs: a counterexample is TLC's to find.

## 5. What is not modelled, and the plan

Not modelled, and why:

- colours, the wording of messages and `info()`: formatting, of which no property
  speaks;
- the clock ticks and the rate that `locktest` prints: floating point on the
  values of a real clock;
- makefiles and the sequence of the scripts: they look at no result and keep no
  state; `stress/` holds no test;
- the wrappers and atomics no program calls (`futex_wait_bitset`,
  `futex_wake_bitset`, `futex_wake_op`, `futex_requeue`, `futex_cmp_requeue`,
  `futex_inc`, `futex_set`, `atomic_cmpxchg`, `atomic_dec`): there is no use of
  them to model them from;
- a thread count of 0, which makes `locktest` divide by zero before any thread
  exists;
- what a thread does to the memory of `unit_test`'s dead frame between a failing
  `create_rt_thread` and the exit: `FrameOutlivesThreads` says when this can
  happen, not what comes of it;
- real time: whether a delay is long enough is a choice in every module, so no
  property says that 100 us or 5 s suffice.

Plan, in order of importance:

1. (done) the lock, its abstract service and their proofs; the harness and its
   proofs; the composition; the requeue test; the signal test.
2. (done) the five small tests and `TestProtocol`, which they and the signal test
   implement; the timeout arithmetic and its proofs.
3. (done) `RequeuePiProofs`, `SignalRestartProofs`, `FunctionalTestsProofs`: every
   invariant of the runs for every value of the constants.
4. (done) the refinements of `Rendezvous` and of `TestProtocol`, and the
   composition, as theorems.
5. Step theorems about the progress argument behind `Termination` and
   `ConcludesOrGivesUp`: measures that no step increases, as far as they can be
   stated without fairness.

-------------------------- MODULE UninitializedHeap -------------------------
(***************************************************************************)
(* functional/futex_wait_uninitialized_heap.c: a child waits for the value *)
(* 1 on a word of a fresh anonymous mapping, which reads as 0, so the call *)
(* must return at once; main() sleeps and looks whether it has.  Nobody    *)
(* joins the child: it dies with the program.                              *)
(*                                                                         *)
(* One step is one access to child_blocked or child_ret, one system call   *)
(* or one line of output.                                                  *)
(***************************************************************************)
EXTENDS TestMain, Futex

VARIABLES child_blocked, child_ret,
          cpc,             \* the child
          mpc, ret         \* main()

shared == <<child_blocked, child_ret>>
vars == <<shared, cpc, mpc, ret, io>>

ChildPC == {"none", "start", "wait", "asleep", "back_ok", "back_error",
            "failed", "storing", "returned"}
MainPC == {"mmap", "create", "check", "read", "print", "return", "exited"}

Init ==
  /\ PlainInit /\ begun = FALSE
  /\ child_blocked = 1 /\ child_ret = 0
  /\ cpc = "none"
  /\ mpc = IF Running THEN "mmap" ELSE "exited"
  /\ ret = RET_PASS

-----------------------------------------------------------------------------
(* wait_thread()                                                           *)

Goes(from, to) ==
  /\ Running
  /\ cpc = from
  /\ cpc' = to
  /\ UNCHANGED <<mpc, ret>>

child_start ==
  /\ Goes("start", "wait")
  /\ child_ret' = RET_PASS
  /\ UNCHANGED <<child_blocked, io>>

(* The word is 0 and the call returns EWOULDBLOCK; in a kernel that gets   *)
(* the zero page wrong it may block.                                       *)
futex_wait ==
  /\ \/ ~ futex_wait_blocks(0, 1) /\ Goes("wait", "back_ok")
     \/ "zero_page" \in MayFail /\ Goes("wait", "asleep")
     \/ "wait" \in MayFail /\ Goes("wait", "back_error")
  /\ UNCHANGED <<shared, io>>

spurious == Goes("asleep", "back_ok") /\ UNCHANGED <<shared, io>>

child_unblocked ==
  /\ \/ Goes("back_ok", "returned")
     \/ Goes("back_error", "failed")
  /\ child_blocked' = 0
  /\ UNCHANGED <<child_ret, io>>

(* error(...), and only then child_ret = RET_ERROR.                        *)
child_says == Goes("failed", "storing") /\ Say("ERROR") /\ UNCHANGED shared

child_stores ==
  /\ Goes("storing", "returned")
  /\ child_ret' = RET_ERROR
  /\ UNCHANGED <<child_blocked, io>>

-----------------------------------------------------------------------------
(* main()                                                                  *)

mmap ==
  /\ mpc = "mmap"
  /\ Prepared
  /\ mpc' = "create"
  /\ UNCHANGED <<shared, cpc, ret>>

mmap_fail ==
  /\ "mmap" \in MayFail
  /\ mpc = "mmap"
  /\ Unprepared
  /\ mpc' = "exited"
  /\ UNCHANGED <<shared, cpc, ret>>

(* Mutant: what pthread_create returned is what the test returns.          *)
create_raw ==
  /\ mpc = "create"
  /\ \/ cpc' = "start" /\ mpc' = "check" /\ UNCHANGED <<ret, io>>
     \/ ret' = 11 /\ mpc' = "print" /\ Say("ERROR") /\ UNCHANGED cpc
  /\ UNCHANGED shared

create ==
  /\ mpc = "create"
  /\ \/ cpc' = "start" /\ mpc' = "check" /\ UNCHANGED <<ret, io>>
     \/ /\ "create" \in MayFail
        /\ ret' = RET_ERROR /\ mpc' = "print" /\ Say("ERROR")
        /\ UNCHANGED cpc
  /\ UNCHANGED shared

(* usleep(WAIT_US): the child has returned by then, or it has not; if it   *)
(* has, its verdict is read in a second step.                              *)
check ==
  /\ mpc = "check"
  /\ \/ child_blocked = 1 /\ ret' = RET_FAIL /\ mpc' = "print" /\ Say("FAIL")
     \/ child_blocked = 0 /\ mpc' = "read" /\ UNCHANGED <<ret, io>>
  /\ UNCHANGED <<shared, cpc>>

read ==
  /\ mpc = "read"
  /\ ret' = child_ret
  /\ mpc' = "print"
  /\ UNCHANGED <<shared, cpc, io>>

print ==
  /\ mpc = "print"
  /\ Report(ret)
  /\ mpc' = "return"
  /\ UNCHANGED <<shared, cpc, ret>>

return ==
  /\ mpc = "return"
  /\ Exit(ret)
  /\ mpc' = "exited"
  /\ UNCHANGED <<shared, cpc, ret>>

-----------------------------------------------------------------------------
ChildStep == child_start \/ futex_wait \/ spurious \/ child_unblocked
             \/ child_says \/ child_stores
MainStep == mmap \/ mmap_fail \/ create \/ check \/ read \/ print \/ return

Next == ChildStep \/ MainStep

Spec == Init /\ [][Next]_vars

(* main() is scheduled; nothing is assumed of the child.                   *)
FairSpec == Spec /\ WF_vars(MainStep)

-----------------------------------------------------------------------------
HeapTypeOK ==
  /\ TestTypeOK
  /\ child_blocked \in {0, 1} /\ child_ret \in {RET_PASS, RET_ERROR}
  /\ cpc \in ChildPC
  /\ mpc \in MainPC /\ ret \in {RET_PASS, RET_ERROR, RET_FAIL}
  /\ status \in {<<>>, <<0>>, <<1>>, <<RET_ERROR>>, <<RET_FAIL>>}

(* A pass means that the child's call has come back from the kernel.       *)
PassMeansReturned == printed = <<"PASS">> => cpc \in {"failed", "storing", "returned"}

(* The test ends even if its child never comes back: main() does not join. *)
HeapTerminates == <>(~ Running)

-----------------------------------------------------------------------------
(* README: "Tests return 0 for success and < 0 for failure": a child whose *)
(* call has failed does not leave the test with a 0.                       *)
ChildErrorIsReported == cpc \in {"failed", "storing"} => status # <<RET_PASS>>

=============================================================================

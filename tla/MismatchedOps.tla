--------------------------- MODULE MismatchedOps ----------------------------
(***************************************************************************)
(* functional/futex_requeue_pi_mismatched_ops.c: a child blocks on f1 with *)
(* a plain FUTEX_WAIT; main() tries to requeue it with                     *)
(* FUTEX_CMP_REQUEUE_PI, which the kernel must refuse with EINVAL, wakes   *)
(* it and joins it.                                                        *)
(*                                                                         *)
(* One step is one system call or one access to child_ret.  f1 is never    *)
(* written, so the wait always blocks.                                     *)
(***************************************************************************)
EXTENDS TestMain

EINTR == 4
EFAULT == 14

VARIABLES cpc, child_ret,   \* the child
          mpc, ret          \* main()

vars == <<cpc, child_ret, mpc, ret, io>>

ChildPC == {"none", "call", "on_f1", "hung", "back_ok", "back_error",
            "errno", "exited"}
MainPC == {"create", "sleep", "requeue", "wake", "join", "print", "return", "exited"}

Init ==
  /\ PlainInit /\ begun = Running
  /\ cpc = "none" /\ child_ret = 0
  /\ mpc = IF Running THEN "create" ELSE "exited"
  /\ ret = RET_PASS

-----------------------------------------------------------------------------
(* blocking_child()                                                        *)

ChildGoes(from, to) ==
  /\ Running
  /\ cpc \in from
  /\ cpc' = to
  /\ UNCHANGED <<child_ret, mpc, ret, io>>

child_wait == ChildGoes({"call"}, "on_f1")

(* The call fails, or returns although nobody has woken the child.         *)
child_wait_fail == "wait" \in MayFail /\ ChildGoes({"call", "on_f1"}, "back_error")
child_spurious == ChildGoes({"on_f1"}, "back_ok")

(* child_ret is what futex_wait returned, and then the errno behind it.    *)
child_store ==
  /\ Running
  /\ \/ cpc = "back_ok" /\ child_ret' = 0 /\ cpc' = "exited"
     \/ cpc = "back_error" /\ child_ret' = -1 /\ cpc' = "errno"
  /\ UNCHANGED <<mpc, ret, io>>

child_errno ==
  /\ Running
  /\ cpc = "errno"
  /\ \E errno \in {EINTR, EFAULT} : child_ret' = -errno
  /\ cpc' = "exited"
  /\ Say("ERROR")
  /\ UNCHANGED <<mpc, ret>>

-----------------------------------------------------------------------------
(* main()                                                                  *)

create ==
  /\ mpc = "create"
  /\ \/ cpc' = "call" /\ mpc' = "sleep" /\ UNCHANGED <<ret, io>>
     \/ /\ "create" \in MayFail
        /\ mpc' = "print" /\ ret' = RET_ERROR /\ Say("ERROR")
        /\ UNCHANGED cpc
  /\ UNCHANGED child_ret

(* sleep(1): by then the child has blocked, or it has not.                 *)
delay ==
  /\ mpc = "sleep"
  /\ mpc' = "requeue"
  /\ UNCHANGED <<cpc, child_ret, ret, io>>

(* The requeue finds the child and refuses, finds nobody, fails for        *)
(* another reason, or, in a kernel that does not detect the mismatch,      *)
(* gives f2 to a child that is not waiting for it.                         *)
requeue ==
  /\ mpc = "requeue"
  /\ \/ cpc = "on_f1" /\ mpc' = "wake" /\ UNCHANGED <<cpc, ret, io>>
     \/ /\ cpc # "on_f1" \/ "requeue" \in MayFail
        /\ mpc' = "join" /\ ret' = RET_ERROR /\ Say("ERROR")
        /\ UNCHANGED cpc
     \/ /\ "detection" \in MayFail
        /\ cpc = "on_f1" /\ cpc' = "hung"
        /\ mpc' = "join" /\ ret' = RET_FAIL /\ Say("FAIL")
  /\ UNCHANGED child_ret

(* Mutant: any result of futex_wake that is not an error will do.          *)
wake_any ==
  /\ mpc = "wake"
  /\ cpc' = IF cpc = "on_f1" THEN "back_ok" ELSE cpc
  /\ mpc' = "join"
  /\ UNCHANGED <<child_ret, ret, io>>

wake ==
  /\ mpc = "wake"
  /\ mpc' = "join"
  /\ \/ cpc = "on_f1" /\ cpc' = "back_ok" /\ ret' = RET_PASS /\ UNCHANGED io
     \/ /\ cpc # "on_f1" \/ "wake" \in MayFail
        /\ ret' = RET_ERROR /\ Say("ERROR")
        /\ UNCHANGED cpc
  /\ UNCHANGED child_ret

join ==
  /\ mpc = "join"
  /\ cpc = "exited"
  /\ ret' = IF ret = 0 THEN child_ret ELSE ret
  /\ mpc' = "print"
  /\ UNCHANGED <<cpc, child_ret, io>>

print ==
  /\ mpc = "print"
  /\ Report(ret)
  /\ mpc' = "return"
  /\ UNCHANGED <<cpc, child_ret, ret>>

return ==
  /\ mpc = "return"
  /\ Exit(ret)
  /\ mpc' = "exited"
  /\ UNCHANGED <<cpc, child_ret, ret>>

-----------------------------------------------------------------------------
ChildStep == child_wait \/ child_store \/ child_errno
MainStep == create \/ delay \/ requeue \/ wake \/ join \/ print \/ return

Next == ChildStep \/ child_wait_fail \/ child_spurious \/ MainStep

Spec == Init /\ [][Next]_vars

(* Both threads are scheduled whenever they are not blocked; a call that   *)
(* blocks need not fail.                                                   *)
FairSpec == Spec /\ WF_vars(ChildStep) /\ WF_vars(MainStep)

-----------------------------------------------------------------------------
MismatchTypeOK ==
  /\ TestTypeOK
  /\ cpc \in ChildPC /\ child_ret \in {0, -1, -EINTR, -EFAULT}
  /\ mpc \in MainPC /\ ret \in {RET_PASS, RET_ERROR, RET_FAIL}
  /\ status \in {<<>>, <<0>>, <<1>>, <<RET_ERROR>>, <<RET_FAIL>>}

(* The child's errno never becomes the test's result: once main() holds a  *)
(* pass, its own FUTEX_WAKE has ended the child's wait, so the child_ret   *)
(* that is copied after the join is 0 although the child's call may fail.  *)
WokenChildHasNoError ==
  mpc \in {"join", "print", "return"} /\ ret = RET_PASS =>
    cpc = "back_ok" \/ (cpc = "exited" /\ child_ret = 0)

(* A kernel that refuses the requeue is reported: once the child has been  *)
(* woken the join ends and the test returns.                               *)
DetectedReturns == (mpc = "join" /\ ret = RET_PASS) ~> ~ Running

=============================================================================

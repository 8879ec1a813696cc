-------------------------- MODULE FunctionalTests ---------------------------
(***************************************************************************)
(* The small functional tests that functional/run.sh runs one after the    *)
(* other, each a process of its own: `prog' is the one that is running.    *)
(* They share what TestMain models, so one set of properties says what all *)
(* of them promise.  The variables that a program does not have are idle.  *)
(***************************************************************************)
EXTENDS TestMain

CONSTANTS Word,   \* the number of values of futex_t
          NSEC    \* nanoseconds in a second

ASSUME NsecAssumption == NSEC \in Nat \ {0}

VARIABLES prog, cpc, mpc, child_ret, child_blocked, val, res, ret,
          timeout_ns, errno, pc

vars == <<prog, cpc, mpc, child_ret, child_blocked, val, res, ret,
          timeout_ns, errno, pc, io>>

Mismatched == INSTANCE MismatchedOps
Heap == INSTANCE UninitializedHeap
Mapped == INSTANCE PrivateMappedFile
Wait == INSTANCE WaitReturn

waitVars == <<timeout_ns, errno, pc>>
notMismatched == <<prog, child_blocked, val, res, waitVars>>
notHeap == <<prog, val, res, waitVars>>
notMapped == <<prog, child_ret, child_blocked, waitVars>>
notWait == <<cpc, mpc, child_ret, child_blocked, val>>

InitMismatched ==
  /\ prog = "mismatched_ops" /\ Mismatched!Init
  /\ child_blocked = 0 /\ val = 0 /\ res = 0
  /\ timeout_ns = 0 /\ errno = 0 /\ pc = ""

InitHeap ==
  /\ prog = "uninitialized_heap" /\ Heap!Init
  /\ val = 0 /\ res = 0
  /\ timeout_ns = 0 /\ errno = 0 /\ pc = ""

InitMapped ==
  /\ prog = "private_mapped_file" /\ Mapped!Init
  /\ child_ret = 0 /\ child_blocked = 0
  /\ timeout_ns = 0 /\ errno = 0 /\ pc = ""

InitWait ==
  /\ Wait!Init
  /\ cpc = "" /\ mpc = "" /\ child_ret = 0 /\ child_blocked = 0 /\ val = 0

Init == InitMismatched \/ InitHeap \/ InitMapped \/ InitWait

(* The steps of each program.                                              *)
IsWait == prog \in {"timeout", "wouldblock"}
mismatched_ops(A) == prog = "mismatched_ops" /\ A /\ UNCHANGED notMismatched
uninitialized_heap(A) == prog = "uninitialized_heap" /\ A /\ UNCHANGED notHeap
private_mapped_file(A) == prog = "private_mapped_file" /\ A /\ UNCHANGED notMapped

Next ==
  \/ mismatched_ops(Mismatched!Next)
  \/ uninitialized_heap(Heap!Next)
  \/ private_mapped_file(Mapped!Next)
  \/ IsWait /\ Wait!Next /\ UNCHANGED notWait

Spec == Init /\ [][Next]_vars

(* Every thread is scheduled whenever it is not blocked, and timeouts      *)
(* expire; nothing is assumed of the child that may block for ever.        *)
FairSpec ==
  /\ Spec
  /\ WF_vars(mismatched_ops(Mismatched!ChildStep))
  /\ WF_vars(mismatched_ops(Mismatched!MainStep))
  /\ WF_vars(uninitialized_heap(Heap!MainStep))
  /\ WF_vars(private_mapped_file(Mapped!ChildStep))
  /\ WF_vars(private_mapped_file(Mapped!wait_timeout))
  /\ WF_vars(private_mapped_file(Mapped!MainStep))

-----------------------------------------------------------------------------
TestsTypeOK ==
  /\ prog = "mismatched_ops" => Mismatched!MismatchTypeOK
  /\ prog = "uninitialized_heap" => Heap!HeapTypeOK
  /\ prog = "private_mapped_file" => Mapped!MappedTypeOK
  /\ IsWait => Wait!WaitTypeOK

(* What stderr says agrees with the result, in every program but the one   *)
(* whose child is not joined and may speak at any time.                    *)
MessagesAgree == prog # "uninitialized_heap" => MessagesMatchResult

(* mismatched_ops.c: the child's errno never becomes the test's result,    *)
(* which is copied from child_ret whenever main() itself has seen a pass.  *)
WokenChildHasNoError == prog = "mismatched_ops" => Mismatched!WokenChildHasNoError

(* No pass is unearned.  private_mapped_file.c: main() woke the child out  *)
(* of its wait; no timeout, late child or failing create passes.           *)
(* uninitialized_heap.c: the child's call is over.  wait_timeout.c and     *)
(* wait_wouldblock.c: a kernel is passed exactly for the error that the    *)
(* test is about.                                                          *)
PassIsEarned ==
  /\ prog = "private_mapped_file" => Mapped!PassMeansFound
  /\ prog = "uninitialized_heap" => Heap!PassMeansReturned
  /\ IsWait => Wait!VerdictExact

(* The tests end where they can.  mismatched_ops.c: a kernel that refuses  *)
(* the requeue is reported, since main() has woken the child that it       *)
(* joins.  private_mapped_file.c: without the wake-up too, since the wait  *)
(* of the child has a timeout.  uninitialized_heap.c: whatever its child   *)
(* does, since nobody joins it.                                            *)
TestsEnd ==
  /\ prog = "mismatched_ops" => Mismatched!DetectedReturns
  /\ prog = "private_mapped_file" => Mapped!MappedTerminates
  /\ prog = "uninitialized_heap" => Heap!HeapTerminates

=============================================================================

------------------------- MODULE PrivateMappedFile --------------------------
(***************************************************************************)
(* functional/futex_wait_private_mapped_file.c: a child waits on `val',    *)
(* which lies in a private file mapping, with a timeout; main() sleeps,    *)
(* writes val and wakes the child, which it must find.                     *)
(*                                                                         *)
(* One step is one access to val or one system call, with the message on   *)
(* stderr that the thread adds to it, or a line of output by itself.       *)
(***************************************************************************)
EXTENDS TestMain, Futex

EAGAIN == 11

VARIABLES val,
          cpc,             \* the child
          mpc, res, ret    \* main()

vars == <<val, cpc, mpc, res, ret, io>>

ChildPC == {"none", "wait", "asleep", "back_ok", "back_wouldblock", "back_timedout",
            "back_error", "reporting", "exiting", "returned"}
MainPC == {"create", "store", "wake", "join", "print", "return", "exited", "killed"}

Init ==
  /\ PlainInit /\ begun = Running
  /\ val = 1
  /\ cpc = "none"
  /\ mpc = IF Running THEN "create" ELSE "exited"
  /\ res = 0 /\ ret = RET_PASS

-----------------------------------------------------------------------------
(* thr_futex_wait()                                                        *)

Alive == Running /\ mpc # "killed"

ChildGoes(from, to) ==
  /\ Alive
  /\ cpc \in from
  /\ cpc' = to
  /\ UNCHANGED <<val, mpc, res, ret>>

futex_wait ==
  /\ ChildGoes({"wait"}, IF futex_wait_blocks(val, 1) THEN "asleep" ELSE "back_wouldblock")
  /\ UNCHANGED io

(* The call fails, returns although nobody has woken the child, or times   *)
(* out.                                                                    *)
wait_fail == "wait" \in MayFail /\ ChildGoes({"wait", "asleep"}, "back_error") /\ UNCHANGED io
spurious == ChildGoes({"asleep"}, "back_ok") /\ UNCHANGED io

(* Mutant: a wait without a timeout.                                       *)
wait_forever == ChildGoes({}, "back_timedout") /\ UNCHANGED io

wait_timeout == ChildGoes({"asleep"}, "back_timedout") /\ UNCHANGED io

child_return ==
  \/ ChildGoes({"back_ok", "back_wouldblock"}, "returned") /\ UNCHANGED io
  \/ ChildGoes({"back_timedout"}, "returned") /\ Say("FAIL")

(* An error ends the whole program, from within the child: error(), the    *)
(* result, and exit().                                                     *)
child_error == ChildGoes({"back_error"}, "reporting") /\ Say("ERROR")
child_report == ChildGoes({"reporting"}, "exiting") /\ Report(RET_ERROR)
child_exit == ChildGoes({"exiting"}, "exiting") /\ Exit(RET_ERROR)

-----------------------------------------------------------------------------
(* main()                                                                  *)

(* ret = pthread_create(...), and nothing comes of the test for ret < 0:   *)
(* an error is a positive number, so main() goes on without a child.       *)
create ==
  /\ mpc = "create"
  /\ \/ ret' = 0 /\ cpc' = "wait"
     \/ "create" \in MayFail /\ ret' = EAGAIN /\ UNCHANGED cpc
  /\ mpc' = "store"
  /\ UNCHANGED <<val, res, io>>

(* usleep(WAKE_WAIT_US); val = 2: the child is asleep by then, or is not.  *)
store ==
  /\ Alive /\ mpc = "store"
  /\ val' = 2
  /\ mpc' = "wake"
  /\ UNCHANGED <<cpc, res, ret, io>>

(* Mutant: only an error of futex_wake counts as a failure.                *)
wake_any ==
  /\ Alive /\ mpc = "wake"
  /\ \E S \in futex_wake({cpc} \cap {"asleep"}, 1) :
       /\ res' = Cardinality(S)
       /\ cpc' = IF S # {} THEN "back_ok" ELSE cpc
  /\ mpc' = "join"
  /\ UNCHANGED <<val, ret, io>>

(* The wake-up finds the child if it is asleep; in a kernel that looks for *)
(* it in the wrong place it does not, or fails.                            *)
wake ==
  /\ Alive /\ mpc = "wake"
  /\ \/ \E S \in futex_wake({cpc} \cap {"asleep"}, 1) :
          /\ res' = Cardinality(S)
          /\ cpc' = IF S # {} THEN "back_ok" ELSE cpc
     \/ "wake" \in MayFail /\ res' \in {-1, 0} /\ UNCHANGED cpc
  /\ \/ res' = 1 /\ UNCHANGED <<ret, io>>
     \/ res' # 1 /\ ret' = RET_FAIL /\ Say("FAIL")
  /\ mpc' = "join"
  /\ UNCHANGED val

(* Mutant: main() does not wait for the child.                             *)
join_skipped ==
  /\ Alive /\ mpc = "join"
  /\ mpc' = "print"
  /\ UNCHANGED <<val, cpc, res, ret, io>>

(* Without a child thr is not initialised, and what the join does is       *)
(* undefined: it returns an error, or it kills the program.                *)
join ==
  /\ Alive /\ mpc = "join"
  /\ \/ cpc = "returned" /\ mpc' = "print"
     \/ cpc = "none" /\ mpc' \in {"print", "killed"}
  /\ UNCHANGED <<val, cpc, res, ret, io>>

print ==
  /\ Alive /\ mpc = "print"
  /\ Report(ret)
  /\ mpc' = "return"
  /\ UNCHANGED <<val, cpc, res, ret>>

return ==
  /\ Alive /\ mpc = "return"
  /\ Exit(ret)
  /\ mpc' = "exited"
  /\ UNCHANGED <<val, cpc, res, ret>>

-----------------------------------------------------------------------------
ChildStep ==
  \/ futex_wait \/ child_return
  \/ child_error \/ child_report \/ child_exit
MainStep == create \/ store \/ wake \/ join \/ print \/ return

Next == ChildStep \/ wait_fail \/ wait_timeout \/ spurious \/ MainStep

Spec == Init /\ [][Next]_vars

(* Both threads are scheduled, and the timeout of the wait expires.        *)
FairSpec == Spec /\ WF_vars(ChildStep) /\ WF_vars(wait_timeout) /\ WF_vars(MainStep)

-----------------------------------------------------------------------------
MappedTypeOK ==
  /\ TestTypeOK
  /\ val \in {1, 2} /\ cpc \in ChildPC
  /\ mpc \in MainPC /\ res \in {-1, 0, 1} /\ ret \in {RET_PASS, RET_FAIL, EAGAIN}
  /\ status \in {<<>>, <<0>>, <<1>>, <<RET_ERROR>>, <<RET_FAIL>>}

(* A pass means that main() woke the child out of its wait, after it had   *)
(* written val: no timeout, no late child and no failing create passes.    *)
PassMeansFound ==
  printed = <<"PASS">> => res = 1 /\ val = 2 /\ cpc = "returned"

(* main() ends in any case: the wait has a timeout, so the join does not   *)
(* depend on the wake-up.                                                  *)
MappedTerminates == <>(~ Alive)

=============================================================================

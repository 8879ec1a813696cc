---------------------------- MODULE TestProtocol ----------------------------
(***************************************************************************)
(* How a functional test speaks to its caller: it prints one line          *)
(* "Result: (PASS|FAIL|ERROR)", as the README has it, and exits with the   *)
(* code of that result, 0 or less.  Without a result it may exit only      *)
(* before the test has begun: with 0 or 1 out of its option loop, or with  *)
(* 1 because it could not get what the test needs.  (README:44 knows only  *)
(* "0 for success and < 0 for failure"; the exit(1) is what the code has.) *)
(***************************************************************************)
EXTENDS Logging

VARIABLES printed,   \* the results printed so far
          status,    \* <<>> while the program runs, <<code>> once it has exited
          begun      \* main() has got all it needs for the test

Init ==
  /\ printed = <<>> /\ status \in {<<>>, <<0>>, <<1>>}
  /\ begun \in BOOLEAN /\ (begun => status = <<>>)

Begin ==
  /\ status = <<>> /\ ~ begun
  /\ begun' = TRUE
  /\ UNCHANGED <<printed, status>>

Report(ret) ==
  /\ status = <<>> /\ begun /\ printed = <<>>
  /\ printed' = <<print_result(ret)>>
  /\ UNCHANGED <<status, begun>>

Return(ret) ==
  /\ status = <<>> /\ printed = <<print_result(ret)>>
  /\ status' = <<ret>>
  /\ UNCHANGED <<printed, begun>>

Abandon ==
  /\ status = <<>> /\ ~ begun
  /\ status' = <<1>>
  /\ UNCHANGED <<printed, begun>>

Next ==
  \/ Begin \/ Abandon
  \/ \E ret \in {RET_PASS, RET_ERROR, RET_FAIL} : Report(ret) \/ Return(ret)

Spec == Init /\ [][Next]_<<printed, status, begun>>

=============================================================================

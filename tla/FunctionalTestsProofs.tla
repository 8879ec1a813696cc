----------------------- MODULE FunctionalTestsProofs ------------------------
(***************************************************************************)
(* Proofs about the small functional tests, for every command line and     *)
(* every failure: one inductive invariant per program.                     *)
(***************************************************************************)
EXTENDS FunctionalTests, TestMainProofs, FiniteSetTheorems

-----------------------------------------------------------------------------
(* futex_requeue_pi_mismatched_ops.c: messages come with a result that is  *)
(* no pass, or from a child whose errno is in child_ret.                   *)
MismatchedInv ==
  /\ TestTypeOK
  /\ cpc \in Mismatched!ChildPC /\ child_ret \in {0, -1, -Mismatched!EINTR, -Mismatched!EFAULT}
  /\ mpc \in Mismatched!MainPC /\ ret \in Codes
  /\ Output(mpc, ret, printed, status) /\ Explained(ret, _verbose, said)
  /\ mpc # "exited" => begun
  /\ mpc \in {"create", "sleep", "requeue", "wake"} => ret = RET_PASS
  /\ mpc = "create" => cpc = "none"
  /\ mpc \in {"print", "return"} => cpc \in {"none", "exited"}
  /\ cpc = "errno" => child_ret = -1
  /\ said # {} => \/ ret # RET_PASS
                  \/ cpc = "exited" /\ child_ret # 0
  /\ Mismatched!WokenChildHasNoError
  /\ mpc = "exited" /\ ret = RET_PASS =>
       printed = <<>> \/ (cpc = "exited" /\ child_ret = 0)

(* The initial states of the plain programs.                               *)
LEMMA MismatchedPlainInit == Mismatched!PlainInit => PlainInit
BY DEF Mismatched!PlainInit, PlainInit, Mismatched!MainInit, MainInit, Mismatched!getopt,
       getopt, Mismatched!log_verbosity, log_verbosity, Mismatched!VCRITICAL, VCRITICAL,
       Mismatched!VMAX, VMAX, Mismatched!VINFO, VINFO, Mismatched!Max, Max, Mismatched!Min, Min

(* mismatched_ops.c starts in a state of the invariant.                    *)
LEMMA MismatchedStarts == InitMismatched => MismatchedInv
<1> SUFFICES ASSUME InitMismatched PROVE MismatchedInv
  OBVIOUS
<1>1. /\ TestTypeOK /\ printed = <<>> /\ said = {} /\ status \in {<<>>, <<0>>, <<1>>}
  BY MismatchedPlainInit, PlainStartsClean
  DEF InitMismatched, Mismatched!Init, Mismatched!Running, Running
<1>2. /\ cpc = "none" /\ child_ret = 0 /\ ret = 0
      /\ \/ mpc = "create" /\ status = <<>> /\ begun
         \/ mpc = "exited" /\ status # <<>>
  BY DEF InitMismatched, Mismatched!Init, Mismatched!Running, Mismatched!RET_PASS
<1>3. Output(mpc, ret, printed, status) /\ Explained(ret, _verbose, said)
  BY <1>1, <1>2 DEF Output, Explained, RET_PASS, RET_ERROR, RET_FAIL
<1>4. Mismatched!WokenChildHasNoError
  BY <1>2 DEF Mismatched!WokenChildHasNoError
<1> QED
  BY <1>1, <1>2, <1>3, <1>4
  DEF MismatchedInv, Codes, Mismatched!ChildPC, Mismatched!MainPC, RET_PASS

(* Its child: only a child that was not woken says ERROR.                  *)
LEMMA MismatchedChild ==
  ASSUME MismatchedInv,
         Mismatched!ChildStep \/ Mismatched!child_wait_fail \/ Mismatched!child_spurious
  PROVE  MismatchedInv'
<1> USE DEF MismatchedInv
<1>1. /\ UNCHANGED <<mpc, ret, printed, status, begun, _verbose>>
      /\ cpc \in {"call", "on_f1", "back_ok", "back_error", "errno"}
      /\ cpc' \in Mismatched!ChildPC \ {"none", "hung"}
      /\ status = <<>>
      /\ cpc = "back_ok" => cpc' = "exited" /\ child_ret' = 0 /\ said' = said
  BY DEF Mismatched!ChildStep, Mismatched!child_wait_fail, Mismatched!child_spurious,
         Mismatched!child_wait, Mismatched!child_store, Mismatched!child_errno,
         Mismatched!ChildGoes, Mismatched!io, Mismatched!Say, Mismatched!Running,
         Mismatched!ChildPC
<1>2. /\ child_ret' \in {0, -1, -Mismatched!EINTR, -Mismatched!EFAULT}
      /\ cpc' = "errno" => child_ret' = -1
      /\ \/ said' = said
         \/ /\ said' = said \cup {"ERROR"}
            /\ cpc' = "exited" /\ child_ret' # 0 /\ cpc = "errno"
  BY DEF Mismatched!ChildStep, Mismatched!child_wait_fail, Mismatched!child_spurious,
         Mismatched!child_wait, Mismatched!child_store, Mismatched!child_errno,
         Mismatched!ChildGoes, Mismatched!io, Mismatched!Say, Mismatched!EINTR,
         Mismatched!EFAULT
<1>3. Output(mpc, ret, printed, status)' /\ Explained(ret, _verbose, said)'
  <2>1. Output(mpc', ret', printed', status')
    BY <1>1
  <2>2. Explained(ret', _verbose', said')
    BY <1>1, <1>2 DEF Explained
  <2> QED
    BY <2>1, <2>2
<1>4. Mismatched!WokenChildHasNoError'
  BY <1>1 DEF Mismatched!WokenChildHasNoError
<1>5. TestTypeOK'
  BY <1>1, <1>2 DEF TestTypeOK
<1>6. mpc # "exited" /\ mpc # "create"
  BY <1>1 DEF Output
<1> QED
  BY <1>1, <1>2, <1>3, <1>4, <1>5, <1>6

(* Its codes and names are those of logging.h.                             *)
LEMMA MismatchedNames ==
  /\ Mismatched!RET_PASS = 0 /\ Mismatched!RET_ERROR = -1 /\ Mismatched!RET_FAIL = -2
  /\ RET_PASS = 0 /\ RET_ERROR = -1 /\ RET_FAIL = -2
  /\ \A r : Mismatched!print_result(r) = print_result(r)
  /\ \A v : Mismatched!Shown(v) = Shown(v)
BY DEF Mismatched!RET_PASS, RET_PASS, Mismatched!RET_ERROR, RET_ERROR, Mismatched!RET_FAIL,
       RET_FAIL, Mismatched!print_result, print_result, Mismatched!Shown, Shown,
       Mismatched!VCRITICAL, VCRITICAL

(* Its main(): a pass is what its own wake-up has made it.                 *)
LEMMA MismatchedMain ==
  ASSUME MismatchedInv, Mismatched!MainStep
  PROVE  MismatchedInv'
<1> USE DEF MismatchedInv
<1>1. CASE Mismatched!create \/ Mismatched!delay \/ Mismatched!requeue \/ Mismatched!wake
  <2>1. /\ UNCHANGED <<child_ret, printed, status, begun, _verbose>>
        /\ mpc \in {"create", "sleep", "requeue", "wake"}
        /\ mpc' \in {"sleep", "requeue", "wake", "join", "print"}
        /\ mpc' = "print" => cpc' = "none"
        /\ cpc' \in Mismatched!ChildPC /\ cpc' \in {cpc, "call", "hung", "back_ok"}
        /\ mpc' \in {"join", "print"} \/ (said' = said /\ ret' = ret)
    BY <1>1
    DEF Mismatched!create, Mismatched!delay, Mismatched!requeue, Mismatched!wake,
        Mismatched!Say, Mismatched!io, Mismatched!ChildPC
  <2> DEFINE Passing == /\ said' = said /\ ret' = 0
                        /\ mpc' = "join" => cpc' = "back_ok"
                        /\ cpc = "exited" => cpc' = "exited"
                        /\ mpc' # "print"
             Complains(r, k) == /\ ret' = r
                                /\ said' = IF Shown(_verbose) THEN said \cup {k} ELSE said
  <2>2. Passing \/ Complains(RET_ERROR, "ERROR") \/ Complains(RET_FAIL, "FAIL")
    <3>1. CASE Mismatched!create
      BY <1>1, <3>1, MismatchedNames DEF Mismatched!create, Mismatched!Say, Mismatched!io
    <3>2. CASE Mismatched!delay
      BY <1>1, <3>2, MismatchedNames DEF Mismatched!delay, Mismatched!io
    <3>3. CASE Mismatched!requeue
      BY <1>1, <3>3, MismatchedNames DEF Mismatched!requeue, Mismatched!Say, Mismatched!io
    <3>4. CASE Mismatched!wake
      BY <1>1, <3>4, MismatchedNames DEF Mismatched!wake, Mismatched!Say, Mismatched!io
    <3> QED
      BY <1>1, <3>1, <3>2, <3>3, <3>4
  <2>3. cpc' = "errno" => cpc = "errno"
    BY <2>1
  <2>4. Output(mpc', ret', printed', status')
    BY <2>1, OutputStays
  <2>5. /\ Explained(ret', _verbose', said') /\ ret' \in Codes
        /\ said' \subseteq {"ERROR", "FAIL"}
        /\ said' # {} => ret' # RET_PASS \/ (cpc' = "exited" /\ child_ret' # 0)
        /\ mpc' = "join" /\ ret' = 0 => cpc' = "back_ok"
        /\ mpc' = "print" => ret' # 0
    <3>1. CASE Passing
      BY <2>1, <3>1, MismatchedNames DEF Explained, Codes, TestTypeOK
    <3>2. CASE Complains(RET_ERROR, "ERROR")
      BY <2>1, <3>2, MismatchedNames DEF Explained, Codes, TestTypeOK
    <3>3. CASE Complains(RET_FAIL, "FAIL")
      BY <2>1, <3>3, MismatchedNames DEF Explained, Codes, TestTypeOK
    <3> QED
      BY <2>2, <3>1, <3>2, <3>3
  <2>6. TestTypeOK'
    BY <2>1, <2>5 DEF TestTypeOK
  <2>7. Mismatched!WokenChildHasNoError'
    BY <2>1, <2>5, MismatchedNames DEF Mismatched!WokenChildHasNoError
  <2>8. mpc' \in Mismatched!MainPC
    BY <2>1 DEF Mismatched!MainPC
  <2>9. mpc' \in {"create", "sleep", "requeue", "wake"} => ret' = RET_PASS
    BY <2>1
  <2> QED
    BY <2>1, <2>3, <2>4, <2>5, <2>6, <2>7, <2>8, <2>9
<1>2. CASE Mismatched!join
  <2>1. /\ mpc = "join" /\ cpc = "exited" /\ mpc' = "print"
        /\ UNCHANGED <<cpc, child_ret, printed, said, status, begun, _verbose>>
        /\ ret' = IF ret = 0 THEN child_ret ELSE ret
    BY <1>2 DEF Mismatched!join, Mismatched!io
  <2>2. ret' = ret
    BY <2>1, MismatchedNames DEF Mismatched!WokenChildHasNoError
  <2>3. Output(mpc', ret', printed', status')
    BY <2>1, OutputStays
  <2>4. Mismatched!WokenChildHasNoError'
    BY <2>1, <2>2 DEF Mismatched!WokenChildHasNoError
  <2> QED
    BY <2>1, <2>2, <2>3, <2>4 DEF TestTypeOK, Explained, Mismatched!MainPC
<1>3. CASE Mismatched!print
  <2>1. /\ mpc = "print" /\ mpc' = "return" /\ printed' = Append(printed, print_result(ret))
        /\ UNCHANGED <<cpc, child_ret, ret, said, status, begun, _verbose>>
    BY <1>3, MismatchedNames DEF Mismatched!print, Mismatched!Report
  <2>2. Output(mpc', ret', printed', status')
    BY <2>1, OutputPrints
  <2>3. Mismatched!WokenChildHasNoError'
    BY <2>1 DEF Mismatched!WokenChildHasNoError
  <2>4. TestTypeOK'
    BY <2>1, <2>2, OutputMeans DEF TestTypeOK
  <2> QED
    BY <2>1, <2>2, <2>3, <2>4 DEF Explained, Mismatched!MainPC
<1>4. CASE Mismatched!return
  <2>1. /\ mpc = "return" /\ mpc' = "exited" /\ status' = <<ret>>
        /\ UNCHANGED <<cpc, child_ret, ret, printed, said, begun, _verbose>>
    BY <1>4 DEF Mismatched!return, Mismatched!Exit
  <2>2. Output(mpc', ret', printed', status')
    BY <2>1, OutputReturns
  <2>3. Mismatched!WokenChildHasNoError'
    BY <2>1 DEF Mismatched!WokenChildHasNoError
  <2>4. ret = RET_PASS => cpc = "exited" /\ child_ret = 0
    BY <2>1, MismatchedNames DEF Mismatched!WokenChildHasNoError
  <2> QED
    BY <2>1, <2>2, <2>3, <2>4 DEF TestTypeOK, Explained, Mismatched!MainPC
<1> QED
  BY <1>1, <1>2, <1>3, <1>4 DEF Mismatched!MainStep

(* What the invariant says of mismatched_ops.c.                            *)
LEMMA MismatchedMeans ==
  ASSUME MismatchedInv
  PROVE  Mismatched!MismatchTypeOK /\ Mismatched!WokenChildHasNoError /\ MessagesMatchResult
<1> USE DEF MismatchedInv
<1>1. Mismatched!MismatchTypeOK
  BY MismatchedNames
  DEF Mismatched!MismatchTypeOK, Mismatched!TestTypeOK, TestTypeOK, Mismatched!VQUIET,
      VQUIET, Mismatched!VMAX, VMAX, Mismatched!VINFO, VINFO, Codes, Output
<1>2. printed = <<"PASS">> => said = {}
  <2> SUFFICES ASSUME printed = <<"PASS">> PROVE said = {}
    OBVIOUS
  <2>1. ret = RET_PASS /\ mpc \in {"return", "exited"} /\ printed # <<>>
    BY OutputMeans
  <2>2. ~ (cpc = "exited" /\ child_ret # 0)
    BY <2>1, MismatchedNames DEF Mismatched!WokenChildHasNoError
  <2> QED
    BY <2>1, <2>2
<1> QED
  BY <1>1, <1>2, MessagesMatch

(* Its steps are steps of TestProtocol.                                    *)
LEMMA MismatchedProtocol ==
  ASSUME MismatchedInv, Mismatched!Next
  PROVE  Protocol!Next \/ UNCHANGED <<printed, status, begun>>
<1> USE DEF MismatchedInv
<1>1. CASE Mismatched!print
  BY <1>1, MismatchedNames, ProtocolReport
  DEF Mismatched!print, Mismatched!Report, Output, Codes
<1>2. CASE Mismatched!return
  BY <1>2, ProtocolReturn DEF Mismatched!return, Mismatched!Exit, Output, Codes
<1>3. CASE ~ Mismatched!print /\ ~ Mismatched!return
  BY <1>3
  DEF Mismatched!Next, Mismatched!ChildStep, Mismatched!child_wait_fail,
      Mismatched!child_spurious, Mismatched!child_wait, Mismatched!child_store,
      Mismatched!child_errno, Mismatched!ChildGoes, Mismatched!MainStep, Mismatched!create,
      Mismatched!delay, Mismatched!requeue, Mismatched!wake, Mismatched!join,
      Mismatched!Say, Mismatched!io
<1> QED
  BY <1>1, <1>2, <1>3

-----------------------------------------------------------------------------
(* futex_wait_uninitialized_heap.c: child_blocked is 0 exactly when the    *)
(* child's call is over, and main() has a pass only after it has seen 0.   *)
HeapInv ==
  /\ TestTypeOK
  /\ child_blocked \in {0, 1} /\ child_ret \in {RET_PASS, RET_ERROR}
  /\ cpc \in Heap!ChildPC /\ mpc \in Heap!MainPC /\ ret \in Codes
  /\ Output(mpc, ret, printed, status)
  /\ mpc = "mmap" => ~ begun
  /\ mpc \notin {"mmap", "exited"} => begun
  /\ child_blocked = 0 <=> cpc \in {"failed", "storing", "returned"}
  /\ mpc \in {"mmap", "create"} => cpc = "none"
  /\ mpc = "read" => child_blocked = 0
  /\ mpc \in {"print", "return"} /\ ret = RET_PASS => child_blocked = 0
  /\ mpc = "exited" /\ ret = RET_PASS => printed = <<>> \/ child_blocked = 0

(* Its codes and names are those of logging.h.                             *)
LEMMA HeapNames ==
  /\ Heap!RET_PASS = 0 /\ Heap!RET_ERROR = -1 /\ Heap!RET_FAIL = -2
  /\ RET_PASS = 0 /\ RET_ERROR = -1 /\ RET_FAIL = -2
  /\ \A r : Heap!print_result(r) = print_result(r)
BY DEF Heap!RET_PASS, RET_PASS, Heap!RET_ERROR, RET_ERROR, Heap!RET_FAIL, RET_FAIL,
       Heap!print_result, print_result

(* It reads its options as TestMain has it.                                *)
LEMMA HeapPlainInit == Heap!PlainInit => PlainInit
BY DEF Heap!PlainInit, PlainInit, Heap!MainInit, MainInit, Heap!getopt, getopt,
       Heap!log_verbosity, log_verbosity, Heap!VCRITICAL, VCRITICAL, Heap!VMAX, VMAX,
       Heap!VINFO, VINFO, Heap!Max, Max, Heap!Min, Min

(* The initial states.                                                     *)
LEMMA HeapStarts == InitHeap => HeapInv
<1> SUFFICES ASSUME InitHeap PROVE HeapInv
  OBVIOUS
<1>1. PlainInit /\ begun = FALSE
  BY HeapPlainInit DEF InitHeap, Heap!Init
<1>2. /\ TestTypeOK /\ printed = <<>> /\ status \in {<<>>, <<0>>, <<1>>}
  BY <1>1, PlainStartsClean
<1>3. /\ cpc = "none" /\ child_ret = 0 /\ child_blocked = 1 /\ ret = 0
      /\ \/ mpc = "mmap" /\ status = <<>>
         \/ mpc = "exited" /\ status # <<>>
  BY DEF InitHeap, Heap!Init, Heap!Running, Heap!RET_PASS
<1>4. Output(mpc, ret, printed, status)
  BY <1>2, <1>3 DEF Output
<1> QED
  BY <1>1, <1>2, <1>3, <1>4, HeapNames DEF HeapInv, Codes, Heap!ChildPC, Heap!MainPC

(* Its child, which nobody joins, runs until the program has exited.       *)
LEMMA HeapChild ==
  ASSUME HeapInv, Heap!ChildStep
  PROVE  HeapInv'
<1> USE DEF HeapInv
<1>1. /\ UNCHANGED <<mpc, ret, printed, status, begun, _verbose>> /\ status = <<>>
      /\ said' \subseteq {"ERROR", "FAIL"}
      /\ cpc # "none" /\ cpc' \in Heap!ChildPC \ {"none"}
      /\ child_ret' \in {RET_PASS, RET_ERROR}
      /\ child_blocked' \in {child_blocked, 0}
      /\ child_blocked' = 0 <=> cpc' \in {"failed", "storing", "returned"}
  BY HeapNames
  DEF Heap!ChildStep, Heap!child_start, Heap!futex_wait, Heap!spurious, Heap!child_unblocked,
      Heap!child_says, Heap!child_stores, Heap!Goes, Heap!Say, Heap!io, Heap!shared,
      Heap!Running, Heap!ChildPC, TestTypeOK
<1>2. Output(mpc', ret', printed', status')
  BY <1>1
<1>3. TestTypeOK'
  BY <1>1 DEF TestTypeOK
<1> QED
  BY <1>1, <1>2, <1>3

(* Its main().                                                             *)
LEMMA HeapMain ==
  ASSUME HeapInv, Heap!MainStep
  PROVE  HeapInv'
<1> USE DEF HeapInv
<1>1. CASE Heap!mmap \/ Heap!create \/ Heap!check \/ Heap!read
  <2>1. /\ UNCHANGED <<child_blocked, child_ret, printed, status, _verbose>>
        /\ said' \subseteq {"ERROR", "FAIL"} /\ begun' = TRUE
        /\ mpc \in {"mmap", "create", "check", "read"}
        /\ mpc' \in {"create", "check", "read", "print"}
        /\ mpc' = "create" => mpc = "mmap" /\ cpc' = cpc
        /\ cpc' = cpc \/ (cpc = "none" /\ cpc' = "start")
        /\ mpc' = "read" => child_blocked = 0
        /\ ret' \in Codes
        /\ mpc' = "print" /\ ret' = RET_PASS => child_blocked = 0
    <3>1. CASE Heap!mmap
      BY <3>1 DEF Heap!mmap, Heap!Prepared, Heap!shared, Codes, TestTypeOK
    <3>2. CASE Heap!create
      <4>1. said' \subseteq {"ERROR", "FAIL"}
        BY <3>2 DEF Heap!create, Heap!Say, Heap!io, TestTypeOK
      <4>2. begun /\ begun \in BOOLEAN /\ begun' = begun
        BY <3>2 DEF Heap!create, Heap!Say, Heap!io, TestTypeOK
      <4>3. begun' = TRUE
        BY <4>2
      <4> QED
        BY <3>2, <4>1, <4>3, HeapNames DEF Heap!create, Heap!Say, Heap!io, Heap!shared, Codes
    <3>3. CASE Heap!check
      <4>1. said' \subseteq {"ERROR", "FAIL"}
        BY <3>3 DEF Heap!check, Heap!Say, Heap!io, TestTypeOK
      <4>2. begun /\ begun \in BOOLEAN /\ begun' = begun
        BY <3>3 DEF Heap!check, Heap!Say, Heap!io, TestTypeOK
      <4>3. begun' = TRUE
        BY <4>2
      <4> QED
        BY <3>3, <4>1, <4>3, HeapNames DEF Heap!check, Heap!Say, Heap!io, Heap!shared, Codes
    <3>4. CASE Heap!read
      BY <3>4, HeapNames DEF Heap!read, Heap!io, Heap!shared, TestTypeOK, Codes
    <3> QED
      BY <1>1, <3>1, <3>2, <3>3, <3>4
  <2>2. Output(mpc', ret', printed', status')
    BY <2>1, OutputStays
  <2>3. TestTypeOK'
    BY <2>1 DEF TestTypeOK
  <2> QED
    BY <2>1, <2>2, <2>3 DEF Heap!MainPC, Heap!ChildPC
<1>2. CASE Heap!mmap_fail
  <2>1. /\ UNCHANGED <<child_blocked, child_ret, cpc, ret, printed, begun, _verbose>>
        /\ said' \subseteq {"ERROR", "FAIL"}
        /\ mpc = "mmap" /\ mpc' = "exited" /\ status' = <<1>>
    BY <1>2 DEF Heap!mmap_fail, Heap!Unprepared, Heap!shared, TestTypeOK
  <2>2. Output(mpc', ret', printed', status') /\ printed = <<>>
    BY <2>1, OutputAbandons DEF Output
  <2> QED
    BY <2>1, <2>2 DEF TestTypeOK, Heap!MainPC
<1>3. CASE Heap!print
  <2>1. /\ mpc = "print" /\ mpc' = "return" /\ printed' = Append(printed, print_result(ret))
        /\ UNCHANGED <<cpc, child_blocked, child_ret, ret, said, status, begun, _verbose>>
    BY <1>3, HeapNames DEF Heap!print, Heap!Report, Heap!shared
  <2>2. Output(mpc', ret', printed', status')
    BY <2>1, OutputPrints
  <2>3. TestTypeOK'
    BY <2>1, <2>2, OutputMeans DEF TestTypeOK
  <2> QED
    BY <2>1, <2>2, <2>3 DEF Heap!MainPC
<1>4. CASE Heap!return
  <2>1. /\ mpc = "return" /\ mpc' = "exited" /\ status' = <<ret>>
        /\ UNCHANGED <<cpc, child_blocked, child_ret, ret, printed, said, begun, _verbose>>
    BY <1>4 DEF Heap!return, Heap!Exit, Heap!shared
  <2>2. Output(mpc', ret', printed', status')
    BY <2>1, OutputReturns
  <2> QED
    BY <2>1, <2>2 DEF TestTypeOK, Heap!MainPC
<1> QED
  BY <1>1, <1>2, <1>3, <1>4 DEF Heap!MainStep

(* What the invariant says of uninitialized_heap.c.                        *)
LEMMA HeapMeans ==
  ASSUME HeapInv
  PROVE  Heap!HeapTypeOK /\ Heap!PassMeansReturned
<1> USE DEF HeapInv
<1>1. Heap!HeapTypeOK
  BY HeapNames
  DEF Heap!HeapTypeOK, Heap!TestTypeOK, TestTypeOK, Heap!VQUIET, VQUIET, Heap!VMAX, VMAX,
      Heap!VINFO, VINFO, Codes, Output
<1>2. ASSUME printed = <<"PASS">> PROVE cpc \in {"failed", "storing", "returned"}
  <2>1. ret = RET_PASS /\ mpc \in {"return", "exited"} /\ printed # <<>>
    BY <1>2, OutputMeans
  <2> QED
    BY <2>1
<1> QED
  BY <1>1, <1>2 DEF Heap!PassMeansReturned

(* Its steps are steps of TestProtocol.                                    *)
LEMMA HeapProtocol ==
  ASSUME HeapInv, Heap!Next
  PROVE  Protocol!Next \/ UNCHANGED <<printed, status, begun>>
<1> USE DEF HeapInv
<1>1. CASE Heap!print
  BY <1>1, HeapNames, ProtocolReport DEF Heap!print, Heap!Report, Output, Codes
<1>2. CASE Heap!return
  BY <1>2, ProtocolReturn DEF Heap!return, Heap!Exit, Output, Codes
<1>3. CASE Heap!mmap \/ Heap!mmap_fail
  <2>1. mpc = "mmap" /\ status = <<>> /\ ~ begun
    BY <1>3 DEF Heap!mmap, Heap!mmap_fail, Output
  <2>2. Prepared \/ Unprepared
    BY <1>3
    DEF Heap!mmap, Heap!mmap_fail, Heap!Prepared, Prepared, Heap!Unprepared, Unprepared,
        Heap!Shown, Shown, Heap!VCRITICAL, VCRITICAL
  <2> QED
    BY <2>1, <2>2, ProtocolBegin, ProtocolAbandon
<1>4. CASE ~ Heap!print /\ ~ Heap!return /\ ~ Heap!mmap /\ ~ Heap!mmap_fail
  BY <1>4
  DEF Heap!Next, Heap!ChildStep, Heap!child_start, Heap!futex_wait, Heap!spurious,
      Heap!child_unblocked, Heap!child_says, Heap!child_stores, Heap!Goes, Heap!MainStep,
      Heap!create, Heap!check, Heap!read, Heap!Say, Heap!io
<1> QED
  BY <1>1, <1>2, <1>3, <1>4

-----------------------------------------------------------------------------
(* futex_wait_private_mapped_file.c: either thread may end the program, so *)
(* its output is that of main(), until the child has begun to exit.        *)
Position == IF cpc # "exiting" THEN mpc
                               ELSE IF status = <<>> THEN "return" ELSE "exited"
Outcome == IF cpc # "exiting" THEN ret ELSE RET_ERROR

(* main() finds its child asleep, woken by nobody else and silent.         *)
Found == /\ said = {} /\ res = 1 /\ val = 2
         /\ mpc = "join" => cpc \in {"back_ok", "returned"}
         /\ mpc # "join" => cpc = "returned"

MappedInv ==
  /\ TestTypeOK
  /\ val \in {1, 2} /\ res \in {-1, 0, 1} /\ ret \in {RET_PASS, RET_FAIL, Mapped!EAGAIN}
  /\ cpc \in Mapped!ChildPC /\ mpc \in Mapped!MainPC
  /\ Output(Position, Outcome, printed, status) /\ Explained(Outcome, _verbose, said)
  /\ mpc # "exited" => begun
  /\ ret = RET_FAIL /\ Shown(_verbose) => "FAIL" \in said
  /\ mpc = "create" => cpc = "none" /\ ret = RET_PASS
  /\ mpc = "wake" => val = 2
  /\ ret = Mapped!EAGAIN => mpc \in {"store", "wake"} /\ cpc = "none"
  /\ cpc \in {"reporting", "exiting"} => mpc \in {"store", "wake", "join"}
  /\ cpc = "reporting" /\ Shown(_verbose) => "ERROR" \in said
  /\ mpc \in {"print", "return"} => cpc \in {"none", "returned"}
  /\ mpc \in {"create", "store", "wake"} /\ cpc \notin {"returned", "reporting", "exiting"}
       => said = {}
  /\ mpc \in {"join", "print", "return"} /\ ret = RET_PASS => Found
  /\ mpc = "exited" /\ ret = RET_PASS => printed = <<>> \/ Found
  /\ mpc = "killed" => status = <<>>

(* Its codes and names are those of logging.h.                             *)
LEMMA MappedNames ==
  /\ Mapped!RET_PASS = 0 /\ Mapped!RET_ERROR = -1 /\ Mapped!RET_FAIL = -2
  /\ RET_PASS = 0 /\ RET_ERROR = -1 /\ RET_FAIL = -2 /\ Mapped!EAGAIN = 11
  /\ \A r : Mapped!print_result(r) = print_result(r)
  /\ \A v : Mapped!Shown(v) = Shown(v)
BY DEF Mapped!RET_PASS, RET_PASS, Mapped!RET_ERROR, RET_ERROR, Mapped!RET_FAIL, RET_FAIL,
       Mapped!print_result, print_result, Mapped!Shown, Shown, Mapped!VCRITICAL, VCRITICAL,
       Mapped!EAGAIN

(* It reads its options as TestMain has it.                                *)
LEMMA MappedPlainInit == Mapped!PlainInit => PlainInit
BY DEF Mapped!PlainInit, PlainInit, Mapped!MainInit, MainInit, Mapped!getopt, getopt,
       Mapped!log_verbosity, log_verbosity, Mapped!VCRITICAL, VCRITICAL, Mapped!VMAX,
       VMAX, Mapped!VINFO, VINFO, Mapped!Max, Max, Mapped!Min, Min

(* The initial states.                                                     *)
LEMMA MappedStarts == InitMapped => MappedInv
<1> SUFFICES ASSUME InitMapped PROVE MappedInv
  OBVIOUS
<1>1. PlainInit /\ begun = Running
  BY MappedPlainInit DEF InitMapped, Mapped!Init, Mapped!Running, Running
<1>2. /\ TestTypeOK /\ printed = <<>> /\ said = {} /\ status \in {<<>>, <<0>>, <<1>>}
  BY <1>1, PlainStartsClean
<1>3. /\ cpc = "none" /\ val = 1 /\ res = 0 /\ ret = 0
      /\ \/ mpc = "create" /\ status = <<>> /\ begun
         \/ mpc = "exited" /\ status # <<>>
  BY DEF InitMapped, Mapped!Init, Mapped!Running, Mapped!RET_PASS
<1>4. Output(Position, Outcome, printed, status)
  BY <1>2, <1>3 DEF Output, Position
<1>5. Explained(Outcome, _verbose, said)
  BY <1>3, MappedNames DEF Explained, Outcome
<1> QED
  BY <1>2, <1>3, <1>4, <1>5, MappedNames DEF MappedInv, Mapped!ChildPC, Mapped!MainPC

(* Its child while it waits, and when it returns.                          *)
LEMMA MappedChild ==
  ASSUME MappedInv,
         \/ Mapped!futex_wait \/ Mapped!wait_fail \/ Mapped!wait_timeout
         \/ Mapped!spurious \/ Mapped!child_return
  PROVE  MappedInv'
<1> USE DEF MappedInv
<1>1. /\ UNCHANGED <<val, mpc, res, ret, printed, status, begun, _verbose>>
      /\ status = <<>> /\ mpc # "killed"
      /\ cpc \in Mapped!ChildPC \ {"none", "reporting", "exiting", "returned"}
      /\ cpc' \in Mapped!ChildPC \ {"none", "reporting", "exiting"}
      /\ cpc = "back_ok" => cpc' = "returned" /\ said' = said
  BY DEF Mapped!futex_wait, Mapped!wait_fail, Mapped!wait_timeout, Mapped!spurious,
         Mapped!child_return, Mapped!ChildGoes, Mapped!Say, Mapped!io, Mapped!Alive,
         Mapped!Running, Mapped!ChildPC
<1>2. \/ said' = said
      \/ /\ said' = said \cup {"FAIL"}
         /\ cpc = "back_timedout" /\ cpc' = "returned"
  BY DEF Mapped!futex_wait, Mapped!wait_fail, Mapped!wait_timeout, Mapped!spurious,
         Mapped!child_return, Mapped!ChildGoes, Mapped!Say, Mapped!io
<1>3. /\ Position = mpc /\ Position' = mpc /\ Outcome = ret /\ Outcome' = ret
      /\ mpc \in {"store", "wake", "join"}
  BY <1>1 DEF Position, Outcome, Output, Mapped!MainPC
<1>4. Output(Position', Outcome', printed', status')
  BY <1>1, <1>3
<1>5. Explained(Outcome', _verbose', said')
  BY <1>1, <1>2, <1>3 DEF Explained
<1>6. TestTypeOK'
  BY <1>1, <1>2 DEF TestTypeOK
<1>7. mpc' = "join" /\ ret' = RET_PASS => Found'
  BY <1>1, <1>2 DEF Found
<1> QED
  BY <1>1, <1>2, <1>3, <1>4, <1>5, <1>6, <1>7

(* A child whose call has failed ends the program.                         *)
LEMMA MappedExit ==
  ASSUME MappedInv, Mapped!child_error \/ Mapped!child_report \/ Mapped!child_exit
  PROVE  MappedInv'
<1> USE DEF MappedInv
<1>1. CASE Mapped!child_error
  <2>1. /\ UNCHANGED <<val, mpc, res, ret, printed, status, begun, _verbose>>
        /\ status = <<>> /\ mpc # "killed" /\ cpc = "back_error" /\ cpc' = "reporting"
        /\ said' = IF Shown(_verbose) THEN said \cup {"ERROR"} ELSE said
    BY <1>1, MappedNames
    DEF Mapped!child_error, Mapped!Say, Mapped!ChildGoes, Mapped!Alive, Mapped!Running
  <2>2. /\ Position = mpc /\ Position' = mpc /\ Outcome = ret /\ Outcome' = ret
        /\ mpc \in {"store", "wake", "join"}
    BY <2>1 DEF Position, Outcome, Output, Mapped!MainPC
  <2>3. said \subseteq said' /\ said' \subseteq {"ERROR", "FAIL"}
    BY <2>1 DEF TestTypeOK
  <2>4. Output(Position', Outcome', printed', status') /\ Explained(Outcome', _verbose', said')
    BY <2>1, <2>2, <2>3 DEF Explained
  <2>5. TestTypeOK'
    BY <2>1, <2>3 DEF TestTypeOK
  <2>6. mpc = "join" => ret # RET_PASS
    BY <2>1 DEF Found
  <2> QED
    BY <2>1, <2>2, <2>3, <2>4, <2>5, <2>6 DEF Mapped!ChildPC
<1>2. CASE Mapped!child_report
  <2>1. /\ UNCHANGED <<val, mpc, res, ret, said, status, begun, _verbose>>
        /\ status = <<>> /\ mpc # "killed" /\ cpc = "reporting" /\ cpc' = "exiting"
        /\ printed' = Append(printed, print_result(RET_ERROR))
    BY <1>2, MappedNames
    DEF Mapped!child_report, Mapped!Report, Mapped!ChildGoes, Mapped!Alive, Mapped!Running
  <2>2. /\ Position = mpc /\ Position' = "return" /\ Outcome' = RET_ERROR
        /\ mpc \in {"store", "wake", "join"}
    BY <2>1 DEF Position, Outcome
  <2>3. Output(Position', Outcome', printed', status')
    BY <2>1, <2>2, OutputPrints DEF Codes
  <2>4. Explained(Outcome', _verbose', said')
    BY <2>1, <2>2, MappedNames DEF Explained
  <2>5. Outcome' \in Codes /\ TestTypeOK'
    BY <2>1, <2>2, <2>3, OutputMeans DEF TestTypeOK, Codes
  <2>6. mpc = "join" => ret # RET_PASS
    BY <2>1 DEF Found
  <2> QED
    BY <2>1, <2>2, <2>3, <2>4, <2>5, <2>6 DEF Mapped!ChildPC
<1>3. CASE Mapped!child_exit
  <2>1. /\ UNCHANGED <<val, mpc, res, ret, cpc, printed, said, begun, _verbose>>
        /\ status = <<>> /\ mpc # "killed" /\ cpc = "exiting"
        /\ status' = <<RET_ERROR>>
    BY <1>3, MappedNames
    DEF Mapped!child_exit, Mapped!ChildGoes, Mapped!Alive, Mapped!Running, Mapped!Exit
  <2>2. /\ Position = "return" /\ Position' = "exited"
        /\ Outcome = RET_ERROR /\ Outcome' = RET_ERROR
    BY <2>1 DEF Position, Outcome
  <2>3. Output(Position', Outcome', printed', status')
    BY <2>1, <2>2, OutputReturns DEF Codes
  <2>4. Explained(Outcome', _verbose', said') /\ TestTypeOK'
    BY <2>1, <2>2 DEF TestTypeOK
  <2>5. mpc = "join" => ret # RET_PASS
    BY <2>1 DEF Found
  <2> QED
    BY <2>1, <2>3, <2>4, <2>5
<1> QED
  BY <1>1, <1>2, <1>3

(* A wake-up of one task reports 1 exactly if the child was asleep.        *)
LEMMA MappedWake ==
  ASSUME NEW c, NEW S \in Mapped!futex_wake({c} \cap {"asleep"}, 1)
  PROVE  \/ c = "asleep" /\ S # {} /\ Mapped!Cardinality(S) = 1
         \/ c # "asleep" /\ S = {} /\ Mapped!Cardinality(S) = 0
<1>1. S \subseteq {c} \cap {"asleep"} /\ (Mapped!Cardinality(S) = 1 \/ S = {c} \cap {"asleep"})
  BY DEF Mapped!futex_wake
<1>2. Mapped!Cardinality({}) = 0 /\ Mapped!Cardinality({"asleep"}) = 1
  <2>1. \A T : Mapped!Cardinality(T) = Cardinality(T)
    BY DEF Mapped!Cardinality, Cardinality
  <2> QED
    BY <2>1, FS_EmptySet, FS_Singleton
<1>3. CASE c = "asleep"
  <2>1. {c} \cap {"asleep"} = {"asleep"} /\ S \in {{}, {"asleep"}}
    BY <1>1, <1>3
  <2>2. {"asleep"} # {}
    OBVIOUS
  <2> QED
    BY <1>1, <1>2, <1>3, <2>1, <2>2
<1>4. CASE c # "asleep"
  <2>1. {c} \cap {"asleep"} = {} /\ S = {}
    BY <1>1, <1>4
  <2> QED
    BY <1>2, <1>4, <2>1
<1> QED
  BY <1>3, <1>4

(* Its main(): only a wake-up that has found the child is a pass.          *)
LEMMA MappedMain ==
  ASSUME MappedInv, Mapped!MainStep
  PROVE  MappedInv'
<1> USE DEF MappedInv
<1>1. CASE Mapped!create
  <2>1. /\ UNCHANGED <<val, res, printed, said, status, begun, _verbose>>
        /\ mpc = "create" /\ cpc = "none" /\ mpc' = "store"
        /\ \/ ret' = RET_PASS /\ cpc' = "wait"
           \/ ret' = Mapped!EAGAIN /\ cpc' = "none"
    BY <1>1, MappedNames DEF Mapped!create, Mapped!io
  <2>2. Position = mpc /\ Position' = mpc' /\ Outcome' = ret'
    BY <2>1 DEF Position, Outcome
  <2>3. Output(Position', Outcome', printed', status')
    BY <2>1, <2>2, OutputStays
  <2>4. Explained(Outcome', _verbose', said')
    BY <2>1, <2>2, MappedNames DEF Explained
  <2>5. TestTypeOK'
    BY <2>1 DEF TestTypeOK
  <2> QED
    BY <2>1, <2>3, <2>4, <2>5, MappedNames DEF Mapped!ChildPC, Mapped!MainPC
<1>2. CASE Mapped!store
  <2>1. /\ UNCHANGED <<cpc, res, ret, printed, said, status, begun, _verbose>>
        /\ mpc = "store" /\ mpc' = "wake" /\ val' = 2
    BY <1>2 DEF Mapped!store, Mapped!io
  <2>2. /\ Outcome' = Outcome
        /\ cpc = "exiting" => Position' = Position
        /\ cpc # "exiting" => Position = mpc /\ Position' = mpc'
    BY <2>1 DEF Position, Outcome
  <2>3. Output(Position', Outcome', printed', status')
    BY <2>1, <2>2, OutputStays
  <2>4. Explained(Outcome', _verbose', said') /\ TestTypeOK'
    BY <2>1, <2>2 DEF TestTypeOK
  <2> QED
    BY <2>1, <2>3, <2>4 DEF Mapped!MainPC
<1>3. CASE Mapped!wake
  <2>1. /\ UNCHANGED <<val, printed, status, begun, _verbose>>
        /\ mpc = "wake" /\ mpc' = "join"
        /\ \/ res' = 1 /\ ret' = ret /\ said' = said
           \/ /\ res' # 1 /\ ret' = RET_FAIL
              /\ said' = IF Shown(_verbose) THEN said \cup {"FAIL"} ELSE said
    BY <1>3, MappedNames DEF Mapped!wake, Mapped!Say, Mapped!io
  <2>2. /\ res' \in {-1, 0, 1}
        /\ cpc' = cpc \/ (cpc = "asleep" /\ cpc' = "back_ok")
        /\ res' = 1 => cpc = "asleep" /\ cpc' = "back_ok"
    <3>1. CASE \E S \in Mapped!futex_wake({cpc} \cap {"asleep"}, 1) :
                 /\ res' = Mapped!Cardinality(S)
                 /\ cpc' = IF S # {} THEN "back_ok" ELSE cpc
      BY <3>1, MappedWake
    <3>2. CASE res' \in {-1, 0} /\ UNCHANGED cpc
      BY <3>2
    <3> QED
      BY <1>3, <3>1, <3>2 DEF Mapped!wake
  <2>3. /\ Outcome' = IF cpc = "exiting" THEN Outcome ELSE ret'
        /\ cpc = "exiting" => Position' = Position
        /\ cpc # "exiting" => Position = mpc /\ Position' = mpc'
    BY <2>1, <2>2 DEF Position, Outcome
  <2>4. Output(Position', Outcome', printed', status')
    BY <2>1, <2>3, OutputStays DEF Outcome
  <2>5. said' \subseteq {"ERROR", "FAIL"} /\ said \subseteq said'
    BY <2>1 DEF TestTypeOK
  <2>6. ret' = RET_FAIL /\ Shown(_verbose) => "FAIL" \in said'
    BY <2>1
  <2>7. Explained(Outcome', _verbose', said')
    <3>1. CASE cpc = "exiting"
      BY <2>1, <2>3, <2>5, <3>1 DEF Explained
    <3>2. CASE cpc # "exiting"
      BY <2>1, <2>3, <2>6, <3>2, MappedNames DEF Explained
    <3> QED
      BY <3>1, <3>2
  <2>8. TestTypeOK'
    BY <2>1, <2>5 DEF TestTypeOK
  <2>9. ret' = RET_PASS => Found'
    BY <2>1, <2>2, MappedNames DEF Found
  <2>10. ret' # Mapped!EAGAIN
    BY <2>1, <2>2, MappedNames
  <2> QED
    BY <2>1, <2>2, <2>4, <2>5, <2>6, <2>7, <2>8, <2>9, <2>10 DEF Mapped!MainPC, Mapped!ChildPC
<1>4. CASE Mapped!join
  <2>1. /\ UNCHANGED <<val, cpc, res, ret, printed, said, status, begun, _verbose>>
        /\ mpc = "join" /\ status = <<>>
        /\ \/ cpc = "returned" /\ mpc' = "print"
           \/ cpc = "none" /\ mpc' \in {"print", "killed"}
    BY <1>4 DEF Mapped!join, Mapped!io, Mapped!Alive, Mapped!Running
  <2>2. Outcome' = Outcome /\ Position = mpc /\ Position' = mpc'
    BY <2>1 DEF Position, Outcome
  <2>3. Output(Position', Outcome', printed', status')
    BY <2>1, <2>2, OutputStays
  <2>4. Explained(Outcome', _verbose', said') /\ TestTypeOK'
    BY <2>1, <2>2 DEF TestTypeOK
  <2>5. ret' = RET_PASS => Found'
    BY <2>1 DEF Found
  <2> QED
    BY <2>1, <2>3, <2>4, <2>5 DEF Mapped!MainPC
<1>5. CASE Mapped!print
  <2>1. /\ mpc = "print" /\ mpc' = "return" /\ printed' = Append(printed, print_result(ret))
        /\ UNCHANGED <<val, cpc, res, ret, said, status, begun, _verbose>>
    BY <1>5, MappedNames DEF Mapped!print, Mapped!Report
  <2>2. /\ Position = mpc /\ Position' = mpc' /\ Outcome' = Outcome /\ Outcome = ret
        /\ ret \in Codes
    BY <2>1 DEF Position, Outcome, Codes
  <2>3. Output(Position', Outcome', printed', status')
    BY <2>1, <2>2, OutputPrints
  <2>4. Explained(Outcome', _verbose', said') /\ TestTypeOK'
    BY <2>1, <2>2, <2>3, OutputMeans DEF TestTypeOK
  <2>5. ret' = RET_PASS => Found'
    BY <2>1 DEF Found
  <2> QED
    BY <2>1, <2>3, <2>4, <2>5 DEF Mapped!MainPC
<1>6. CASE Mapped!return
  <2>1. /\ mpc = "return" /\ mpc' = "exited" /\ status' = <<ret>>
        /\ UNCHANGED <<val, cpc, res, ret, printed, said, begun, _verbose>>
    BY <1>6 DEF Mapped!return, Mapped!Exit
  <2>2. /\ Position = mpc /\ Position' = mpc' /\ Outcome' = Outcome /\ Outcome = ret
        /\ ret \in Codes
    BY <2>1 DEF Position, Outcome, Codes
  <2>3. Output(Position', Outcome', printed', status')
    BY <2>1, <2>2, OutputReturns
  <2>4. Explained(Outcome', _verbose', said') /\ TestTypeOK'
    BY <2>1, <2>2 DEF TestTypeOK
  <2>5. ret' = RET_PASS => Found'
    BY <2>1 DEF Found
  <2> QED
    BY <2>1, <2>3, <2>4, <2>5 DEF Mapped!MainPC
<1> QED
  BY <1>1, <1>2, <1>3, <1>4, <1>5, <1>6 DEF Mapped!MainStep

(* What the invariant says of private_mapped_file.c.                       *)
LEMMA MappedMeans ==
  ASSUME MappedInv
  PROVE  Mapped!MappedTypeOK /\ Mapped!PassMeansFound /\ MessagesMatchResult
<1> USE DEF MappedInv
<1>1. Mapped!MappedTypeOK
  BY MappedNames
  DEF Mapped!MappedTypeOK, Mapped!TestTypeOK, TestTypeOK, Mapped!VQUIET, VQUIET,
      Mapped!VMAX, VMAX, Mapped!VINFO, VINFO, Output
<1>2. CASE Position \notin {"return", "exited"}
  <2>1. printed = <<>>
    BY <1>2 DEF Output
  <2> QED
    BY <1>1, <2>1 DEF Mapped!PassMeansFound, MessagesMatchResult
<1>3. CASE Position \in {"return", "exited"}
  <2>1. Outcome \in Codes
    BY <1>3 DEF Position, Outcome, Codes
  <2>2. printed = <<"PASS">> => Found /\ cpc = "returned"
    <3> SUFFICES ASSUME printed = <<"PASS">> PROVE Found /\ cpc = "returned"
      OBVIOUS
    <3>1. Outcome = RET_PASS /\ printed # <<>>
      BY <2>1, OutputMeans
    <3>2. cpc # "exiting" /\ ret = RET_PASS /\ mpc \in {"return", "exited"}
      BY <1>3, <3>1, MappedNames DEF Position, Outcome
    <3> QED
      BY <3>1, <3>2 DEF Found
  <2>3. MessagesMatchResult
    BY <2>1, <2>2, MessagesMatch DEF Found
  <2> QED
    BY <1>1, <2>2, <2>3 DEF Mapped!PassMeansFound, Found
<1> QED
  BY <1>2, <1>3

(* Its steps are steps of TestProtocol.                                    *)
LEMMA MappedProtocol ==
  ASSUME MappedInv, Mapped!Next
  PROVE  Protocol!Next \/ UNCHANGED <<printed, status, begun>>
<1> USE DEF MappedInv
<1>1. CASE Mapped!print
  BY <1>1, MappedNames, ProtocolReport
  DEF Mapped!print, Mapped!Report, Mapped!Alive, Mapped!Running, Output, Position, Outcome
<1>2. CASE Mapped!return
  BY <1>2, MappedNames, ProtocolReturn
  DEF Mapped!return, Mapped!Exit, Mapped!Alive, Mapped!Running, Output, Position, Outcome
<1>3. CASE Mapped!child_report
  <2>1. /\ status = <<>> /\ cpc = "reporting" /\ status' = status /\ begun' = begun
        /\ printed' = Append(printed, print_result(RET_ERROR))
    BY <1>3, MappedNames
    DEF Mapped!child_report, Mapped!Report, Mapped!ChildGoes, Mapped!Alive, Mapped!Running
  <2>2. printed = <<>> /\ begun
    BY <2>1 DEF Output, Position
  <2> QED
    BY <2>1, <2>2, ProtocolReport
<1>4. CASE Mapped!child_exit
  <2>1. /\ status = <<>> /\ cpc = "exiting" /\ status' = <<RET_ERROR>>
        /\ UNCHANGED <<printed, begun>>
    BY <1>4, MappedNames
    DEF Mapped!child_exit, Mapped!ChildGoes, Mapped!Alive, Mapped!Running, Mapped!Exit
  <2>2. printed = <<print_result(RET_ERROR)>>
    BY <2>1 DEF Output, Position, Outcome
  <2> QED
    BY <2>1, <2>2, ProtocolReturn
<1>5. CASE ~ Mapped!print /\ ~ Mapped!return /\ ~ Mapped!child_report /\ ~ Mapped!child_exit
  BY <1>5
  DEF Mapped!Next, Mapped!ChildStep, Mapped!futex_wait, Mapped!child_return,
      Mapped!child_error, Mapped!wait_fail, Mapped!wait_timeout, Mapped!spurious, Mapped!MainStep, Mapped!create, Mapped!store,
      Mapped!wake, Mapped!join, Mapped!Say, Mapped!io
<1> QED
  BY <1>1, <1>2, <1>3, <1>4, <1>5

-----------------------------------------------------------------------------
(* futex_wait_timeout.c and futex_wait_wouldblock.c.                       *)
WaitInv ==
  /\ TestTypeOK
  /\ prog \in {"timeout", "wouldblock"} /\ timeout_ns \in Int
  /\ res \in {-1, 0} /\ errno \in Wait!Errnos \cup {0} /\ ret \in {RET_PASS, RET_FAIL}
  /\ pc \in {"call", "check", "print", "return", "exited"}
  /\ Output(pc, ret, printed, status) /\ Explained(ret, _verbose, said)
  /\ pc # "exited" => begun
  /\ ret = RET_PASS => said = {}
  /\ pc \in {"call", "check"} => ret = RET_PASS
  /\ pc \in {"print", "return"} => (ret = RET_PASS <=> res = -1 /\ errno = Wait!Expected)
  /\ pc = "exited" =>
       printed = <<>> \/ (ret = RET_PASS <=> res = -1 /\ errno = Wait!Expected)

(* Their codes and names are those of logging.h.                           *)
LEMMA WaitNames ==
  /\ Wait!RET_PASS = 0 /\ Wait!RET_FAIL = -2
  /\ RET_PASS = 0 /\ RET_ERROR = -1 /\ RET_FAIL = -2
  /\ Wait!ETIMEDOUT = 110 /\ Wait!EWOULDBLOCK = 11 /\ Wait!Errnos = {11, 22, 110}
  /\ \A r : Wait!print_result(r) = print_result(r)
  /\ \A v : Wait!Shown(v) = Shown(v)
  /\ \A handled, argv : Wait!getopt(handled, argv) = getopt(handled, argv)
<1>1. \A handled, argv : Wait!getopt(handled, argv) = getopt(handled, argv)
  BY DEF Wait!getopt, getopt, Wait!log_verbosity, log_verbosity, Wait!VCRITICAL, VCRITICAL,
         Wait!VMAX, VMAX, Wait!VINFO, VINFO, Wait!Max, Max, Wait!Min, Min
<1> QED
  BY <1>1
  DEF Wait!RET_PASS, RET_PASS, Wait!RET_ERROR, RET_ERROR, Wait!RET_FAIL, RET_FAIL,
      Wait!print_result, print_result, Wait!Shown, Shown, Wait!VCRITICAL, VCRITICAL,
      Wait!ETIMEDOUT, Wait!EWOULDBLOCK, Wait!EINVAL, Wait!Errnos

(* The initial states: the options of the two programs differ.             *)
LEMMA WaitStarts == InitWait => WaitInv /\ Protocol!Init
<1> SUFFICES ASSUME InitWait PROVE WaitInv /\ Protocol!Init
  OBVIOUS
<1>1. PICK argv \in Commands : \E handled :
        /\ Wait!MainInit(Wait!getopt(handled, argv))
        /\ timeout_ns = Wait!getopt(handled, argv).timeout_ns
  BY DEF InitWait, Wait!Init, Wait!timeout_options, Wait!wouldblock_options
<1>2. PICK handled : /\ Wait!MainInit(Wait!getopt(handled, argv))
                     /\ timeout_ns = Wait!getopt(handled, argv).timeout_ns
  BY <1>1
<1> DEFINE o == getopt(handled, argv)
<1>3. o \in Settings
  BY GetoptType
<1>4. Wait!MainInit(o) /\ timeout_ns = o.timeout_ns
  BY <1>2, WaitNames
<1> HIDE DEF o
<1>5. MainInit(o) /\ timeout_ns \in Int /\ begun = Running
  BY <1>3, <1>4 DEF Wait!MainInit, MainInit, Settings, InitWait, Wait!Init, Wait!Running, Running
<1>6. /\ TestTypeOK /\ Protocol!Init
      /\ printed = <<>> /\ said = {} /\ status \in {<<>>, <<0>>, <<1>>}
  BY <1>3, <1>5, StartsClean
<1>7. /\ prog \in {"timeout", "wouldblock"} /\ res = 0 /\ errno = 0 /\ ret = RET_PASS
      /\ \/ pc = "call" /\ status = <<>> /\ begun
         \/ pc = "exited" /\ status # <<>>
  BY WaitNames DEF InitWait, Wait!Init, Wait!Running
<1>8. Output(pc, ret, printed, status) /\ Explained(ret, _verbose, said)
  BY <1>6, <1>7, WaitNames DEF Output, Explained
<1> QED
  BY <1>5, <1>6, <1>7, <1>8 DEF WaitInv

(* One call, one comparison, one result.                                   *)
LEMMA WaitStep ==
  ASSUME WaitInv, Wait!Next
  PROVE  WaitInv'
<1> USE DEF WaitInv
<1>1. CASE Wait!timeout_call \/ Wait!wouldblock_call
  <2>1. /\ pc = "call" /\ pc' = "check"
        /\ UNCHANGED <<prog, timeout_ns, ret, printed, said, status, begun, _verbose>>
    BY <1>1 DEF Wait!timeout_call, Wait!wouldblock_call, Wait!FutexWait, Wait!io
  <2>2. \A v : Wait!WaitErrno(v) \in Wait!Errnos
    BY DEF Wait!WaitErrno, Wait!Errnos
  <2>3. res' \in {-1, 0} /\ errno' \in Wait!Errnos \cup {0}
    BY <1>1, <2>2 DEF Wait!timeout_call, Wait!wouldblock_call, Wait!FutexWait
  <2>4. Output(pc', ret', printed', status')
    BY <2>1, OutputStays
  <2>5. Explained(ret', _verbose', said') /\ TestTypeOK'
    BY <2>1 DEF TestTypeOK
  <2> QED
    BY <2>1, <2>3, <2>4, <2>5
<1>2. CASE Wait!timeout_check \/ Wait!wouldblock_check
  <2>1. /\ pc = "check" /\ pc' = "print"
        /\ UNCHANGED <<prog, timeout_ns, res, errno, printed, status, begun, _verbose>>
        /\ \/ /\ res = 0 \/ errno # Wait!Expected
              /\ ret' = RET_FAIL
              /\ said' = IF Shown(_verbose) THEN said \cup {"FAIL"} ELSE said
           \/ /\ res # 0 /\ errno = Wait!Expected
              /\ ret' = ret /\ said' = said
    BY <1>2, WaitNames
    DEF Wait!timeout_check, Wait!wouldblock_check, Wait!Check, Wait!Say, Wait!io,
        Wait!Expected
  <2>2. said' \subseteq {"ERROR", "FAIL"}
    BY <2>1 DEF TestTypeOK
  <2>3. Output(pc', ret', printed', status')
    BY <2>1, OutputStays
  <2>4. Explained(ret', _verbose', said')
    BY <2>1, WaitNames DEF Explained
  <2>5. TestTypeOK'
    BY <2>1, <2>2 DEF TestTypeOK
  <2>6. Wait!Expected' = Wait!Expected
    BY <2>1 DEF Wait!Expected
  <2> QED
    BY <2>1, <2>3, <2>4, <2>5, <2>6, WaitNames
<1>3. CASE Wait!print
  <2>1. /\ pc = "print" /\ pc' = "return" /\ printed' = Append(printed, print_result(ret))
        /\ UNCHANGED <<prog, timeout_ns, res, errno, ret, said, status, begun, _verbose>>
    BY <1>3, WaitNames DEF Wait!print, Wait!Report
  <2>2. Output(pc', ret', printed', status') /\ ret \in Codes
    BY <2>1, OutputPrints DEF Codes
  <2>3. Explained(ret', _verbose', said') /\ TestTypeOK'
    BY <2>1, <2>2, OutputMeans DEF TestTypeOK
  <2>4. Wait!Expected' = Wait!Expected
    BY <2>1 DEF Wait!Expected
  <2> QED
    BY <2>1, <2>2, <2>3, <2>4
<1>4. CASE Wait!return
  <2>1. /\ pc = "return" /\ pc' = "exited" /\ status' = <<ret>>
        /\ UNCHANGED <<prog, timeout_ns, res, errno, ret, printed, said, begun, _verbose>>
    BY <1>4 DEF Wait!return, Wait!Exit
  <2>2. Output(pc', ret', printed', status')
    BY <2>1, OutputReturns DEF Codes
  <2>3. Explained(ret', _verbose', said') /\ TestTypeOK'
    BY <2>1 DEF TestTypeOK
  <2>4. Wait!Expected' = Wait!Expected
    BY <2>1 DEF Wait!Expected
  <2> QED
    BY <2>1, <2>2, <2>3, <2>4
<1> QED
  BY <1>1, <1>2, <1>3, <1>4 DEF Wait!Next

(* What the invariant says of the two programs.                            *)
LEMMA WaitMeans ==
  ASSUME WaitInv
  PROVE  Wait!WaitTypeOK /\ Wait!VerdictExact /\ MessagesMatchResult
<1> USE DEF WaitInv
<1>1. Wait!WaitTypeOK
  BY WaitNames
  DEF Wait!WaitTypeOK, Wait!TestTypeOK, TestTypeOK, Wait!VQUIET, VQUIET, Wait!VMAX, VMAX,
      Wait!VINFO, VINFO
<1>2. ret \in Codes
  BY DEF Codes
<1>3. ASSUME printed # <<>>
      PROVE  printed = <<"PASS">> <=> res = -1 /\ errno = Wait!Expected
  <2>1. pc \in {"return", "exited"} /\ printed = <<print_result(ret)>>
    BY <1>2, <1>3, OutputMeans
  <2>2. printed = <<"PASS">> <=> ret = RET_PASS
    BY <1>2, <2>1, ResultNames DEF Codes
  <2> QED
    BY <1>3, <2>1, <2>2
<1>4. printed = <<"PASS">> => said = {}
  BY <1>2, OutputMeans
<1>5. MessagesMatchResult
  BY <1>2, <1>4, MessagesMatch
<1> QED
  BY <1>1, <1>3, <1>5 DEF Wait!VerdictExact

(* Their steps are steps of TestProtocol.                                  *)
LEMMA WaitProtocol ==
  ASSUME WaitInv, Wait!Next
  PROVE  Protocol!Next \/ UNCHANGED <<printed, status, begun>>
<1> USE DEF WaitInv
<1>1. CASE Wait!print
  BY <1>1, WaitNames, ProtocolReport DEF Wait!print, Wait!Report, Output
<1>2. CASE Wait!return
  BY <1>2, ProtocolReturn DEF Wait!return, Wait!Exit, Output
<1>3. CASE ~ Wait!print /\ ~ Wait!return
  BY <1>3
  DEF Wait!Next, Wait!timeout_call, Wait!wouldblock_call, Wait!timeout_check,
      Wait!wouldblock_check, Wait!FutexWait, Wait!Check, Wait!Say, Wait!io
<1> QED
  BY <1>1, <1>2, <1>3

-----------------------------------------------------------------------------
(* All of them together: the program that runs satisfies its invariant.    *)
TestsInv ==
  \/ prog = "mismatched_ops" /\ MismatchedInv
  \/ prog = "uninitialized_heap" /\ HeapInv
  \/ prog = "private_mapped_file" /\ MappedInv
  \/ prog \in {"timeout", "wouldblock"} /\ WaitInv

(* Whatever the command line, a program starts in its invariant.           *)
LEMMA TestsStart == Init => TestsInv /\ Protocol!Init
<1> SUFFICES ASSUME Init PROVE TestsInv /\ Protocol!Init
  OBVIOUS
<1>1. CASE InitMismatched
  <2>1. prog = "mismatched_ops" /\ Protocol!Init
    BY <1>1, MismatchedPlainInit, PlainStartsClean
    DEF InitMismatched, Mismatched!Init, Mismatched!Running, Running
  <2> QED
    BY <1>1, <2>1, MismatchedStarts DEF TestsInv
<1>2. CASE InitHeap
  <2>1. prog = "uninitialized_heap" /\ HeapInv
    BY <1>2, HeapStarts DEF InitHeap
  <2>2. Protocol!Init
    BY <1>2, HeapPlainInit, PlainStartsClean DEF InitHeap, Heap!Init
  <2> QED
    BY <2>1, <2>2 DEF TestsInv
<1>3. CASE InitMapped
  <2>1. prog = "private_mapped_file" /\ Protocol!Init
    BY <1>3, MappedPlainInit, PlainStartsClean
    DEF InitMapped, Mapped!Init, Mapped!Running, Running
  <2> QED
    BY <1>3, <2>1, MappedStarts DEF TestsInv
<1>4. CASE InitWait
  <2>1. prog \in {"timeout", "wouldblock"}
    BY <1>4 DEF InitWait, Wait!Init
  <2> QED
    BY <1>4, <2>1, WaitStarts DEF TestsInv
<1> QED
  BY <1>1, <1>2, <1>3, <1>4 DEF Init

(* Every step of the program that runs preserves its invariant and is a    *)
(* step of TestProtocol, or prints nothing.                                *)
LEMMA TestsStep ==
  ASSUME TestsInv, [Next]_vars
  PROVE  TestsInv' /\ (Protocol!Next \/ UNCHANGED <<printed, status, begun>>)
<1>1. CASE mismatched_ops(Mismatched!Next)
  <2>1. prog = "mismatched_ops" /\ prog' = prog /\ MismatchedInv /\ Mismatched!Next
    BY <1>1 DEF mismatched_ops, notMismatched, TestsInv
  <2>2. MismatchedInv'
    BY <2>1, MismatchedChild, MismatchedMain DEF Mismatched!Next
  <2> QED
    BY <2>1, <2>2, MismatchedProtocol DEF TestsInv
<1>2. CASE uninitialized_heap(Heap!Next)
  <2>1. prog = "uninitialized_heap" /\ prog' = prog /\ HeapInv /\ Heap!Next
    BY <1>2 DEF uninitialized_heap, notHeap, TestsInv
  <2>2. HeapInv'
    BY <2>1, HeapChild, HeapMain DEF Heap!Next
  <2> QED
    BY <2>1, <2>2, HeapProtocol DEF TestsInv
<1>3. CASE private_mapped_file(Mapped!Next)
  <2>1. prog = "private_mapped_file" /\ prog' = prog /\ MappedInv /\ Mapped!Next
    BY <1>3 DEF private_mapped_file, notMapped, TestsInv
  <2>2. MappedInv'
    BY <2>1, MappedChild, MappedExit, MappedMain DEF Mapped!Next, Mapped!ChildStep
  <2> QED
    BY <2>1, <2>2, MappedProtocol DEF TestsInv
<1>4. CASE IsWait /\ Wait!Next
  <2>1. prog \in {"timeout", "wouldblock"} /\ WaitInv
    BY <1>4 DEF IsWait, TestsInv
  <2>2. WaitInv'
    BY <1>4, <2>1, WaitStep
  <2> QED
    BY <1>4, <2>1, <2>2, WaitProtocol DEF TestsInv, WaitInv
<1>5. CASE UNCHANGED vars
  BY <1>5
  DEF vars, io, TestsInv, MismatchedInv, HeapInv, MappedInv, WaitInv, TestTypeOK,
      Mismatched!WokenChildHasNoError, Position, Outcome, Found, Wait!Expected
<1> QED
  BY <1>1, <1>2, <1>3, <1>4, <1>5 DEF Next

(* The invariant, for every command line and every choice of what fails.   *)
THEOREM TestsInvariant == Spec => []TestsInv
<1>1. Init => TestsInv
  BY TestsStart
<1>2. TestsInv /\ [Next]_vars => TestsInv'
  BY TestsStep
<1> QED
  BY <1>1, <1>2, PTL DEF Spec

(* Every variable of the running program keeps its type.                   *)
THEOREM TestsTypeCorrect == Spec => []TestsTypeOK
<1>1. TestsInv => TestsTypeOK
  BY MismatchedMeans, HeapMeans, MappedMeans, WaitMeans DEF TestsInv, TestsTypeOK, IsWait
<1> QED
  BY <1>1, TestsInvariant, PTL

(* stderr never contradicts the result line, in the tests whose threads    *)
(* are joined: a PASS comes without a message of error() or fail(), and    *)
(* another result with one, unless the test was told to be quiet.          *)
THEOREM MessagesAlwaysAgree == Spec => []MessagesAgree
<1>1. TestsInv => MessagesAgree
  BY MismatchedMeans, MappedMeans, WaitMeans DEF TestsInv, MessagesAgree
<1> QED
  BY <1>1, TestsInvariant, PTL

(* mismatched_ops.c copies no errno of its child into a passing result.    *)
THEOREM ChildErrnoStaysOut == Spec => []WokenChildHasNoError
<1>1. TestsInv => WokenChildHasNoError
  BY MismatchedMeans DEF TestsInv, WokenChildHasNoError
<1> QED
  BY <1>1, TestsInvariant, PTL

(* A PASS of any of the programs is one it has earned.                     *)
THEOREM PassesAreEarned == Spec => []PassIsEarned
<1>1. TestsInv => PassIsEarned
  BY HeapMeans, MappedMeans, WaitMeans DEF TestsInv, PassIsEarned, IsWait
<1> QED
  BY <1>1, TestsInvariant, PTL

(* Each program implements TestProtocol: one result line, then the         *)
(* matching exit status; or, only before the test has begun, an exit with  *)
(* 0 or 1 and no result.                                                   *)
THEOREM TestsFollowProtocol == Spec => ImplementsTestProtocol
<1>1. Init => Protocol!Init
  BY TestsStart
<1>2. TestsInv /\ [Next]_vars => [Protocol!Next]_<<printed, status, begun>>
  BY TestsStep
<1> QED
  BY <1>1, <1>2, TestsInvariant, PTL DEF Spec, ImplementsTestProtocol, Protocol!Spec

=============================================================================

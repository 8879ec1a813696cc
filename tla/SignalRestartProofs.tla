------------------------ MODULE SignalRestartProofs -------------------------
(***************************************************************************)
(* Proofs about functional/futex_requeue_pi_signal_restart.c, for every    *)
(* command line and every failure.                                         *)
(***************************************************************************)
EXTENDS SignalRestart, TestMainProofs, FiniteSetTheorems

(* main() has f2 from its lock to its unlock, and the waiter is queued for *)
(* it exactly while it waits there; if main() was denied f2, the waiter    *)
(* has it from the requeue to its own unlock.                              *)
FutexInv ==
  /\ ~ denied /\ mpc \in {"sigaction", "create", "lock", "out", "print", "return",
                         "returned"} =>
       f2 = PI_INITIALIZER
  /\ ~ denied /\ mpc \in {"locking", "kill", "usleep", "requeue", "decide", "kill_after",
                         "join", "unlock"} =>
       f2 = [owner |-> Main, queue |-> IF wpc = "on_f2" THEN {Waiter} ELSE {}]
  /\ denied =>
       f2 = IF wpc \in {"on_f2", "ret_0", "unlock"} THEN [owner |-> Waiter, queue |-> {}]
                                                   ELSE PI_INITIALIZER

(* Where the waiter can be while main() is at one of its steps.            *)
ThreadInv ==
  /\ mpc \in {"sigaction", "create"} => wpc = "none"
  /\ mpc \in {"lock", "locking"} =>
       /\ wpc \notin {"none", "on_f2", "ret_0", "ret_wouldblock", "unlock"}
       /\ wpc = "exited" => waiter_ret = RET_FAIL
  /\ mpc = "unlock" => wpc = "exited"
  /\ mpc \in {"out", "print", "return", "returned"} => wpc \in {"none", "exited"}
  /\ wpc \in {"ret_0", "unlock"} => denied
  /\ denied => /\ mpc \notin {"sigaction", "create", "lock", "locking"}
               /\ wpc \notin {"none", "ret_wouldblock"}
               /\ wpc = "exited" => waiter_ret = RET_FAIL

(* What main() knows when it leaves the loop, and when it has a verdict.   *)
Interrupted == requeued = 1 /\ res = 1 /\ wpc = "exited"

LoopInv ==
  /\ mpc \in {"kill_after", "join", "unlock"} => requeued = 1 /\ res = 1
  /\ mpc \in {"out", "print", "return"} /\ ret = RET_PASS => Interrupted
  /\ mpc \in {"print", "return"} /\ ret = RET_PASS => waiter_ret = RET_PASS

(* The output so far.                                                      *)
OutputInv ==
  /\ mpc # "returned" => status = <<>>
  /\ mpc = "sigaction" => ~ begun
  /\ mpc \notin {"sigaction", "returned"} => begun
  /\ mpc \notin {"return", "returned"} => printed = <<>>
  /\ mpc = "return" => printed = <<print_result(ret)>>
  /\ mpc = "returned" => printed = <<>> \/ printed = <<print_result(ret)>>

SignalInv ==
  /\ SignalTypeOK /\ FutexInv /\ ThreadInv /\ LoopInv /\ OutputInv
  /\ PassMeansInterrupted

-----------------------------------------------------------------------------
(* What FUTEX_CMP_REQUEUE_PI does while f2 has an owner: it takes the      *)
(* waiter if it is on f1, and queues it.                                   *)
LEMMA RequeueOne ==
  ASSUME NEW waiting \in {{Waiter}, {}}, NEW pi, waiting = {} \/ pi.owner # Nobody,
         NEW m \in futex_cmp_requeue_pi(waiting, pi, 0)
  PROVE  /\ m.moved = waiting
         /\ m.pi = [pi EXCEPT !.queue = @ \cup waiting]
         /\ Cardinality(m.moved) = IF waiting = {} THEN 0 ELSE 1
<1>1. Cardinality({}) = 0 /\ Cardinality({Waiter}) = 1
  BY FS_EmptySet, FS_Singleton
<1>2. PICK S \in Moves(waiting, 0) :
        m \in IF S = {} \/ pi.owner # Nobody
              THEN {[moved |-> S, pi |-> [pi EXCEPT !.queue = @ \cup S]]}
              ELSE {[moved |-> S, pi |-> [owner |-> u, queue |-> pi.queue \cup (S \ {u})]] :
                      u \in S}
  BY DEF futex_cmp_requeue_pi
<1>4. S = waiting
  BY <1>1 DEF Moves
<1>3. m = [moved |-> S, pi |-> [pi EXCEPT !.queue = @ \cup S]]
  BY <1>2, <1>4
<1> QED
  BY <1>1, <1>3, <1>4

(* If nobody has f2, the waiter gets it.                                   *)
LEMMA RequeueToOwner ==
  ASSUME NEW m \in futex_cmp_requeue_pi({Waiter}, PI_INITIALIZER, 0)
  PROVE  /\ m.moved = {Waiter} /\ Cardinality(m.moved) = 1
         /\ m.pi = [owner |-> Waiter, queue |-> {}]
<1>1. Cardinality({}) = 0 /\ Cardinality({Waiter}) = 1
  BY FS_EmptySet, FS_Singleton
<1>2. PICK S \in Moves({Waiter}, 0) :
        m \in IF S = {} \/ PI_INITIALIZER.owner # Nobody
              THEN {[moved |-> S, pi |-> [PI_INITIALIZER EXCEPT !.queue = @ \cup S]]}
              ELSE {[moved |-> S,
                     pi |-> [owner |-> u, queue |-> PI_INITIALIZER.queue \cup (S \ {u})]] :
                      u \in S}
  BY DEF futex_cmp_requeue_pi
<1>3. S = {Waiter}
  BY <1>1 DEF Moves
<1>4. m = [moved |-> S, pi |-> [owner |-> Waiter, queue |-> {} \cup (S \ {Waiter})]]
  BY <1>2, <1>3 DEF PI_INITIALIZER
<1>5. {} \cup (S \ {Waiter}) = {}
  BY <1>3
<1> QED
  BY <1>1, <1>3, <1>4, <1>5

(* The initial states.                                                     *)
LEMMA SignalInit == Init => SignalInv
<1> SUFFICES ASSUME Init PROVE SignalInv
  OBVIOUS
<1>1. /\ TestTypeOK /\ printed = <<>> /\ said = {}
  BY PlainStartsClean DEF Init
<1>2. SignalTypeOK
  BY <1>1
  DEF Init, SignalTypeOK, PI_INITIALIZER, WaiterPC, MainPC, RET_PASS, RET_ERROR, RET_FAIL
<1> QED
  BY <1>1, <1>2
  DEF Init, SignalInv, FutexInv, ThreadInv, LoopInv, OutputInv, PassMeansInterrupted, Running

(* waiterfn() gets f2 only if main() has not.                              *)
LEMMA SignalWaiter == SignalInv /\ WaiterStep => SignalInv'
<1> SUFFICES ASSUME SignalInv, WaiterStep PROVE SignalInv'
  OBVIOUS
<1> USE DEF SignalInv
<1>1. /\ UNCHANGED <<denied, requeued, mainVars, printed, status, begun, _verbose>>
      /\ said' \subseteq {"ERROR", "FAIL"}
      /\ wpc \notin {"none", "exited"}
  BY DEF WaiterStep, waiter_start, waiter_call, waiter_fail, waiter_restart, waiter_return,
         handle_signal, waiter_check, waiter_unlock, Say, SignalTypeOK, TestTypeOK, io
<1>2. mpc \in {"lock", "locking", "kill", "usleep", "requeue", "decide", "kill_after", "join"}
  BY <1>1 DEF ThreadInv, SignalTypeOK, MainPC
<1>3. /\ f2.owner = Waiter <=> denied /\ wpc \in {"on_f2", "ret_0", "unlock"}
      /\ wpc = "on_f2" => mpc # "lock"
  BY <1>2 DEF FutexInv, ThreadInv, PI_INITIALIZER, Main, Waiter, Nobody
<1>4. /\ wpc' \in WaiterPC \ {"none"} /\ pending' \in BOOLEAN
      /\ waiter_ret' \in {RET_PASS, RET_FAIL}
      /\ wpc' = "on_f2" => wpc = "on_f2"
      /\ wpc' \in {"ret_0", "unlock"} => denied
      /\ denied \/ mpc \in {"lock", "locking"} =>
           wpc' # "ret_wouldblock" /\ (wpc' = "exited" => waiter_ret' = RET_FAIL)
  BY <1>1, <1>3
  DEF WaiterStep, waiter_start, waiter_call, waiter_fail, waiter_restart, waiter_return,
      handle_signal, waiter_check, waiter_unlock, SignalTypeOK, WaiterPC, ThreadInv
<1>5. f2' = IF wpc = "on_f2" /\ wpc' # "on_f2" THEN pi_dequeue(f2, Waiter)
            ELSE IF wpc = "unlock" /\ wpc' = "exited" THEN PI_INITIALIZER ELSE f2
  <2>1. CASE waiter_unlock
    <3>1. f2 = [owner |-> Waiter, queue |-> {}]
      BY <2>1 DEF waiter_unlock, ThreadInv, FutexInv
    <3>2. f2' = PI_INITIALIZER
      BY <2>1, <3>1 DEF waiter_unlock, futex_unlock_pi
    <3> QED
      BY <2>1, <3>2 DEF waiter_unlock
  <2>2. CASE ~ waiter_unlock
    BY <1>3, <2>2
    DEF WaiterStep, waiter_start, waiter_call, waiter_fail, waiter_restart, waiter_return,
        handle_signal, waiter_check
  <2> QED
    BY <2>1, <2>2
<1>6. FutexInv'
  <2>1. CASE ~ denied
    BY <1>1, <1>2, <1>3, <1>4, <1>5, <2>1 DEF FutexInv, ThreadInv, pi_dequeue, mainVars
  <2>2. CASE denied
    <3>1. /\ wpc' \in {"on_f2", "ret_0", "unlock"} => wpc \in {"on_f2", "ret_0", "unlock"}
          /\ wpc \in {"on_f2", "ret_0", "unlock"} /\ wpc' \notin {"on_f2", "ret_0", "unlock"}
               => wpc = "unlock" /\ wpc' = "exited"
      BY <1>3, <2>2
      DEF WaiterStep, waiter_start, waiter_call, waiter_fail, waiter_restart, waiter_return,
          handle_signal, waiter_check, waiter_unlock, ThreadInv
    <3>2. pi_dequeue([owner |-> Waiter, queue |-> {}], Waiter) = [owner |-> Waiter, queue |-> {}]
      BY DEF pi_dequeue
    <3> QED
      BY <1>1, <1>4, <1>5, <2>2, <3>1, <3>2 DEF FutexInv
  <2> QED
    BY <2>1, <2>2
<1>7. SignalTypeOK'
  <2>1. f2' \in [owner : {Main, Waiter, Nobody}, queue : SUBSET {Main, Waiter}]
    BY <1>5 DEF SignalTypeOK, pi_dequeue, PI_INITIALIZER
  <2> QED
    BY <1>1, <1>4, <2>1 DEF SignalTypeOK, TestTypeOK, mainVars
<1>8. ThreadInv' /\ LoopInv' /\ OutputInv' /\ PassMeansInterrupted'
  BY <1>1, <1>2, <1>4
  DEF ThreadInv, LoopInv, OutputInv, PassMeansInterrupted, Interrupted, mainVars
<1> QED
  BY <1>6, <1>7, <1>8

(* main() keeps f2 until it has joined the waiter.                         *)
LEMMA SignalMain == SignalInv /\ MainStep => SignalInv'
<1> SUFFICES ASSUME SignalInv, MainStep PROVE SignalInv'
  OBVIOUS
<1> USE DEF SignalInv
<1>1. CASE sigaction \/ delay
  <2>1. CASE sigaction
    BY <2>1
    DEF sigaction, Prepared, SignalTypeOK, TestTypeOK, FutexInv, ThreadInv, LoopInv,
        OutputInv, PassMeansInterrupted, Interrupted, MainPC
  <2>2. CASE delay
    BY <2>2
    DEF delay, SignalTypeOK, TestTypeOK, FutexInv, ThreadInv, LoopInv, OutputInv,
        PassMeansInterrupted, Interrupted, MainPC, io
  <2> QED
    BY <1>1, <2>1, <2>2
<1>2. CASE sigaction_fail
  BY <1>2
  DEF sigaction_fail, Unprepared, SignalTypeOK, TestTypeOK, FutexInv, ThreadInv, LoopInv, OutputInv,
      PassMeansInterrupted, Interrupted, MainPC
<1>3. CASE create
  BY <1>3
  DEF create, SignalTypeOK, TestTypeOK, FutexInv, ThreadInv, LoopInv, OutputInv,
      PassMeansInterrupted, Interrupted, MainPC, WaiterPC, io
<1>4. CASE create_fail
  BY <1>4
  DEF create_fail, Say, SignalTypeOK, TestTypeOK, FutexInv, ThreadInv, LoopInv, OutputInv,
      PassMeansInterrupted, Interrupted, MainPC, RET_PASS, RET_ERROR
<1>5. CASE lock
  <2>1. /\ ~ denied /\ f2 = PI_INITIALIZER
        /\ wpc \notin {"none", "on_f2", "ret_0", "ret_wouldblock", "unlock"}
        /\ wpc = "exited" => waiter_ret = RET_FAIL
    BY <1>5 DEF lock, ThreadInv, FutexInv
  <2>2. \/ f2' = [owner |-> Main, queue |-> {}] /\ mpc' = "locking" /\ denied' = FALSE
        \/ f2' = PI_INITIALIZER /\ mpc' = "kill" /\ denied' = TRUE
    BY <1>5, <2>1 DEF lock, futex_lock_pi, PI_INITIALIZER, SignalTypeOK
  <2>3. mpc = "lock" /\ UNCHANGED <<pending, requeued, waiter_ret, wpc, res, ret, io>>
    BY <1>5 DEF lock
  <2>4. SignalTypeOK'
    <3>1. /\ f2' \in [owner : {Main, Waiter, Nobody}, queue : SUBSET {Main, Waiter}]
          /\ denied' \in BOOLEAN /\ mpc' \in MainPC
      <4>1. /\ [owner |-> Main, queue |-> {}] \in
                 [owner : {Main, Waiter, Nobody}, queue : SUBSET {Main, Waiter}]
            /\ PI_INITIALIZER \in
                 [owner : {Main, Waiter, Nobody}, queue : SUBSET {Main, Waiter}]
        BY DEF PI_INITIALIZER
      <4> QED
        BY <2>2, <4>1 DEF MainPC
    <3> QED
      BY <2>3, <3>1 DEF SignalTypeOK, TestTypeOK, io
  <2>5. FutexInv'
    BY <2>1, <2>2, <2>3 DEF FutexInv
  <2>6. ThreadInv' /\ LoopInv' /\ OutputInv' /\ PassMeansInterrupted'
    BY <2>1, <2>2, <2>3
    DEF ThreadInv, LoopInv, OutputInv, PassMeansInterrupted, Interrupted, io
  <2> QED
    BY <2>4, <2>5, <2>6
<1>6. CASE locked
  BY <1>6
  DEF locked, SignalTypeOK, TestTypeOK, FutexInv, ThreadInv, LoopInv, OutputInv,
      PassMeansInterrupted, Interrupted, MainPC, io
<1>7. CASE kill \/ kill_after
  <2>1. CASE kill
    BY <2>1
    DEF kill, SignalTypeOK, TestTypeOK, FutexInv, ThreadInv, LoopInv, OutputInv,
        PassMeansInterrupted, Interrupted, MainPC, io
  <2>2. CASE kill_after
    BY <2>2
    DEF kill_after, SignalTypeOK, TestTypeOK, FutexInv, ThreadInv, LoopInv, OutputInv,
        PassMeansInterrupted, Interrupted, MainPC, io
  <2> QED
    BY <1>7, <2>1, <2>2
<1>8. CASE requeue
  <2> DEFINE waiting == IF wpc = "on_f1" THEN {Waiter} ELSE {}
  <2>1. PICK m \in futex_cmp_requeue_pi(waiting, f2, 0) :
          /\ f2' = m.pi
          /\ wpc' = IF m.moved # {} THEN "on_f2" ELSE wpc
          /\ res' = Cardinality(m.moved)
    BY <1>8 DEF requeue
  <2>2. /\ waiting \in {{Waiter}, {}} /\ (waiting = {} <=> wpc # "on_f1")
        /\ wpc = "on_f1" => waiting = {Waiter}
    OBVIOUS
  <2> HIDE DEF waiting
  <2>3. mpc = "requeue" /\ mpc' = "decide"
        /\ UNCHANGED <<denied, pending, requeued, waiter_ret, ret, io>>
    BY <1>8 DEF requeue
  <2>4. /\ wpc' = IF wpc = "on_f1" THEN "on_f2" ELSE wpc
        /\ res' \in {0, 1} /\ FutexInv'
    <3>1. CASE ~ denied
      <4>1. f2 = [owner |-> Main, queue |-> IF wpc = "on_f2" THEN {Waiter} ELSE {}]
        BY <2>3, <3>1 DEF FutexInv
      <4>2. f2.owner # Nobody
        BY <4>1 DEF Main, Nobody
      <4>3. /\ m.moved = waiting
            /\ m.pi = [f2 EXCEPT !.queue = @ \cup waiting]
            /\ Cardinality(m.moved) = IF waiting = {} THEN 0 ELSE 1
        BY <2>2, <4>2, RequeueOne
      <4>4. wpc' = IF wpc = "on_f1" THEN "on_f2" ELSE wpc
        BY <2>1, <2>2, <4>3
      <4>5. f2' = [owner |-> Main, queue |-> IF wpc' = "on_f2" THEN {Waiter} ELSE {}]
        BY <2>1, <2>2, <4>1, <4>3, <4>4
      <4> QED
        BY <2>1, <2>3, <3>1, <4>3, <4>4, <4>5 DEF FutexInv
    <3>2. CASE denied /\ wpc = "on_f1"
      <4>1. f2 = PI_INITIALIZER /\ waiting = {Waiter}
        BY <2>2, <3>2 DEF FutexInv
      <4>2. /\ m.moved = {Waiter} /\ m.pi = [owner |-> Waiter, queue |-> {}]
            /\ Cardinality(m.moved) = 1
        BY <4>1, RequeueToOwner
      <4> QED
        BY <2>1, <2>3, <3>2, <4>2 DEF FutexInv
    <3>3. CASE denied /\ wpc # "on_f1"
      <4>1. /\ m.moved = {} /\ m.pi = [f2 EXCEPT !.queue = @ \cup {}]
            /\ Cardinality(m.moved) = 0
        BY <2>2, <3>3, RequeueOne
      <4>2. [f2 EXCEPT !.queue = @ \cup {}] = f2
        BY DEF SignalTypeOK
      <4> QED
        BY <2>1, <2>3, <3>3, <4>1, <4>2 DEF FutexInv
    <3> QED
      BY <3>1, <3>2, <3>3
  <2>5. f2' \in [owner : {Main, Waiter, Nobody}, queue : SUBSET {Main, Waiter}]
    BY <2>3, <2>4 DEF FutexInv, PI_INITIALIZER, SignalTypeOK
  <2> QED
    BY <2>3, <2>4, <2>5
    DEF SignalTypeOK, TestTypeOK, ThreadInv, LoopInv, OutputInv,
        PassMeansInterrupted, Interrupted, MainPC, WaiterPC, io
<1>9. CASE requeue_fail
  BY <1>9
  DEF requeue_fail, SignalTypeOK, TestTypeOK, FutexInv, ThreadInv, LoopInv, OutputInv,
      PassMeansInterrupted, Interrupted, MainPC, io
<1>10. CASE decide
  BY <1>10
  DEF decide, SignalTypeOK, TestTypeOK, FutexInv, ThreadInv, LoopInv, OutputInv,
      PassMeansInterrupted, Interrupted, MainPC, io
<1>11. CASE join
  BY <1>11
  DEF join, SignalTypeOK, TestTypeOK, FutexInv, ThreadInv, LoopInv, OutputInv,
      PassMeansInterrupted, Interrupted, MainPC, io
<1>12. CASE unlock
  <2>1. wpc = "exited" /\ (f2 = PI_INITIALIZER \/ f2 = [owner |-> Main, queue |-> {}])
    BY <1>12 DEF unlock, FutexInv, ThreadInv
  <2>3. f2' = PI_INITIALIZER
    BY <1>12, <2>1 DEF unlock, futex_unlock_pi, PI_INITIALIZER, Main, Nobody
  <2> QED
    BY <1>12, <2>1, <2>3
    DEF unlock, SignalTypeOK, TestTypeOK, FutexInv, ThreadInv, LoopInv, OutputInv,
        PassMeansInterrupted, Interrupted, MainPC, PI_INITIALIZER, io
<1>13. CASE out
  BY <1>13
  DEF out, SignalTypeOK, TestTypeOK, FutexInv, ThreadInv, LoopInv, OutputInv,
      PassMeansInterrupted, Interrupted, MainPC, RET_PASS, RET_ERROR, RET_FAIL, io
<1>14. CASE print
  <2>1. printed' = <<print_result(ret)>>
        /\ <<print_result(ret)>> \in Seq({"PASS", "ERROR", "FAIL"})
        /\ (<<print_result(ret)>> = <<"PASS">> => ret = RET_PASS)
    BY <1>14, ResultNames DEF print, Report, OutputInv, SignalTypeOK
  <2>2. SignalTypeOK' /\ FutexInv' /\ ThreadInv' /\ LoopInv' /\ OutputInv'
    BY <1>14, <2>1
    DEF print, Report, SignalTypeOK, TestTypeOK, FutexInv, ThreadInv, LoopInv, OutputInv,
        Interrupted, MainPC
  <2>3. ret = RET_PASS => ~ denied /\ f2 = PI_INITIALIZER /\ Interrupted /\ waiter_ret = RET_PASS
    BY <1>14 DEF print, FutexInv, ThreadInv, LoopInv, Interrupted, RET_PASS, RET_FAIL
  <2>4. PassMeansInterrupted'
    BY <1>14, <2>1, <2>3 DEF print, Report, PassMeansInterrupted, Interrupted
  <2> QED
    BY <2>2, <2>4
<1>15. CASE return
  BY <1>15
  DEF return, Exit, SignalTypeOK, TestTypeOK, FutexInv, ThreadInv, LoopInv, OutputInv,
      PassMeansInterrupted, Interrupted, MainPC
<1> QED
  BY <1>1, <1>2, <1>3, <1>4, <1>5, <1>6, <1>7, <1>8, <1>9, <1>10, <1>11, <1>12, <1>13,
     <1>14, <1>15 DEF MainStep

(* The inductive invariant holds in every reachable state.                 *)
THEOREM SignalInvariant == Spec => []SignalInv
<1>1. SignalInv /\ UNCHANGED vars => SignalInv'
  BY DEF vars, mainVars, io, SignalInv, SignalTypeOK, TestTypeOK, FutexInv, ThreadInv,
         LoopInv, OutputInv, PassMeansInterrupted, Interrupted
<1>2. SignalInv /\ [Next]_vars => SignalInv'
  BY <1>1, SignalWaiter, SignalMain DEF Next, Finished
<1> QED
  BY <1>2, SignalInit, PTL DEF Spec

(* SignalTypeOK is an invariant.                                           *)
THEOREM SignalTypeCorrect == Spec => []SignalTypeOK
<1>1. SignalInv => SignalTypeOK
  BY DEF SignalInv
<1> QED
  BY <1>1, SignalInvariant, PTL

(* UnlockAfterDetection: whatever order signals, restarts and requeues     *)
(* come in, main() is at its join at the latest until the waiter has left  *)
(* the kernel, and the waiter gets f2 only if main()'s futex_lock_pi had   *)
(* failed; otherwise only a signal ends the waiter's wait.                 *)
THEOREM UnlockOnlyAfterDetection == Spec => []UnlockAfterDetection
<1>1. SignalInv => UnlockAfterDetection
  <2> SUFFICES ASSUME SignalInv PROVE UnlockAfterDetection
    OBVIOUS
  <2>1. f2.owner = Waiter => denied
    BY DEF SignalInv, SignalTypeOK, MainPC, FutexInv, PI_INITIALIZER, Main, Waiter, Nobody
  <2>2. wpc \in {"on_f1", "on_f2"} =>
          mpc \in {"lock", "locking", "kill", "usleep", "requeue", "decide", "kill_after",
                   "join"}
    BY DEF SignalInv, SignalTypeOK, MainPC, ThreadInv
  <2> QED
    BY <2>1, <2>2 DEF UnlockAfterDetection
<1> QED
  BY <1>1, SignalInvariant, PTL

(* PassMeansInterrupted: a PASS on stdout stands for a main() that had f2  *)
(* and a waiter that was requeued, came back with EWOULDBLOCK and left     *)
(* nothing on f2.                                                          *)
THEOREM PassIsAnInterruption == Spec => []PassMeansInterrupted
<1>1. SignalInv => PassMeansInterrupted
  BY DEF SignalInv
<1> QED
  BY <1>1, SignalInvariant, PTL

(* ImplementsTestProtocol: every step of the program is one that           *)
(* TestProtocol allows a functional test, or leaves its output alone; the  *)
(* exit(1) without a result is left to a failing sigaction().              *)
THEOREM SignalFollowsProtocol == Spec => ImplementsTestProtocol
<1>1. Init => Protocol!Init
  BY PlainStartsClean DEF Init
<1>2. SignalInv /\ [Next]_vars => [Protocol!Next]_<<printed, status, begun>>
  <2> SUFFICES ASSUME SignalInv, [Next]_vars
               PROVE  Protocol!Next \/ UNCHANGED <<printed, status, begun>>
    OBVIOUS
  <2>1. ret \in {RET_PASS, RET_ERROR, RET_FAIL}
    BY DEF SignalInv, SignalTypeOK
  <2>2. CASE print
    BY <2>1, <2>2, ProtocolReport DEF print, Report, SignalInv, OutputInv
  <2>3. CASE return
    BY <2>1, <2>3, ProtocolReturn DEF return, Exit, SignalInv, OutputInv
  <2>4. CASE sigaction \/ sigaction_fail
    BY <2>4, ProtocolBegin, ProtocolAbandon DEF sigaction, sigaction_fail, SignalInv, OutputInv
  <2>5. CASE [Next]_vars /\ ~ print /\ ~ return /\ ~ sigaction /\ ~ sigaction_fail
    BY <2>5
    DEF Next, Finished, vars, WaiterStep, MainStep, waiter_start, waiter_call, waiter_fail,
        waiter_restart, waiter_return, handle_signal, waiter_check, waiter_unlock, create,
        create_fail, lock, locked, kill, delay, requeue, requeue_fail, decide, kill_after,
        join, unlock, out, Say, io
  <2> QED
    BY <2>2, <2>3, <2>4, <2>5
<1> QED
  BY <1>1, <1>2, SignalInvariant, PTL DEF Spec, ImplementsTestProtocol, Protocol!Spec

=============================================================================

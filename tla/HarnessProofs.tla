--------------------------- MODULE HarnessProofs ----------------------------
(***************************************************************************)
(* Proofs about locktest() and its barriers (performance/harness.h), for   *)
(* any number of threads that fits an int and any width of the futex word. *)
(***************************************************************************)
EXTENDS Harness, FiniteSetTheorems, TLAPS

(* What the main thread's position says about the words it writes.         *)
MainInv ==
  /\ mpc = "create" => ~ aborted /\ i < N
  /\ mat = "after" => mpc # "create"
  /\ aborted => /\ mat = "before"
                /\ mpc \in {"unblock_store", "unblock_wake", "join", "returned"}
  /\ mpc \in {"join", "returned"} => aborted \/ mat = "after"
  /\ mpc = "wait_call" => seen # 0
  /\ barrier["before"].unblock =
       IF mat = "after" \/ mpc \in {"unblock_wake", "join", "returned"}
       THEN IF aborted THEN Word - 1 ELSE 1
       ELSE 0
  /\ barrier["after"].unblock =
       IF mat = "after" /\ mpc \in {"unblock_wake", "join", "returned"} THEN 1 ELSE 0

(* Where the workers can be, given those words.                            *)
WorkerInv ==
  \A w \in Workers :
    /\ wpc[w] \in {"none", "body"} => wat[w] = "before"
    /\ wat[w] = "after" \/ wpc[w] = "body" => barrier["before"].unblock = 1
    /\ wpc[w] \in {"return", "exited"} => barrier[wat[w]].unblock # 0
    /\ wpc[w] = "exited" /\ wat[w] = "before" => aborted

(* Which workers exist, and which the main thread has joined.              *)
CreateInv ==
  /\ mpc = "create" \/ (aborted /\ mpc \in {"unblock_store", "unblock_wake"}) =>
       \A w \in Workers : wpc[w] = "none" <=> w >= i
  /\ ~ aborted /\ mpc # "create" => \A w \in Workers : wpc[w] # "none"
  /\ mpc = "join" /\ aborted =>
       \A w \in Workers : w >= i => wpc[w] \in {"none", "exited"}
  /\ mpc = "join" /\ ~ aborted =>
       i < N /\ \A w \in Workers : w < i => wpc[w] = "exited"
  /\ NoUseAfterReturn

(* The main thread has left barrier_wait on barrier b.                     *)
HasMet(b) ==
  /\ ~ aborted
  /\ \/ mat = b /\ mpc \in {"times", "unblock_store", "unblock_wake", "join", "returned"}
     \/ b = "before" /\ mat = "after"

MetInv == \A b \in Barriers : HasMet(b) => barrier[b].threads = 0

(* The inductive invariant.                                                *)
HarnessInv ==
  /\ HarnessTypeOK
  /\ CounterExact
  /\ MainInv
  /\ WorkerInv
  /\ CreateInv
  /\ MetInv
  /\ NoSleeperForgotten

-----------------------------------------------------------------------------
(* The conversions between int and futex_t, on the values the harness      *)
(* passes through them.                                                    *)
LEMMA WordFacts ==
  /\ N \in Nat /\ N >= 1 /\ N <= INT_MAX /\ INT_MAX \in Nat /\ INT_MAX >= 1
  /\ INT_MAX < Word - 1
  /\ ToU32(1) = 1 /\ ToU32(-1) = Word - 1
  /\ ToInt(1) = 1 /\ ToInt(Word - 1) = -1
  /\ \A n \in 0 .. N : ToInt(n) = n
<1>1. INT_MAX \in Nat /\ INT_MAX >= 1 /\ INT_MAX < Word - 1 /\ Word \in Nat
  BY WordAssumption DEF INT_MAX
<1>2. N \in Nat /\ N >= 1 /\ N <= INT_MAX
  BY <1>1, NAssumption
<1> QED
  BY <1>1, <1>2 DEF ToInt, ToU32

(* There are N workers.                                                    *)
LEMMA WorkersFinite == IsFiniteSet(Workers) /\ Cardinality(Workers) = N
<1>1. N \in Nat /\ N >= 1
  BY WordFacts
<1> QED
  BY <1>1, FS_Interval DEF Workers

(* The counter of a barrier is 0 exactly when every worker has arrived.    *)
LEMMA Counting ==
  ASSUME HarnessTypeOK, CounterExact, NEW b \in Barriers
  PROVE  /\ IsFiniteSet(Arrived(b)) /\ Cardinality(Arrived(b)) \in 0 .. N
         /\ barrier[b].threads \in 0 .. N
         /\ barrier[b].threads = 0 <=> Arrived(b) = Workers
<1>1. N \in Nat /\ N >= 1
  BY WordFacts
<1>2. IsFiniteSet(Workers) /\ Cardinality(Workers) = N
  BY WorkersFinite
<1>3. Arrived(b) \in SUBSET Workers
  BY DEF Arrived
<1>4. /\ IsFiniteSet(Arrived(b)) /\ Cardinality(Arrived(b)) <= N
      /\ Cardinality(Arrived(b)) = N => Arrived(b) = Workers
  BY <1>2, <1>3, FS_Subset
<1>5. Cardinality(Arrived(b)) \in Nat
  BY <1>4, FS_CardinalityType
<1>6. barrier[b].threads + Cardinality(Arrived(b)) = N
  BY DEF CounterExact
<1>7. barrier[b].threads \in Int
  BY WordAssumption DEF HarnessTypeOK, futex_t
<1> QED
  BY <1>1, <1>2, <1>4, <1>5, <1>6, <1>7

(* FUTEX_WAKE with INT_MAX wakes every blocked worker.                     *)
LEMMA WakeAll ==
  ASSUME NEW B \in SUBSET Workers, NEW S \in futex_wake(B, INT_MAX)
  PROVE  S = B
<1>1. IsFiniteSet(Workers) /\ Cardinality(Workers) = N
  BY WorkersFinite
<1>2. IsFiniteSet(B) /\ Cardinality(B) <= N /\ Cardinality(B) \in Nat
  BY <1>1, FS_Subset, FS_CardinalityType
<1>3. S \in SUBSET B
  BY DEF futex_wake
<1>4. /\ Cardinality(S) <= Cardinality(B) /\ Cardinality(S) \in Nat
      /\ Cardinality(B) = Cardinality(S) => B = S
  BY <1>2, <1>3, FS_Subset, FS_CardinalityType
<1> QED
  BY <1>2, <1>3, <1>4, WordFacts DEF futex_wake

-----------------------------------------------------------------------------
(* The barriers, the program counters and the locals keep their types.     *)
THEOREM HarnessTypeCorrect == HarnessSpec => []HarnessTypeOK
<1> USE WordFacts, WordAssumption
<1>1. HarnessInit => HarnessTypeOK
  <2> SUFFICES ASSUME HarnessInit PROVE HarnessTypeOK
    OBVIOUS
  <2>1. 0 \in futex_t /\ N \in futex_t /\ 0 \in 0 .. N
    BY DEF futex_t
  <2>2. barrier \in [Barriers -> [threads : futex_t, unblock : futex_t]]
    BY <2>1 DEF HarnessInit, barrier_init
  <2> QED
    BY <2>1, <2>2
       DEF HarnessInit, HarnessTypeOK, WorkerPC, MainPC, Barriers
<1>2. HarnessTypeOK /\ [HarnessNext]_harnessVars => HarnessTypeOK'
  <2> SUFFICES ASSUME HarnessTypeOK, [HarnessNext]_harnessVars
               PROVE  HarnessTypeOK'
    OBVIOUS
  <2> USE DEF HarnessTypeOK, futex_t, WorkerPC, MainPC, Barriers, WGoto, mainVars
  <2>1. ASSUME NEW w \in Workers, sync_dec(w) PROVE HarnessTypeOK'
    <3>1. futex_dec(barrier[wat[w]].threads) \in futex_t
      BY DEF futex_dec
    <3> QED
      BY <2>1, <3>1 DEF sync_dec
  <2>2. ASSUME NEW w \in Workers,
               sync_check(w) \/ sync_wake(w) \/ sync_poll(w) \/ sync_wait(w)
        PROVE HarnessTypeOK'
    BY <2>2 DEF sync_check, sync_wake, sync_poll, sync_wait
  <2>3. ASSUME NEW w \in Workers,
               sync_return(w) \/ body_return(w) \/ spurious_worker(w)
        PROVE HarnessTypeOK'
    BY <2>3 DEF sync_return, body_return, spurious_worker
  <2>4. CASE create_ok \/ create_fail
    BY <2>4 DEF create_ok, create_fail
  <2>5. CASE wait_read \/ wait_call \/ take_time \/ spurious_main
    BY <2>5 DEF wait_read, wait_call, take_time, spurious_main
  <2>6. CASE unblock_store
    <3>1. ToU32(IF aborted THEN -1 ELSE 1) \in futex_t
      OBVIOUS
    <3> QED
      BY <2>6, <3>1 DEF unblock_store
  <2>7. CASE unblock_wake
    BY <2>7 DEF unblock_wake, AfterUnblock
  <2>8. CASE join
    BY <2>8 DEF join
  <2>9. CASE HarnessDone \/ UNCHANGED harnessVars
    BY <2>9 DEF HarnessDone, harnessVars
  <2> QED
    BY <2>1, <2>2, <2>3, <2>4, <2>5, <2>6, <2>7, <2>8, <2>9
       DEF HarnessNext, SyncStep, MainStep, SpuriousStep
<1> QED
  BY <1>1, <1>2, PTL DEF HarnessSpec

-----------------------------------------------------------------------------
(* A step in which nobody counts itself down leaves the counters exact.    *)
LEMMA CounterKept ==
  ASSUME CounterExact,
         \A b \in Barriers : /\ Arrived(b)' = Arrived(b)
                             /\ barrier'[b].threads = barrier[b].threads
  PROVE  CounterExact'
BY DEF CounterExact

(* The step of sync_dec: the counter of the worker's barrier was positive  *)
(* and goes down by one as the worker arrives; the other one is untouched. *)
LEMMA DecStep ==
  ASSUME HarnessInv, NEW w \in Workers, sync_dec(w)
  PROVE  /\ CounterExact'
         /\ barrier[wat[w]].threads # 0
         /\ \A b \in Barriers : barrier'[b].unblock = barrier[b].unblock
         /\ \A b \in Barriers \ {wat[w]} : barrier'[b].threads = barrier[b].threads
<1>0. HarnessTypeOK /\ CounterExact
  BY DEF HarnessInv
<1>1. PICK b \in Barriers : wat[w] = b /\ wpc[w] = "dec"
  BY <1>0 DEF HarnessTypeOK, sync_dec
<1>2. w \notin Arrived(b)
  BY <1>0, <1>1 DEF Arrived, HarnessTypeOK, Barriers
<1>3. /\ IsFiniteSet(Arrived(b)) /\ Cardinality(Arrived(b)) \in 0 .. N
      /\ barrier[b].threads \in 0 .. N /\ barrier[b].threads # 0
  BY <1>0, <1>1, <1>2, Counting
<1>4. /\ barrier'[b].threads = barrier[b].threads - 1
      /\ barrier'[b].unblock = barrier[b].unblock
      /\ \A c \in Barriers \ {b} : barrier'[c] = barrier[c]
  BY <1>0, <1>1, <1>3 DEF sync_dec, futex_dec, HarnessTypeOK
<1>5. Arrived(b)' = Arrived(b) \cup {w}
  BY <1>0, <1>1 DEF sync_dec, WGoto, Arrived, HarnessTypeOK, Barriers
<1>6. Cardinality(Arrived(b)') = Cardinality(Arrived(b)) + 1
  BY <1>2, <1>3, <1>5, FS_AddElement
<1>7. \A c \in Barriers \ {b} : Arrived(c)' = Arrived(c)
  BY <1>0, <1>1 DEF sync_dec, WGoto, Arrived, HarnessTypeOK, Barriers
<1>8. CounterExact'
  <2> SUFFICES ASSUME NEW c \in Barriers
               PROVE  barrier'[c].threads + Cardinality(Arrived(c)') = N
    BY DEF CounterExact
  <2>1. CASE c = b
    <3>1. barrier[b].threads + Cardinality(Arrived(b)) = N
      BY <1>0, <1>1 DEF CounterExact
    <3>2. N \in Nat
      BY WordFacts
    <3> QED
      BY <1>3, <1>4, <1>6, <2>1, <3>1, <3>2
  <2>2. CASE c # b
    BY <1>0, <1>4, <1>7, <2>2 DEF CounterExact
  <2> QED
    BY <2>1, <2>2
<1> QED
  BY <1>1, <1>3, <1>4, <1>8

(* sync_dec preserves the invariant.                                       *)
LEMMA InvDec ==
  ASSUME HarnessInv, HarnessTypeOK', NEW w \in Workers, sync_dec(w)
  PROVE  HarnessInv'
<1>0. HarnessTypeOK
  BY DEF HarnessInv
<1>1. /\ CounterExact'
      /\ barrier[wat[w]].threads # 0
      /\ \A b \in Barriers : barrier'[b].unblock = barrier[b].unblock
      /\ \A b \in Barriers \ {wat[w]} : barrier'[b].threads = barrier[b].threads
  BY DecStep
<1>2. /\ wpc[w] = "dec" /\ wpc' = [wpc EXCEPT ![w] = "check"]
      /\ UNCHANGED <<wat, mpc, mat, seen, i, ret>>
  BY DEF sync_dec, WGoto, mainVars
<1>3. MainInv'
  BY <1>1, <1>2 DEF HarnessInv, MainInv, aborted, Barriers
<1>4. WorkerInv'
  BY <1>0, <1>1, <1>2 DEF HarnessInv, WorkerInv, aborted, Barriers, HarnessTypeOK
<1>5. CreateInv'
  BY <1>0, <1>2 DEF HarnessInv, CreateInv, NoUseAfterReturn, Returned, aborted,
     HarnessTypeOK
<1>6. MetInv'
  BY <1>1, <1>2 DEF HarnessInv, MetInv, HasMet, aborted
<1>7. NoSleeperForgotten'
  <2>1. ASSUME mpc' = "wait_blocked"
        PROVE  \/ Arrived(mat)' # Workers
               \/ \E u \in Workers : wat'[u] = mat' /\ wpc'[u] \in {"check", "wake"}
    <3>1. CASE wat[w] = mat
      BY <1>0, <1>2, <3>1 DEF HarnessTypeOK
    <3>2. CASE wat[w] # mat
      <4>1. Arrived(mat)' = Arrived(mat)
        BY <1>0, <1>2, <3>2 DEF Arrived, HarnessTypeOK, Barriers
      <4> QED
        BY <1>0, <1>2, <2>1, <3>2, <4>1
           DEF HarnessInv, NoSleeperForgotten, HarnessTypeOK
    <3> QED
      BY <3>1, <3>2
  <2>2. ASSUME NEW u \in Workers, wpc'[u] = "blocked"
        PROVE  \/ barrier'[wat'[u]].unblock = 0
               \/ mpc' = "unblock_wake" /\ mat' = wat'[u]
    BY <1>0, <1>1, <1>2, <2>2 DEF HarnessInv, NoSleeperForgotten, HarnessTypeOK
  <2> QED
    BY <2>1, <2>2 DEF NoSleeperForgotten
<1> QED
  BY <1>1, <1>3, <1>4, <1>5, <1>6, <1>7 DEF HarnessInv

(* The other steps of a worker, and the return of its wait, preserve it.   *)
LEMMA InvWorker ==
  ASSUME HarnessInv, HarnessTypeOK', NEW w \in Workers,
         \/ sync_check(w) \/ sync_wake(w) \/ sync_poll(w) \/ sync_wait(w)
         \/ sync_return(w) \/ body_return(w) \/ spurious_worker(w)
  PROVE  HarnessInv'
<1>0. HarnessTypeOK /\ CounterExact
  BY DEF HarnessInv
<1> USE DEF WGoto, mainVars, aborted
<1>1. /\ UNCHANGED <<barrier, mat, seen, i, ret>>
      /\ mpc' = mpc \/ (mpc' = "wait_read" /\ mpc = "wait_blocked")
      /\ \A u \in Workers \ {w} : wpc'[u] = wpc[u] /\ wat'[u] = wat[u]
      /\ wpc[w] \notin {"none", "exited"} /\ wpc'[w] # "none"
  BY <1>0 DEF sync_check, sync_wake, sync_poll, sync_wait, sync_return,
     body_return, spurious_worker, HarnessTypeOK
<1>2. \A b \in Barriers : Arrived(b)' = Arrived(b)
  BY <1>0 DEF sync_check, sync_wake, sync_poll, sync_wait, sync_return,
     body_return, spurious_worker, HarnessTypeOK, Arrived, Barriers, HarnessInv,
     WorkerInv
<1>3. CounterExact'
  BY <1>0, <1>1, <1>2, CounterKept
<1>4. MainInv'
  BY <1>1 DEF HarnessInv, MainInv
<1>5. WorkerInv'
  BY <1>0, <1>1, WordFacts DEF HarnessInv, WorkerInv, MainInv, sync_check,
     sync_wake, sync_poll, sync_wait, sync_return, body_return,
     spurious_worker, HarnessTypeOK, Barriers, futex_wait_blocks
<1>6. CreateInv'
  BY <1>0, <1>1 DEF HarnessInv, CreateInv, NoUseAfterReturn, Returned,
     HarnessTypeOK
<1>7. MetInv'
  BY <1>1 DEF HarnessInv, MetInv, HasMet
<1>8. NoSleeperForgotten'
  BY <1>0, <1>1, <1>2, Counting DEF HarnessInv, NoSleeperForgotten, sync_check,
     sync_wake, sync_poll, sync_wait, sync_return, body_return,
     spurious_worker, HarnessTypeOK, Barriers, futex_wait_blocks, WorkerInv,
     MainInv
<1> QED
  BY <1>3, <1>4, <1>5, <1>6, <1>7, <1>8 DEF HarnessInv

(* The creation of the next worker, or its failure, preserves it.          *)
LEMMA InvCreate ==
  ASSUME HarnessInv, HarnessTypeOK', create_ok \/ create_fail
  PROVE  HarnessInv'
<1>0. HarnessTypeOK /\ CounterExact /\ mpc = "create" /\ i \in Workers
  BY WordFacts DEF HarnessInv, create_ok, create_fail, HarnessTypeOK, Workers
<1> USE DEF WGoto, aborted, RET_ERROR, RET_PASS
<1>1. wpc[i] = "none" /\ wat[i] = "before"
  BY <1>0 DEF HarnessInv, CreateInv, WorkerInv, Workers, HarnessTypeOK
<1>2. \A b \in Barriers : Arrived(b)' = Arrived(b)
  BY <1>0, <1>1 DEF create_ok, create_fail, HarnessTypeOK, Arrived, Barriers
<1>3. CounterExact'
  BY <1>0, <1>2, CounterKept DEF create_ok, create_fail
<1>4. MainInv'
  <2>1. /\ mat = "before" /\ ret = RET_PASS /\ i < N
        /\ barrier["before"].unblock = 0 /\ barrier["after"].unblock = 0
    BY <1>0 DEF HarnessInv, MainInv, HarnessTypeOK, Barriers
  <2>2. CASE create_ok
    <3>1. /\ UNCHANGED <<barrier, mat, ret>>
          /\ mpc' = "wait_read" \/ (mpc' = "create" /\ i' # N)
      BY <2>2 DEF create_ok
    <3>2. i' \in 0 .. N /\ N \in Nat
      BY WordFacts DEF HarnessTypeOK
    <3>3. mpc' = "create" => i' < N
      BY <3>1, <3>2
    <3> QED
      BY <2>1, <3>1, <3>3 DEF MainInv
  <2>3. CASE create_fail
    BY <2>1, <2>3 DEF MainInv, create_fail
  <2> QED
    BY <2>2, <2>3
<1>5. WorkerInv'
  BY <1>0, <1>1 DEF HarnessInv, WorkerInv, MainInv, create_ok, create_fail,
     HarnessTypeOK
<1>6. CreateInv'
  BY <1>0, <1>1, WordFacts DEF HarnessInv, CreateInv, MainInv, NoUseAfterReturn,
     Returned, create_ok, create_fail, HarnessTypeOK, Workers
<1>7. MetInv'
  BY <1>0 DEF HarnessInv, MetInv, HasMet, MainInv, create_ok, create_fail
<1>8. NoSleeperForgotten'
  BY <1>0, <1>1 DEF HarnessInv, NoSleeperForgotten, create_ok, create_fail,
     HarnessTypeOK
<1> QED
  BY <1>3, <1>4, <1>5, <1>6, <1>7, <1>8 DEF HarnessInv

(* barrier_wait and the reading of the clock preserve it.                  *)
LEMMA InvWait ==
  ASSUME HarnessInv, HarnessTypeOK',
         wait_read \/ wait_call \/ take_time \/ spurious_main
  PROVE  HarnessInv'
<1> USE DEF aborted, RET_ERROR, RET_PASS
<1>0. HarnessTypeOK /\ CounterExact
  BY DEF HarnessInv
<1>1. /\ UNCHANGED <<barrier, wpc, wat, mat, i, ret>>
      /\ mpc \in {"wait_read", "wait_call", "wait_blocked", "times"}
      /\ mpc' \in {"wait_read", "wait_call", "wait_blocked", "times", "unblock_store"}
      /\ mpc' = "unblock_store" => mpc = "times"
      /\ mpc' = "wait_call" => mpc = "wait_read" /\ seen' = barrier[mat].threads
                                /\ ToInt(seen') > 0
      /\ mpc' = "times" => mpc = "wait_read" /\ ~ (ToInt(barrier[mat].threads) > 0)
      /\ mpc' = "wait_blocked" => mpc = "wait_call" /\ barrier[mat].threads = seen
  BY <1>0 DEF wait_read, wait_call, take_time, spurious_main, futex_wait_blocks,
     HarnessTypeOK
<1>2. \A b \in Barriers : Arrived(b)' = Arrived(b)
  BY <1>1 DEF Arrived
<1>3. CounterExact'
  BY <1>0, <1>1, <1>2, CounterKept
<1>4. mat \in Barriers /\ barrier[mat].threads \in 0 .. N
  BY <1>0, Counting DEF HarnessTypeOK
<1>5. MainInv'
  BY <1>1, <1>4, WordFacts DEF HarnessInv, MainInv
<1>6. WorkerInv'
  BY <1>1 DEF HarnessInv, WorkerInv
<1>7. CreateInv'
  BY <1>1 DEF HarnessInv, CreateInv, MainInv, NoUseAfterReturn, Returned
<1>8. MetInv'
  BY <1>0, <1>1, <1>4, WordFacts DEF HarnessInv, MetInv, HasMet, MainInv, Barriers
<1>9. NoSleeperForgotten'
  <2>1. mpc' = "wait_blocked" => Arrived(mat)' # Workers
    BY <1>0, <1>1, <1>2, <1>4, Counting DEF HarnessInv, MainInv
  <2> QED
    BY <1>1, <2>1 DEF HarnessInv, NoSleeperForgotten
<1> QED
  BY <1>3, <1>5, <1>6, <1>7, <1>8, <1>9 DEF HarnessInv

(* The store of barrier_unblock preserves it.                              *)
LEMMA InvStore ==
  ASSUME HarnessInv, HarnessTypeOK', unblock_store
  PROVE  HarnessInv'
<1> USE DEF aborted, RET_ERROR, RET_PASS
<1>0. HarnessTypeOK /\ CounterExact
  BY DEF HarnessInv
<1>1. /\ UNCHANGED <<wpc, wat, mat, seen, i, ret>>
      /\ mpc = "unblock_store" /\ mpc' = "unblock_wake"
      /\ \A b \in Barriers : barrier'[b].threads = barrier[b].threads
      /\ \A b \in Barriers \ {mat} : barrier'[b].unblock = barrier[b].unblock
      /\ barrier'[mat].unblock = IF aborted THEN Word - 1 ELSE 1
  BY <1>0, WordFacts DEF unblock_store, HarnessTypeOK
<1>2. \A b \in Barriers : Arrived(b)' = Arrived(b)
  BY <1>1 DEF Arrived
<1>3. CounterExact'
  BY <1>0, <1>1, <1>2, CounterKept
<1>4. MainInv'
  BY <1>0, <1>1 DEF HarnessInv, MainInv, HarnessTypeOK, Barriers
<1>5. WorkerInv'
  BY <1>0, <1>1, WordAssumption DEF HarnessInv, WorkerInv, MainInv,
     HarnessTypeOK, Barriers
<1>6. CreateInv'
  BY <1>1 DEF HarnessInv, CreateInv, NoUseAfterReturn, Returned
<1>7. MetInv'
  BY <1>1 DEF HarnessInv, MetInv, HasMet
<1>8. NoSleeperForgotten'
  BY <1>0, <1>1 DEF HarnessInv, NoSleeperForgotten, HarnessTypeOK
<1> QED
  BY <1>3, <1>4, <1>5, <1>6, <1>7, <1>8 DEF HarnessInv

(* The wake-up of barrier_unblock preserves it.                            *)
LEMMA InvWake ==
  ASSUME HarnessInv, HarnessTypeOK', unblock_wake
  PROVE  HarnessInv'
<1> USE DEF aborted, RET_ERROR, RET_PASS
<1>0. HarnessTypeOK /\ CounterExact
  BY DEF HarnessInv
<1>1. wpc' = [w \in Workers |-> IF wpc[w] = "blocked" /\ wat[w] = mat
                                THEN "poll" ELSE wpc[w]]
  <2> DEFINE B == {w \in Workers : wpc[w] = "blocked" /\ wat[w] = mat}
  <2>1. PICK S \in futex_wake(B, INT_MAX) :
          wpc' = [w \in Workers |-> IF w \in S THEN "poll" ELSE wpc[w]]
    BY DEF unblock_wake, BlockedAt
  <2>2. S = B
    BY WakeAll
  <2> QED
    BY <2>1, <2>2
<1>2. /\ UNCHANGED <<barrier, wat, seen, ret>>
      /\ mpc = "unblock_wake"
      /\ \/ mat = "before" /\ ~ aborted /\ mat' = "after" /\ mpc' = "wait_read" /\ i' = i
         \/ mat = "before" /\ aborted /\ mat' = mat /\ mpc' = "join" /\ i' = i
         \/ mat = "after" /\ mat' = mat /\ mpc' = "join" /\ i' = 0
  BY DEF unblock_wake, AfterUnblock
<1>3. \A b \in Barriers : Arrived(b)' = Arrived(b)
  BY <1>0, <1>1, <1>2 DEF Arrived, HarnessTypeOK
<1>4. CounterExact'
  BY <1>0, <1>2, <1>3, CounterKept
<1>5. MainInv'
  BY <1>0, <1>2 DEF HarnessInv, MainInv, HarnessTypeOK, Barriers
<1>6. WorkerInv'
  BY <1>0, <1>1, <1>2 DEF HarnessInv, WorkerInv, HarnessTypeOK
<1>7. CreateInv'
  BY <1>0, <1>1, <1>2, WordFacts DEF HarnessInv, CreateInv, MainInv, NoUseAfterReturn,
     Returned, HarnessTypeOK, Workers
<1>8. MetInv'
  BY <1>2 DEF HarnessInv, MetInv, HasMet, Barriers
<1>9. NoSleeperForgotten'
  BY <1>0, <1>1, <1>2 DEF HarnessInv, NoSleeperForgotten, HarnessTypeOK
<1> QED
  BY <1>4, <1>5, <1>6, <1>7, <1>8, <1>9 DEF HarnessInv

(* pthread_join preserves it: on both paths it waits for every thread that *)
(* was created.                                                            *)
LEMMA InvJoin ==
  ASSUME HarnessInv, HarnessTypeOK', join
  PROVE  HarnessInv'
<1> USE DEF aborted, RET_ERROR, RET_PASS
<1>0. HarnessTypeOK /\ CounterExact
  BY DEF HarnessInv
<1>1. /\ UNCHANGED <<barrier, wpc, wat, mat, seen, ret>>
      /\ mpc = "join" /\ mpc' \in {"join", "returned"}
  BY DEF join
<1>2. \A b \in Barriers : Arrived(b)' = Arrived(b)
  BY <1>1 DEF Arrived
<1>3. CounterExact'
  BY <1>0, <1>1, <1>2, CounterKept
<1>4. MainInv'
  BY <1>1 DEF HarnessInv, MainInv
<1>5. WorkerInv'
  BY <1>1 DEF HarnessInv, WorkerInv
<1>6. CreateInv'
  BY <1>0, <1>1, WordFacts DEF HarnessInv, CreateInv, NoUseAfterReturn, Returned, join,
     HarnessTypeOK, Workers
<1>7. MetInv'
  BY <1>1 DEF HarnessInv, MetInv, HasMet
<1>8. NoSleeperForgotten'
  BY <1>1 DEF HarnessInv, NoSleeperForgotten
<1> QED
  BY <1>3, <1>4, <1>5, <1>6, <1>7, <1>8 DEF HarnessInv

-----------------------------------------------------------------------------
(* The inductive invariant holds in every reachable state.                 *)
THEOREM HarnessInvariance == HarnessSpec => []HarnessInv
<1>1. HarnessInit /\ HarnessTypeOK => HarnessInv
  <2> SUFFICES ASSUME HarnessInit, HarnessTypeOK PROVE HarnessInv
    OBVIOUS
  <2> USE DEF HarnessInit, aborted, RET_PASS, RET_ERROR
  <2>1. \A b \in Barriers : Arrived(b) = {}
    BY DEF Arrived
  <2>2. CounterExact
    BY <2>1, FS_EmptySet, WordFacts DEF CounterExact, barrier_init
  <2>3. MainInv
    BY WordFacts DEF MainInv, barrier_init, Barriers
  <2>4. WorkerInv /\ MetInv /\ NoSleeperForgotten
    BY DEF WorkerInv, MetInv, HasMet, NoSleeperForgotten
  <2>5. CreateInv
    BY WordFacts DEF CreateInv, NoUseAfterReturn, Returned, Workers
  <2> QED
    BY <2>2, <2>3, <2>4, <2>5 DEF HarnessInv
<1>2. HarnessInv /\ HarnessTypeOK' /\ [HarnessNext]_harnessVars => HarnessInv'
  <2> SUFFICES ASSUME HarnessInv, HarnessTypeOK', [HarnessNext]_harnessVars
               PROVE  HarnessInv'
    OBVIOUS
  <2>1. ASSUME NEW w \in Workers, SyncStep(w) \/ body_return(w) PROVE HarnessInv'
    BY <2>1, InvDec, InvWorker DEF SyncStep
  <2>2. CASE MainStep
    BY <2>2, InvCreate, InvWait, InvStore, InvWake, InvJoin DEF MainStep
  <2>3. CASE SpuriousStep
    BY <2>3, InvWorker, InvWait DEF SpuriousStep
  <2>4. CASE HarnessDone \/ UNCHANGED harnessVars
    <3>1. UNCHANGED <<barrier, wpc, wat, mpc, mat, seen, i, ret>>
      BY <2>4 DEF HarnessDone, harnessVars, mainVars
    <3> QED
      BY <3>1 DEF HarnessInv, CounterExact, MainInv, WorkerInv, CreateInv, MetInv,
         HasMet, NoSleeperForgotten, NoUseAfterReturn, Returned, Arrived, aborted
  <2> QED
    BY <2>1, <2>2, <2>3, <2>4 DEF HarnessNext
<1> QED
  BY <1>1, <1>2, HarnessTypeCorrect, PTL DEF HarnessSpec

(* The measured function runs only while the clock does.                   *)
LEMMA WindowIsMeasured == HarnessInv => MeasuredWindow
<1> SUFFICES ASSUME HarnessInv, NEW w \in Workers, wpc[w] = "body"
             PROVE  ClockRunning
  BY DEF MeasuredWindow
<1> USE DEF aborted, RET_PASS, RET_ERROR
<1>1. wat[w] = "before" /\ barrier["before"].unblock = 1
  BY DEF HarnessInv, WorkerInv
<1>2. ~ aborted /\ (mat = "after" \/ mpc = "unblock_wake")
  BY <1>1, WordFacts DEF HarnessInv, MainInv
<1>3. w \notin Arrived("after")
  BY <1>1 DEF Arrived
<1>4. barrier["after"].threads # 0
  BY <1>3, Counting DEF HarnessInv, Barriers
<1>5. ~ HasMet("after")
  BY <1>4 DEF HarnessInv, MetInv, Barriers
<1>6. mpc \in MainPC /\ mat \in Barriers /\ mpc # "create"
  BY <1>2 DEF HarnessInv, HarnessTypeOK, MainInv
<1> QED
  BY <1>2, <1>5, <1>6 DEF HasMet, ClockRunning, MainPC, Barriers

(* locktest times the measured function and nothing else: for any number   *)
(* of threads.                                                             *)
THEOREM HarnessCorrect == HarnessSpec => []MeasuredWindow
BY WindowIsMeasured, HarnessInvariance, PTL

(* locktest returns only when no worker uses its frame any more, on the    *)
(* path of a failing pthread_create too.                                   *)
THEOREM FrameOutlivesWorkers == HarnessSpec => []NoUseAfterReturn
<1>1. HarnessInv => NoUseAfterReturn
  BY DEF HarnessInv, CreateInv
<1> QED
  BY <1>1, HarnessInvariance, PTL

(* The counters of both barriers are exact, the correction of a failing    *)
(* pthread_create included, so no decrement of barrier_sync is lost.       *)
THEOREM CountersAreExact == HarnessSpec => []CounterExact
<1>1. HarnessInv => CounterExact
  BY DEF HarnessInv
<1> QED
  BY <1>1, HarnessInvariance, PTL

(* Whoever sleeps in barrier_sync or barrier_wait will be woken by a step  *)
(* that is still to come.                                                  *)
THEOREM SleepersAreWoken == HarnessSpec => []NoSleeperForgotten
<1>1. HarnessInv => NoSleeperForgotten
  BY DEF HarnessInv
<1> QED
  BY <1>1, HarnessInvariance, PTL

-----------------------------------------------------------------------------
(* A barrier as Rendezvous sees it: what one step may make of the workers  *)
(* that have arrived at b, of its gate and of the workers that have left.  *)
MeetingStep(b) ==
  \/ UNCHANGED <<Arrived(b), Gate(b), Gone(b)>>
  \/ \E w \in Workers : /\ w \notin Arrived(b) /\ Arrived(b)' = Arrived(b) \cup {w}
                        /\ Gate(b)' = Gate(b) /\ Gone(b)' = Gone(b)
  \/ \E w \in Workers : /\ Gate(b) \in {"open", "abandoned"}
                        /\ w \in Arrived(b) \ Gone(b) /\ Gone(b)' = Gone(b) \cup {w}
                        /\ Arrived(b)' = Arrived(b) /\ Gate(b)' = Gate(b)
  \/ /\ \/ Gate(b) = "closed" /\ Arrived(b) = Workers /\ Gate(b)' = "met"
        \/ Gate(b) = "met" /\ Gate(b)' = "open"
        \/ Gate(b) = "closed" /\ Gate(b)' = "abandoned"
     /\ Arrived(b)' = Arrived(b) /\ Gone(b)' = Gone(b)

(* The gate moves only with the unblock word, the end of barrier_wait and  *)
(* the error path.                                                         *)
LEMMA GateKept ==
  ASSUME NEW b \in Barriers, barrier'[b].unblock = barrier[b].unblock,
         ret' = ret, mat' = mat,
         mpc' \in {"times", "unblock_store"} <=> mpc \in {"times", "unblock_store"}
  PROVE  Gate(b)' = Gate(b)
<1>1. aborted' <=> aborted
  BY DEF aborted
<1>2. aborted' = aborted
  BY <1>1 DEF aborted
<1>3. (mpc \in {"times", "unblock_store"} /\ ~ aborted)'
        = (mpc \in {"times", "unblock_store"} /\ ~ aborted)
  BY <1>2
<1> QED
  BY <1>2, <1>3 DEF Gate

(* A worker arrives with its decrement of the counter, ...                 *)
LEMMA MeetingDec ==
  ASSUME HarnessInv, NEW b \in Barriers, NEW w \in Workers, sync_dec(w)
  PROVE  MeetingStep(b)
<1>0. HarnessTypeOK
  BY DEF HarnessInv
<1>1. /\ \A c \in Barriers : barrier'[c].unblock = barrier[c].unblock
      /\ wpc[w] = "dec" /\ wpc' = [wpc EXCEPT ![w] = "check"]
      /\ UNCHANGED <<wat, mpc, mat, seen, i, ret>>
  BY DecStep DEF sync_dec, WGoto, mainVars
<1>2. Gate(b)' = Gate(b)
  BY <1>1, GateKept
<1>3. Gone(b)' = Gone(b)
  BY <1>0, <1>1 DEF Gone, HarnessTypeOK
<1>4. CASE wat[w] = b
  <2>1. w \notin Arrived(b) /\ Arrived(b)' = Arrived(b) \cup {w}
    BY <1>0, <1>1, <1>4 DEF Arrived, HarnessTypeOK, Barriers
  <2> QED
    BY <1>2, <1>3, <2>1 DEF MeetingStep
<1>5. CASE wat[w] # b
  <2>1. Arrived(b)' = Arrived(b)
    BY <1>0, <1>1, <1>5 DEF Arrived, HarnessTypeOK, Barriers
  <2> QED
    BY <1>2, <1>3, <2>1 DEF MeetingStep
<1> QED
  BY <1>4, <1>5

(* ... and leaves when barrier_sync returns, which it does only after the  *)
(* store of barrier_unblock; ...                                           *)
LEMMA MeetingReturn ==
  ASSUME HarnessInv, NEW b \in Barriers, NEW w \in Workers, sync_return(w)
  PROVE  MeetingStep(b)
<1>0. HarnessTypeOK
  BY DEF HarnessInv
<1>1. /\ wpc[w] = "return" /\ wpc' = [wpc EXCEPT ![w] = wpc'[w]]
      /\ wpc'[w] \in {"body", "exited"}
      /\ UNCHANGED <<barrier, wat, mpc, mat, seen, i, ret>>
  BY <1>0 DEF sync_return, WGoto, mainVars, HarnessTypeOK
<1>2. Gate(b)' = Gate(b)
  BY <1>1, GateKept
<1>3. Arrived(b)' = Arrived(b)
  BY <1>0, <1>1 DEF Arrived, HarnessTypeOK
<1>4. CASE wat[w] = b
  <2>1. w \in Arrived(b) /\ w \notin Gone(b) /\ Gone(b)' = Gone(b) \cup {w}
    BY <1>0, <1>1, <1>4 DEF Arrived, Gone, HarnessTypeOK, Barriers
  <2>2. barrier[b].unblock # 0
    BY <1>1, <1>4 DEF HarnessInv, WorkerInv
  <2>3. Gate(b) \in {"open", "abandoned"}
    BY <2>2 DEF Gate
  <2> QED
    BY <1>2, <1>3, <2>1, <2>3 DEF MeetingStep
<1>5. CASE wat[w] # b
  <2>1. Gone(b)' = Gone(b)
    BY <1>0, <1>1, <1>5 DEF Gone, HarnessTypeOK, Barriers
  <2> QED
    BY <1>2, <1>3, <2>1 DEF MeetingStep
<1> QED
  BY <1>4, <1>5

(* ... its other steps are its own affair.                                 *)
LEMMA MeetingWorker ==
  ASSUME HarnessInv, NEW b \in Barriers, NEW w \in Workers,
         \/ sync_check(w) \/ sync_wake(w) \/ sync_poll(w) \/ sync_wait(w)
         \/ body_return(w) \/ spurious_worker(w)
  PROVE  MeetingStep(b)
<1>0. HarnessTypeOK
  BY DEF HarnessInv
<1> USE DEF WGoto, mainVars
<1>1. /\ UNCHANGED <<barrier, mat, ret>>
      /\ mpc' = mpc \/ (mpc' = "wait_read" /\ mpc = "wait_blocked")
  BY DEF sync_check, sync_wake, sync_poll, sync_wait, body_return, spurious_worker
<1>2. Gate(b)' = Gate(b)
  BY <1>1, GateKept
<1>3. Arrived(b)' = Arrived(b) /\ Gone(b)' = Gone(b)
  BY <1>0 DEF sync_check, sync_wake, sync_poll, sync_wait, body_return, spurious_worker,
     HarnessTypeOK, Arrived, Gone, Barriers, HarnessInv, WorkerInv
<1> QED
  BY <1>2, <1>3 DEF MeetingStep

(* The main thread meets the workers when barrier_wait reads 0, which only *)
(* the last of them can have made of the counter, ...                      *)
LEMMA MeetingWait ==
  ASSUME HarnessInv, NEW b \in Barriers, wait_read
  PROVE  MeetingStep(b)
<1>0. HarnessTypeOK /\ CounterExact
  BY DEF HarnessInv
<1>1. /\ UNCHANGED <<barrier, wpc, wat, mat, ret>> /\ mpc = "wait_read"
      /\ mpc' = IF ToInt(barrier[mat].threads) > 0 THEN "wait_call" ELSE "times"
  BY DEF wait_read
<1>2. Arrived(b)' = Arrived(b) /\ Gone(b)' = Gone(b)
  BY <1>1 DEF Arrived, Gone
<1>3. CASE mpc' = "times" /\ mat = b
  <2>1. barrier[b].threads \in 0 .. N /\ ~ (ToInt(barrier[b].threads) > 0)
    BY <1>0, <1>1, <1>3, Counting
  <2>2. barrier[b].threads = 0
    BY <2>1, WordFacts
  <2>3. Arrived(b) = Workers
    BY <1>0, <2>2, Counting
  <2>4. barrier[b].unblock = 0 /\ ~ aborted
    BY <1>1, <1>3 DEF HarnessInv, MainInv, Barriers
  <2>5. ~ aborted'
    BY <1>1, <2>4 DEF aborted
  <2>6. Gate(b) = "closed" /\ Gate(b)' = "met"
    BY <1>1, <1>3, <2>4, <2>5 DEF Gate
  <2> QED
    BY <1>2, <2>3, <2>6 DEF MeetingStep
<1>4. CASE mpc' = "times" /\ mat # b
  <2>1. Gate(b)' = Gate(b)
    BY <1>1, <1>4 DEF Gate, aborted
  <2> QED
    BY <1>2, <2>1 DEF MeetingStep
<1>5. CASE mpc' # "times"
  <2>1. Gate(b)' = Gate(b)
    BY <1>1, <1>5, GateKept
  <2> QED
    BY <1>2, <2>1 DEF MeetingStep
<1> QED
  BY <1>3, <1>4, <1>5

(* ... and opens the gate with the store of barrier_unblock, or gives up.  *)
LEMMA MeetingStore ==
  ASSUME HarnessInv, NEW b \in Barriers, unblock_store
  PROVE  MeetingStep(b)
<1>0. HarnessTypeOK
  BY DEF HarnessInv
<1>1. /\ UNCHANGED <<wpc, wat, mat, ret>> /\ mpc = "unblock_store" /\ mpc' = "unblock_wake"
      /\ \A c \in Barriers \ {mat} : barrier'[c].unblock = barrier[c].unblock
      /\ barrier'[mat].unblock = IF aborted THEN Word - 1 ELSE 1
  BY <1>0, WordFacts DEF unblock_store, HarnessTypeOK
<1>2. Arrived(b)' = Arrived(b) /\ Gone(b)' = Gone(b)
  BY <1>1 DEF Arrived, Gone
<1>3. CASE mat = b
  <2>1. barrier[b].unblock = 0 /\ barrier'[b].unblock # 0
    BY <1>1, <1>3, WordAssumption DEF HarnessInv, MainInv, Barriers
  <2>2. aborted => Gate(b) = "closed" /\ Gate(b)' = "abandoned"
    BY <1>1, <1>3, <2>1 DEF Gate, aborted
  <2>3. ~ aborted => Gate(b) = "met" /\ Gate(b)' = "open"
    BY <1>1, <1>3, <2>1 DEF Gate, aborted
  <2> QED
    BY <1>2, <2>2, <2>3 DEF MeetingStep
<1>4. CASE mat # b
  <2>1. Gate(b)' = Gate(b)
    BY <1>1, <1>4 DEF Gate, aborted
  <2> QED
    BY <1>2, <2>1 DEF MeetingStep
<1> QED
  BY <1>3, <1>4

(* Nothing else that the main thread does moves a gate.                    *)
LEMMA MeetingMain ==
  ASSUME HarnessInv, NEW b \in Barriers,
         \/ create_ok \/ create_fail \/ wait_call \/ take_time \/ unblock_wake
         \/ join \/ spurious_main
  PROVE  MeetingStep(b)
<1>0. HarnessTypeOK
  BY DEF HarnessInv
<1> USE DEF WGoto
<1>1. CASE create_ok \/ create_fail
  <2>1. /\ mpc = "create" /\ i \in Workers /\ wpc[i] = "none" /\ wat[i] = "before"
        /\ \A c \in Barriers : barrier[c].unblock = 0
        /\ mat = "before"
    BY <1>0, <1>1, WordFacts
    DEF create_ok, create_fail, HarnessInv, HarnessTypeOK, MainInv, CreateInv, WorkerInv,
        Workers, Barriers
  <2>2. Arrived(b)' = Arrived(b) /\ Gone(b)' = Gone(b)
    BY <1>0, <1>1, <2>1 DEF create_ok, create_fail, Arrived, Gone, HarnessTypeOK
  <2>3. CASE create_ok
    <3>1. Gate(b)' = Gate(b)
      BY <2>3, GateKept DEF create_ok
    <3> QED
      BY <2>2, <3>1 DEF MeetingStep
  <2>4. CASE create_fail
    <3>1. aborted' /\ UNCHANGED barrier
      BY <2>4 DEF create_fail, aborted
    <3>2. Gate(b) = "closed" /\ Gate(b)' = "closed"
      BY <2>1, <3>1 DEF Gate
    <3> QED
      BY <2>2, <3>2 DEF MeetingStep
  <2> QED
    BY <1>1, <2>3, <2>4
<1>2. CASE wait_call \/ take_time \/ join \/ spurious_main
  <2>1. /\ UNCHANGED <<barrier, wpc, wat, mat, ret>>
        /\ mpc' \in {"times", "unblock_store"} <=> mpc \in {"times", "unblock_store"}
    BY <1>2 DEF wait_call, take_time, join, spurious_main
  <2>2. Arrived(b)' = Arrived(b) /\ Gone(b)' = Gone(b)
    BY <2>1 DEF Arrived, Gone
  <2>3. Gate(b)' = Gate(b)
    BY <2>1, GateKept
  <2> QED
    BY <2>2, <2>3 DEF MeetingStep
<1>3. CASE unblock_wake
  <2>1. PICK S \in futex_wake(BlockedAt(mat), INT_MAX) :
          wpc' = [w \in Workers |-> IF w \in S THEN "poll" ELSE wpc[w]]
    BY <1>3 DEF unblock_wake
  <2>2. \A w \in S : wpc[w] = "blocked"
    BY DEF futex_wake, BlockedAt
  <2>3. /\ UNCHANGED <<barrier, wat, ret>> /\ mpc = "unblock_wake"
        /\ mpc' \in {"wait_read", "join"}
        /\ mat' = mat \/ (mat = "before" /\ mat' = "after")
    BY <1>3 DEF unblock_wake, AfterUnblock
  <2>4. Arrived(b)' = Arrived(b) /\ Gone(b)' = Gone(b)
    BY <1>0, <2>1, <2>2, <2>3 DEF Arrived, Gone, HarnessTypeOK
  <2>5. Gate(b)' = Gate(b)
    BY <2>3 DEF Gate, aborted
  <2> QED
    BY <2>4, <2>5 DEF MeetingStep
<1> QED
  BY <1>1, <1>2, <1>3

(* So every step of the harness is a step of Rendezvous at each barrier.   *)
LEMMA EveryStepMeets ==
  ASSUME HarnessInv, [HarnessNext]_harnessVars, NEW b \in Barriers
  PROVE  MeetingStep(b)
<1>1. ASSUME NEW w \in Workers, SyncStep(w) \/ body_return(w) PROVE MeetingStep(b)
  BY <1>1, MeetingDec, MeetingReturn, MeetingWorker DEF SyncStep
<1>2. CASE MainStep
  BY <1>2, MeetingWait, MeetingStore, MeetingMain DEF MainStep
<1>3. CASE SpuriousStep
  BY <1>3, MeetingWorker, MeetingMain DEF SpuriousStep
<1>4. CASE HarnessDone \/ UNCHANGED harnessVars
  <2>1. UNCHANGED <<barrier, wpc, wat, mpc, mat, seen, i, ret>>
    BY <1>4 DEF HarnessDone, harnessVars, mainVars
  <2>2. Arrived(b)' = Arrived(b) /\ Gone(b)' = Gone(b)
    BY <2>1 DEF Arrived, Gone
  <2> QED
    BY <2>1, <2>2, GateKept DEF MeetingStep
<1> QED
  BY <1>1, <1>2, <1>3, <1>4 DEF HarnessNext

(* Each thread_barrier implements Rendezvous, for any number of threads:   *)
(* barrier_wait returns only when every worker has come, and no worker     *)
(* leaves barrier_sync before barrier_unblock has let it go.               *)
THEOREM BarriersMeet == HarnessSpec => ImplementsRendezvous
<1>1. HarnessInit => BeforeMeeting!Init /\ AfterMeeting!Init
  BY DEF HarnessInit, BeforeMeeting!Init, AfterMeeting!Init, Arrived, Gone, Gate,
     barrier_init, aborted, Barriers, RET_PASS, RET_ERROR
<1>2. HarnessInv /\ [HarnessNext]_harnessVars => [BeforeMeeting!Next]_(BeforeMeeting!vars)
  <2> SUFFICES ASSUME HarnessInv, [HarnessNext]_harnessVars
               PROVE  [BeforeMeeting!Next]_(BeforeMeeting!vars)
    OBVIOUS
  <2>1. MeetingStep("before")
    BY EveryStepMeets DEF Barriers
  <2> QED
    BY <2>1 DEF MeetingStep, BeforeMeeting!Next, BeforeMeeting!vars, BeforeMeeting!Arrive,
       BeforeMeeting!Leave, BeforeMeeting!Meet, BeforeMeeting!Open, BeforeMeeting!Abandon
<1>3. HarnessInv /\ [HarnessNext]_harnessVars => [AfterMeeting!Next]_(AfterMeeting!vars)
  <2> SUFFICES ASSUME HarnessInv, [HarnessNext]_harnessVars
               PROVE  [AfterMeeting!Next]_(AfterMeeting!vars)
    OBVIOUS
  <2>1. MeetingStep("after")
    BY EveryStepMeets DEF Barriers
  <2> QED
    BY <2>1 DEF MeetingStep, AfterMeeting!Next, AfterMeeting!vars, AfterMeeting!Arrive,
       AfterMeeting!Leave, AfterMeeting!Meet, AfterMeeting!Open, AfterMeeting!Abandon
<1> QED
  BY <1>1, <1>2, <1>3, HarnessInvariance, PTL
     DEF HarnessSpec, ImplementsRendezvous, BeforeMeeting!Spec, AfterMeeting!Spec

=============================================================================

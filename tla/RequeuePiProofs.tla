-------------------------- MODULE RequeuePiProofs ---------------------------
(***************************************************************************)
(* Proofs about functional/futex_requeue_pi.c, for any number of waiters,  *)
(* any iteration limit, every command line and every failure.              *)
(***************************************************************************)
EXTENDS RequeuePi, FiniteSetTheorems, TLAPS

-----------------------------------------------------------------------------
(* What the operations on a PI futex do to the threads that use it, for    *)
(* any set of threads.                                                     *)

(* The states of a PI futex among the threads of T.                        *)
PiType(T) == [owner : T \cup {Nobody}, queue : SUBSET T]

(* The futex agrees with its users: H are the threads that hold it, Q the  *)
(* ones inside a call that is to give it to them.                          *)
Agrees(pi, T, H, Q) ==
  \A t \in T :
    /\ t \in H => pi.owner = t
    /\ pi.owner = t => t \in H \cup Q
    /\ t \in pi.queue <=> t \in Q /\ pi.owner # t

-----------------------------------------------------------------------------
(* FUTEX_LOCK_PI by a thread that neither has the futex nor waits for it.  *)
LEMMA LockPi ==
  ASSUME NEW T, NEW pi \in PiType(T), NEW t \in T, Nobody \notin T
  PROVE  /\ futex_lock_pi(pi, t) \in PiType(T)
         /\ \A H, Q : Agrees(pi, T, H, Q) /\ t \notin H \cup Q
              => Agrees(futex_lock_pi(pi, t), T, H, Q \cup {t})
<1>1. futex_lock_pi(pi, t) \in PiType(T)
  BY DEF futex_lock_pi, PiType
<1>2. ASSUME NEW H, NEW Q, Agrees(pi, T, H, Q), t \notin H \cup Q
      PROVE  Agrees(futex_lock_pi(pi, t), T, H, Q \cup {t})
  BY <1>2 DEF futex_lock_pi, PiType, Agrees
<1> QED
  BY <1>1, <1>2

(* The call returns: the thread holds the futex.                           *)
LEMMA AcquirePi ==
  ASSUME NEW T, NEW pi \in PiType(T), NEW t \in T, pi.owner = t,
         NEW H, NEW Q, Agrees(pi, T, H, Q)
  PROVE  Agrees(pi, T, H \cup {t}, Q \ {t})
BY DEF PiType, Agrees

(* FUTEX_UNLOCK_PI by the thread that holds the futex, or by one that      *)
(* neither holds it nor waits for it, which is refused.                    *)
LEMMA UnlockPi ==
  ASSUME NEW T, NEW pi \in PiType(T), NEW t \in T, Nobody \notin T,
         NEW q \in futex_unlock_pi(pi, t)
  PROVE  /\ q \in PiType(T)
         /\ \A H, Q : Agrees(pi, T, H, Q) /\ t \in H /\ t \notin Q
              => Agrees(q, T, H \ {t}, Q)
         /\ \A H, Q : Agrees(pi, T, H, Q) /\ t \notin H \cup Q => q = pi
<1>1. \/ pi.owner # t /\ q = pi
      \/ pi.owner = t /\ pi.queue = {} /\ q = PI_INITIALIZER
      \/ pi.owner = t /\ \E u \in pi.queue : q = [owner |-> u, queue |-> pi.queue \ {u}]
  BY DEF futex_unlock_pi
<1>2. q \in PiType(T)
  BY <1>1 DEF PI_INITIALIZER, PiType
<1>3. ASSUME NEW H, NEW Q, Agrees(pi, T, H, Q), t \in H, t \notin Q
      PROVE  Agrees(q, T, H \ {t}, Q)
  <2>1. pi.owner = t /\ pi.queue \in SUBSET T
    BY <1>3 DEF Agrees, PiType
  <2>2. CASE q = PI_INITIALIZER /\ pi.queue = {}
    BY <1>3, <2>1, <2>2 DEF Agrees, PiType, PI_INITIALIZER
  <2>3. ASSUME NEW u \in pi.queue, q = [owner |-> u, queue |-> pi.queue \ {u}]
        PROVE  Agrees(q, T, H \ {t}, Q)
    BY <1>3, <2>1, <2>3 DEF Agrees, PiType
  <2> QED
    BY <1>1, <2>1, <2>2, <2>3
<1>4. ASSUME NEW H, NEW Q, Agrees(pi, T, H, Q), t \notin H \cup Q
      PROVE  q = pi
  BY <1>1, <1>4 DEF Agrees
<1> QED
  BY <1>2, <1>3, <1>4

(* A thread leaves the queue.                                              *)
LEMMA DequeuePi ==
  ASSUME NEW T, NEW pi \in PiType(T), NEW t \in T
  PROVE  /\ pi_dequeue(pi, t) \in PiType(T)
         /\ \A H, Q : Agrees(pi, T, H, Q) /\ pi.owner # t
              => Agrees(pi_dequeue(pi, t), T, H, Q \ {t})
BY DEF pi_dequeue, PiType, Agrees

(* What FUTEX_CMP_REQUEUE_PI may do, one alternative after the other.      *)
LEMMA RequeueCases ==
  ASSUME NEW waiting, NEW pi, NEW nr_requeue,
         NEW m \in futex_cmp_requeue_pi(waiting, pi, nr_requeue)
  PROVE  /\ m.moved \in Moves(waiting, nr_requeue) /\ m.moved \in SUBSET waiting
         /\ \/ /\ m.moved = {} \/ pi.owner # Nobody
               /\ m.pi = [pi EXCEPT !.queue = @ \cup m.moved]
            \/ /\ pi.owner = Nobody
               /\ \E u \in m.moved :
                    m.pi = [owner |-> u, queue |-> pi.queue \cup (m.moved \ {u})]
<1>1. PICK S \in Moves(waiting, nr_requeue) :
        m \in IF S = {} \/ pi.owner # Nobody
              THEN {[moved |-> S, pi |-> [pi EXCEPT !.queue = @ \cup S]]}
              ELSE {[moved |-> S, pi |-> [owner |-> u, queue |-> pi.queue \cup (S \ {u})]] :
                      u \in S}
  BY DEF futex_cmp_requeue_pi
<1>2. S \in SUBSET waiting
  BY DEF Moves
<1>3. CASE S = {} \/ pi.owner # Nobody
  BY <1>1, <1>2, <1>3
<1>4. CASE ~ (S = {} \/ pi.owner # Nobody)
  <2>1. PICK u \in S :
          m = [moved |-> S, pi |-> [owner |-> u, queue |-> pi.queue \cup (S \ {u})]]
    BY <1>1, <1>4
  <2> QED
    BY <1>2, <1>4, <2>1
<1> QED
  BY <1>3, <1>4

(* The threads it moves join the queue, or one of them gets the futex.     *)
LEMMA RequeuePiKeeps ==
  ASSUME NEW T, NEW pi \in PiType(T), Nobody \notin T,
         NEW waiting \in SUBSET T, NEW nr_requeue,
         NEW m \in futex_cmp_requeue_pi(waiting, pi, nr_requeue)
  PROVE  /\ m.pi \in PiType(T)
         /\ \A H, Q : Agrees(pi, T, H, Q) /\ waiting \cap (H \cup Q) = {}
              => Agrees(m.pi, T, H, Q \cup m.moved)
<1>1. /\ m.moved \in SUBSET T /\ m.moved \in SUBSET waiting
      /\ \/ /\ m.moved = {} \/ pi.owner # Nobody
            /\ m.pi = [pi EXCEPT !.queue = @ \cup m.moved]
         \/ /\ pi.owner = Nobody
            /\ \E u \in m.moved :
                 m.pi = [owner |-> u, queue |-> pi.queue \cup (m.moved \ {u})]
  BY RequeueCases
<1> DEFINE S == m.moved
           r == m.pi
<1> HIDE DEF S, r
<1>2. /\ S \in SUBSET T /\ S \in SUBSET waiting
      /\ \/ (S = {} \/ pi.owner # Nobody) /\ r = [pi EXCEPT !.queue = @ \cup S]
         \/ /\ pi.owner = Nobody
            /\ \E u \in S : r = [owner |-> u, queue |-> pi.queue \cup (S \ {u})]
  BY <1>1 DEF S, r
<1>3. r \in PiType(T)
  BY <1>2 DEF PiType
<1>4. ASSUME NEW H, NEW Q, Agrees(pi, T, H, Q), waiting \cap (H \cup Q) = {}
      PROVE  Agrees(r, T, H, Q \cup S)
  <2>1. CASE (S = {} \/ pi.owner # Nobody) /\ r = [pi EXCEPT !.queue = @ \cup S]
    BY <1>2, <1>4, <2>1 DEF PiType, Agrees
  <2>2. ASSUME pi.owner = Nobody, NEW u \in S,
               r = [owner |-> u, queue |-> pi.queue \cup (S \ {u})]
        PROVE  Agrees(r, T, H, Q \cup S)
    BY <1>2, <1>4, <2>2 DEF PiType, Agrees
  <2> QED
    BY <1>2, <2>1, <2>2
<1> QED
  BY <1>3, <1>4 DEF S, r

-----------------------------------------------------------------------------
(* unit_test() has begun to join its threads.                              *)
Joining == mpc \in {"join_call", "join_null", "join_store", "join_blocker", "join_waker"}

(* What each thread's position says about the options and about unit_test. *)
ControlInv ==
  /\ kpc \in {"loop", "tally"} => ~ opt.broadcast
  /\ kpc = "test" => opt.broadcast
  /\ kpc \in {"lock", "locking", "unlock"} => opt.locked
  /\ mpc \in {"create_blocker", "create", "create_waker"} => kpc = "none"
  /\ mpc = "create_blocker" => opt.owner /\ bpc = "none" /\ i = 0
  /\ mpc = "create" => i < THREAD_MAX
  /\ mpc \in {"create_blocker", "create"} =>
       \A w \in Waiters : w >= i => wpc[w] = "none"
  /\ bpc # "none" => opt.owner
  /\ mpc \in {"join_call", "join_null", "join_store"} => i < THREAD_MAX
  /\ mpc \in {"join_blocker", "join_waker"} => i = THREAD_MAX
  /\ Joining => \A w \in Waiters : w < i => wpc[w] = "exited"

(* Who went on without f2 has not got into another call for it since.      *)
DeniedInv ==
  /\ \A w \in Waiters : w \in denied => wpc[w] \in {"unlock", "exited"}
  /\ Waker \in denied => kpc \notin {"none", "poll", "locking"}

(* The exit status is that of the option loop or the one main() returns.   *)
StatusInv ==
  /\ Running <=> mpc \notin {"usage", "exited"}
  /\ mpc = "usage" => ~ UsesFrame
  /\ mpc = "exited" => status = <<ret>>

(* What a waiter has in its ret.                                           *)
ResultInv ==
  \A w \in Waiters :
    /\ wpc[w] = "woken_ok" => wret[w] = 0
    /\ wpc[w] \in {"lock", "locking", "unlock", "exited"} => wret[w] \in {0, RET_ERROR}

(* The waiters that have announced themselves, and the ones that have      *)
(* counted themselves as woken.                                            *)
Announced == {w \in Waiters : wpc[w] \notin {"none", "run"}}
Woken == {w \in Waiters : wpc[w] \in {"lock", "locking", "unlock", "exited"}}

(* What the signaller has taken from f1 and not added to task_count yet.   *)
Untallied ==
  IF ~ opt.broadcast /\ kpc \in {"unlock", "tally"} /\ kret > 0 THEN kret ELSE 0

(* The counters are exact, and no waiter is counted in task_count that is  *)
(* still to be taken off f1.                                               *)
CountInv ==
  /\ waiters_blocked = Cardinality(Announced)
  /\ waiters_woken = Cardinality(Woken)
  /\ task_count + Untallied + Cardinality(NotYet) <= THREAD_MAX

(* The waker stops before its loop counter gets out of bounds.             *)
IterInv ==
  kpc \in {"wake", "exit", "exited"} \/ (kpc = "unlock" /\ opt.broadcast)
    \/ iters <= MAX_WAKE_ITERS + THREAD_MAX

TypeInv ==
  /\ RequeueTypeOK /\ ControlInv /\ DeniedInv /\ StatusInv
  /\ ResultInv /\ CountInv /\ IterInv

(* The waiters that wait for f2 after a requeue.                           *)
OnF2 == {w \in Waiters : wpc[w] = "on_f2"}

(* With f2 in its hands, and waiters that do not time out, the broadcaster *)
(* counts only waiters that are still on f2: none of them is in            *)
(* waiters_woken too.                                                      *)
BroadcastInv ==
  opt.broadcast =>
    /\ kpc \in {"none", "poll", "lock", "locking"} => task_count = 0
    /\ kpc \in {"requeue", "test"} /\ BroadcastLocked =>
         task_count <= Cardinality(OnF2)

(* Nobody is left behind from the moment the waker is done.                *)
DoneInv ==
  (\/ kpc \in {"wake", "exit", "exited"}
   \/ kpc = "unlock" /\ opt.broadcast) /\ kret >= 0
    /\ (opt.broadcast => BroadcastLocked)
  => NotYet = {}

(* waiter_ret points to one of the waiters joined so far (to the first one *)
(* at the start), and to one that has failed if any of them has.           *)
JoinInv ==
  /\ Joining => /\ kpc # "none"
                /\ i = 0 => waiter_ret = 0
                /\ i > 0 => waiter_ret < i
                /\ i > 0 /\ wret[waiter_ret] = 0 =>
                     \A w \in Waiters : w < i => wret[w] = 0
  /\ mpc = "join_null" /\ i > 0 => wret[waiter_ret] # 0
  /\ mpc = "join_store" /\ i > 0 => wret[waiter_ret] = 0
  /\ mpc = "join_waker" /\ opt.owner => bpc = "exited"

ReturnInv == JoinInv /\ FrameOutlivesThreads /\ VerdictSound

-----------------------------------------------------------------------------
Threads == Waiters \cup {Waker, Blocker}

(* The thread numbers are those of unit_test, and Nobody is none of them.  *)
LEMMA ThreadFacts ==
  /\ THREAD_MAX \in Nat /\ THREAD_MAX >= 1 /\ MAX_WAKE_ITERS \in Nat
  /\ Waiters \subseteq Nat /\ 0 \in Waiters
  /\ \A w \in Waiters : w < THREAD_MAX
  /\ \A k \in Nat : k < THREAD_MAX => k \in Waiters
  /\ Waker \notin Waiters /\ Blocker \notin Waiters /\ Waker # Blocker
  /\ Nobody \notin Threads
BY ThreadAssumption, ItersAssumption DEF Waiters, Waker, Blocker, Nobody, Threads

(* There are THREAD_MAX waiters.                                           *)
LEMMA WaitersFinite == IsFiniteSet(Waiters) /\ Cardinality(Waiters) = THREAD_MAX
<1>1. 0 \in Int /\ THREAD_MAX - 1 \in Int
  BY ThreadFacts
<1>2. /\ IsFiniteSet(0 .. THREAD_MAX - 1)
      /\ Cardinality(0 .. THREAD_MAX - 1)
           = IF 0 > THREAD_MAX - 1 THEN 0 ELSE (THREAD_MAX - 1) - 0 + 1
  BY <1>1, FS_Interval
<1> QED
  BY <1>2, ThreadFacts DEF Waiters

(* A set of waiters has at most THREAD_MAX members, and a part of it no    *)
(* more than the whole.                                                    *)
LEMMA SetOfWaiters ==
  ASSUME NEW S \in SUBSET Waiters
  PROVE  /\ IsFiniteSet(S) /\ Cardinality(S) \in Nat /\ Cardinality(S) <= THREAD_MAX
         /\ \A U \in SUBSET S : Cardinality(U) \in Nat /\ Cardinality(U) <= Cardinality(S)
         /\ Cardinality(S) = 0 <=> S = {}
<1>1. IsFiniteSet(S) /\ Cardinality(S) <= Cardinality(Waiters)
  BY WaitersFinite, FS_Subset
<1>2. Cardinality(S) \in Nat
  BY <1>1, FS_CardinalityType
<1>3. ASSUME NEW U \in SUBSET S
      PROVE  Cardinality(U) \in Nat /\ Cardinality(U) <= Cardinality(S)
  BY <1>1, FS_Subset, FS_CardinalityType
<1>4. Cardinality(S) = 0 <=> S = {}
  BY <1>1, FS_EmptySet
<1> QED
  BY <1>1, <1>2, <1>3, <1>4, WaitersFinite

(* One waiter more.                                                        *)
LEMMA OneMore ==
  ASSUME NEW S \in SUBSET Waiters, NEW w \in Waiters, w \notin S
  PROVE  Cardinality(S \cup {w}) = Cardinality(S) + 1
BY SetOfWaiters, FS_AddElement

(* Two sets of waiters without a common member.                            *)
LEMMA TwoSets ==
  ASSUME NEW S \in SUBSET Waiters, NEW U \in SUBSET Waiters, S \cap U = {}
  PROVE  Cardinality(S \cup U) = Cardinality(S) + Cardinality(U)
<1>1. IsFiniteSet(S) /\ IsFiniteSet(U)
  BY SetOfWaiters
<1>2. Cardinality(S \cup U)
        = Cardinality(S) + Cardinality(U) - Cardinality(S \cap U)
  BY <1>1, FS_Union
<1>3. Cardinality(S \cap U) = 0
  BY FS_EmptySet
<1>4. Cardinality(S) \in Nat /\ Cardinality(U) \in Nat
  BY SetOfWaiters
<1> QED
  BY <1>2, <1>3, <1>4

-----------------------------------------------------------------------------
(* What a command line leaves in the options is a set of flags.            *)
LEMMA OptionType ==
  ASSUME NEW argv
  PROVE  getopt(argv) \in [broadcast : BOOLEAN, owner : BOOLEAN,
                           locked : BOOLEAN, timeout : BOOLEAN]
BY DEF getopt

(* The option loop ends the program with one of two codes, if it does.     *)
LEMMA UsageType == \A argv : usage(argv) \in {<<>>, <<0>>, <<1>>}
BY DEF usage

(* The PI futex f2 is one of the threads of the program.                   *)
LEMMA F2Type == RequeueTypeOK => f2 \in PiType(Threads)
BY DEF RequeueTypeOK, PiType, Threads

(* A step that moves no waiter changes none of the sets that are counted.  *)
LEMMA SameWaiters ==
  wpc' = wpc => /\ Announced' = Announced /\ Woken' = Woken /\ NotYet' = NotYet
                /\ OnF1' = OnF1 /\ OnF2' = OnF2
BY DEF Announced, Woken, NotYet, OnF1, OnF2

(* The sets that are counted are sets of waiters.                          *)
LEMMA CountedSets ==
  /\ Announced \in SUBSET Waiters /\ Woken \in SUBSET Waiters
  /\ NotYet \in SUBSET Waiters /\ OnF1 \in SUBSET Waiters /\ OnF2 \in SUBSET Waiters
  /\ OnF1 \in SUBSET NotYet /\ Announced' \in SUBSET Waiters
  /\ Woken' \in SUBSET Waiters /\ NotYet' \in SUBSET Waiters
  /\ OnF1' \in SUBSET Waiters /\ OnF2' \in SUBSET Waiters
BY DEF Announced, Woken, NotYet, OnF1, OnF2

(* FUTEX_CMP_REQUEUE_PI takes a set of waiters from f1 to f2.              *)
LEMMA RequeueMoves ==
  ASSUME RequeueTypeOK, NEW n, NEW r, Requeue(n, r)
  PROVE  \E S \in Moves(OnF1, r) :
           /\ S \in SUBSET OnF1 /\ n = Cardinality(S)
           /\ wpc' = [w \in Waiters |-> IF w \in S THEN "on_f2" ELSE wpc[w]]
           /\ wpc' \in [Waiters -> WaiterPC]
           /\ f2' \in PiType(Threads)
           /\ NotYet' = NotYet \ S /\ OnF2' = OnF2 \cup S
           /\ Announced' = Announced /\ Woken' = Woken
           /\ Cardinality(NotYet') + n = Cardinality(NotYet)
           /\ Cardinality(OnF2') = Cardinality(OnF2) + n
<1>1. PICK m \in futex_cmp_requeue_pi(OnF1, f2, r) :
        /\ n = Cardinality(m.moved)
        /\ f2' = m.pi
        /\ wpc' = [w \in Waiters |-> IF w \in m.moved THEN "on_f2" ELSE wpc[w]]
  BY DEF Requeue
<1>2. m.moved \in Moves(OnF1, r) /\ m.moved \in SUBSET OnF1
  BY RequeueCases
<1>3. f2' \in PiType(Threads)
  <2>1. f2 \in PiType(Threads) /\ OnF1 \in SUBSET Threads /\ Nobody \notin Threads
    BY F2Type, CountedSets, ThreadFacts DEF Threads
  <2> QED
    BY <1>1, <2>1, RequeuePiKeeps
<1> DEFINE S == m.moved
<1> HIDE DEF S
<1>4. /\ S \in SUBSET OnF1 /\ n = Cardinality(S) /\ S \in Moves(OnF1, r)
      /\ wpc' = [w \in Waiters |-> IF w \in S THEN "on_f2" ELSE wpc[w]]
  BY <1>1, <1>2 DEF S
<1>5. /\ wpc' \in [Waiters -> WaiterPC]
      /\ Announced' = Announced /\ Woken' = Woken
      /\ NotYet' = NotYet \ S /\ OnF2' = OnF2 \cup S
      /\ S \in SUBSET Waiters /\ S \cap OnF2 = {} /\ S \in SUBSET NotYet
  BY <1>4 DEF RequeueTypeOK, WaiterPC, Announced, Woken, NotYet, OnF1, OnF2
<1>6. Cardinality(OnF2') = Cardinality(OnF2) + n
  <2>1. Cardinality(OnF2 \cup S) = Cardinality(OnF2) + Cardinality(S)
    BY <1>5, CountedSets, TwoSets
  <2> QED
    BY <1>4, <1>5, <2>1
<1>7. Cardinality(NotYet') + n = Cardinality(NotYet)
  <2>1. (NotYet \ S) \cup S = NotYet /\ (NotYet \ S) \cap S = {}
        /\ (NotYet \ S) \in SUBSET Waiters
    BY <1>5, CountedSets
  <2>2. Cardinality((NotYet \ S) \cup S) = Cardinality(NotYet \ S) + Cardinality(S)
    BY <1>5, <2>1, TwoSets
  <2> QED
    BY <1>4, <1>5, <2>1, <2>2
<1> QED
  BY <1>3, <1>4, <1>5, <1>6, <1>7

-----------------------------------------------------------------------------
(* The initial states satisfy the inductive invariant.                     *)
LEMMA TypeInvInit == Init => TypeInv
<1> SUFFICES ASSUME Init PROVE TypeInv
  OBVIOUS
<1> USE DEF Init
<1>1. opt \in [broadcast : BOOLEAN, owner : BOOLEAN, locked : BOOLEAN, timeout : BOOLEAN]
  BY OptionType
<1>2. f2 \in PiType(Threads)
  BY DEF PiType, PI_INITIALIZER
<1>3. RequeueTypeOK
  BY <1>1, <1>2, UsageType, ThreadFacts
  DEF RequeueTypeOK, PiType, Threads, WaiterPC, WakerPC, BlockerPC, MainPC, Garbage,
      RET_PASS, RET_ERROR
<1>4. ControlInv /\ DeniedInv /\ StatusInv /\ ResultInv
  BY <1>1, ThreadFacts
  DEF ControlInv, DeniedInv, StatusInv, Running, UsesFrame, ResultInv, Joining
<1>5. CountInv
  <2>1. Announced = {} /\ Woken = {} /\ NotYet \in SUBSET Waiters
    BY DEF Announced, Woken, NotYet
  <2>2. Cardinality({}) = 0 /\ Cardinality(NotYet) \in Nat /\ Cardinality(NotYet) <= THREAD_MAX
    BY <2>1, SetOfWaiters, FS_EmptySet
  <2> QED
    BY <2>1, <2>2, ThreadFacts DEF CountInv, Untallied
<1>6. IterInv
  BY ThreadFacts DEF IterInv
<1> QED
  BY <1>3, <1>4, <1>5, <1>6 DEF TypeInv

(* waiterfn() keeps the types, and the counters exact.                     *)
LEMMA TypeInvWaiter ==
  ASSUME TypeInv, NEW w \in Waiters, WaiterStep(w) \/ waiter_fail(w)
  PROVE  TypeInv'
<1> USE DEF TypeInv
<1>0. /\ f2 \in PiType(Threads) /\ w \in Threads /\ Nobody \notin Threads
      /\ Waiters \subseteq Nat /\ THREAD_MAX \in Nat
      /\ wpc \in [Waiters -> WaiterPC] /\ wret \in [Waiters -> {RET_ERROR} \cup Garbage]
  BY F2Type, ThreadFacts DEF Threads, RequeueTypeOK
<1>1. /\ wpc[w] # "none" /\ wpc' \in [Waiters -> WaiterPC]
      /\ \A u \in Waiters \ {w} : wpc'[u] = wpc[u]
      /\ wpc'[w] # "none" /\ wpc[w] # "exited"
  BY <1>0
  DEF WaiterStep, waiter_run, waiter_call, waiter_fail, waiter_requeued, waiter_timeout,
      waiter_woke, waiter_lock, waiter_locked, waiter_unlock, WGoto, WaiterPC
<1>2. wret' \in [Waiters -> {RET_ERROR} \cup Garbage]
  BY <1>0
  DEF WaiterStep, waiter_run, waiter_call, waiter_fail, waiter_requeued, waiter_timeout,
      waiter_woke, waiter_lock, waiter_locked, waiter_unlock, Garbage, RET_ERROR
<1>3. f2' \in PiType(Threads)
  <2>1. CASE f2' = pi_dequeue(f2, w)
    BY <1>0, <2>1, DequeuePi
  <2>2. CASE f2' = futex_lock_pi(f2, w)
    BY <1>0, <2>2, LockPi
  <2>3. CASE f2' \in futex_unlock_pi(f2, w)
    BY <1>0, <2>3, UnlockPi
  <2> QED
    BY <1>0, <2>1, <2>2, <2>3
    DEF WaiterStep, waiter_run, waiter_call, waiter_fail, waiter_requeued, waiter_timeout,
        waiter_woke, waiter_lock, waiter_locked, waiter_unlock
<1>4. /\ UNCHANGED <<opt, wakerVars, blockerVars, mainVars>>
      /\ \/ denied' = denied
         \/ denied' = denied \cup {w} /\ wpc'[w] = "unlock"
      /\ w \in denied => wpc'[w] \in {"unlock", "exited"}
  BY <1>0
  DEF DeniedInv, WGoto, WaiterStep, waiter_run, waiter_call, waiter_fail, waiter_requeued, waiter_timeout,
         waiter_woke, waiter_lock, waiter_locked, waiter_unlock
<1>5. waiters_blocked' = Cardinality(Announced')
  <2>1. CASE waiter_run(w)
    <3>1. Announced' = Announced \cup {w} /\ w \notin Announced
      BY <1>0, <2>1 DEF waiter_run, WGoto, Announced
    <3> QED
      BY <2>1, <3>1, CountedSets, OneMore DEF waiter_run, CountInv
  <2>2. CASE ~ waiter_run(w)
    <3>1. Announced' = Announced /\ waiters_blocked' = waiters_blocked
      BY <1>0, <2>2
      DEF WaiterStep, waiter_call, waiter_fail, waiter_requeued, waiter_timeout, counters,
          waiter_woke, waiter_lock, waiter_locked, waiter_unlock, WGoto, Announced
    <3> QED
      BY <3>1 DEF CountInv
  <2> QED
    BY <2>1, <2>2
<1>6. waiters_woken' = Cardinality(Woken')
  <2>1. CASE waiter_woke(w)
    <3>1. Woken' = Woken \cup {w} /\ w \notin Woken
      BY <1>0, <2>1 DEF waiter_woke, WGoto, Woken
    <3> QED
      BY <2>1, <3>1, CountedSets, OneMore DEF waiter_woke, CountInv
  <2>2. CASE ~ waiter_woke(w)
    <3>1. Woken' = Woken /\ waiters_woken' = waiters_woken
      BY <1>0, <2>2
      DEF WaiterStep, waiter_call, waiter_fail, waiter_requeued, waiter_timeout, counters,
          waiter_run, waiter_lock, waiter_locked, waiter_unlock, WGoto, Woken
    <3> QED
      BY <3>1 DEF CountInv
  <2> QED
    BY <2>1, <2>2
<1>7. task_count' + Untallied' + Cardinality(NotYet') <= THREAD_MAX
  <2>1. NotYet' \in SUBSET NotYet
    BY <1>0
    DEF WaiterStep, waiter_run, waiter_call, waiter_fail, waiter_requeued, waiter_timeout,
        waiter_woke, waiter_lock, waiter_locked, waiter_unlock, WGoto, NotYet
  <2>2. Cardinality(NotYet') \in Nat /\ Cardinality(NotYet') <= Cardinality(NotYet)
        /\ Cardinality(NotYet) \in Nat
    BY <2>1, CountedSets, SetOfWaiters
  <2>3. task_count' = task_count /\ Untallied' = Untallied
    BY <1>4 DEF Untallied, wakerVars
  <2>4. task_count \in Nat /\ Untallied \in Nat
    BY ThreadFacts DEF RequeueTypeOK, Untallied, RET_ERROR
  <2> QED
    BY <1>0, <2>2, <2>3, <2>4 DEF CountInv
<1>8. RequeueTypeOK'
  <2>1. waiters_blocked' \in 0 .. THREAD_MAX /\ waiters_woken' \in 0 .. THREAD_MAX
    BY <1>0, <1>5, <1>6, CountedSets, SetOfWaiters
  <2> QED
    BY <1>1, <1>2, <1>3, <1>4, <2>1
    DEF RequeueTypeOK, PiType, Threads, wakerVars, blockerVars, mainVars
<1>9. ControlInv' /\ IterInv'
  BY <1>0, <1>1, <1>4 DEF ControlInv, Joining, IterInv, wakerVars, blockerVars, mainVars
<1>11. DeniedInv' /\ StatusInv'
  BY <1>0, <1>1, <1>4, ThreadFacts
  DEF DeniedInv, StatusInv, Running, UsesFrame, wakerVars, blockerVars, mainVars
<1>10. ResultInv'
  BY <1>0
  DEF WaiterStep, waiter_run, waiter_call, waiter_fail, waiter_requeued, waiter_timeout,
      waiter_woke, waiter_lock, waiter_locked, waiter_unlock, WGoto, ResultInv, RET_ERROR
<1> QED
  BY <1>5, <1>6, <1>7, <1>8, <1>9, <1>10, <1>11 DEF CountInv

(* What is taken off one summand may be added to the others.               *)
LEMMA WithinBound ==
  ASSUME NEW a \in Nat, NEW b \in Nat, NEW c \in Nat, NEW n \in Nat,
         NEW d \in Nat, NEW e \in Nat, a + b + c <= n
  PROVE  /\ d + e <= a + b => d + e + c <= n
         /\ \A m, f \in Nat : b = 0 /\ d + e <= a + m /\ f + m = c => d + e + f <= n
OBVIOUS

(* What CountInv needs of a step that moves no waiter.                     *)
LEMMA CountsKept ==
  ASSUME CountInv, UNCHANGED <<counters, wpc>>,
         task_count \in Nat /\ task_count' \in Nat /\ Untallied \in Nat /\ Untallied' \in Nat,
         task_count' + Untallied' <= task_count + Untallied
  PROVE  CountInv'
<1>1. Announced' = Announced /\ Woken' = Woken /\ NotYet' = NotYet
  BY SameWaiters
<1>2. Cardinality(NotYet) \in Nat /\ THREAD_MAX \in Nat
  BY CountedSets, SetOfWaiters, ThreadFacts
<1>3. task_count + Untallied + Cardinality(NotYet) <= THREAD_MAX
  BY DEF CountInv
<1>4. task_count' + Untallied' + Cardinality(NotYet) <= THREAD_MAX
  BY <1>2, <1>3, WithinBound
<1> QED
  BY <1>1, <1>4 DEF CountInv, counters

(* The requeues of both wakers.                                            *)
LEMMA TypeInvRequeue ==
  ASSUME TypeInv, broadcast_requeue \/ signal_requeue
  PROVE  TypeInv'
<1> USE DEF TypeInv
<1>1. PICK n \in 0 .. THREAD_MAX, r \in Nat :
        /\ Requeue(n, r)
        /\ UNCHANGED <<opt, counters, denied, wret, blockerVars, mainVars>>
        /\ kpc = "requeue"
        /\ \/ /\ opt.broadcast /\ iters' = iters + 1
              /\ \/ kret' = n /\ task_count' = task_count + n /\ kpc' = "test"
                    /\ iters' < MAX_WAKE_ITERS
                 \/ kret' = RET_ERROR /\ task_count' = task_count /\ kpc' = "wake"
           \/ /\ ~ opt.broadcast /\ kret' = n /\ UNCHANGED <<task_count, iters>>
              /\ kpc' = IF opt.locked THEN "unlock" ELSE "tally"
  <2>1. CASE broadcast_requeue
    BY <2>1, ThreadFacts DEF broadcast_requeue
  <2>2. CASE signal_requeue
    BY <2>2, ThreadFacts DEF signal_requeue
  <2> QED
    BY <2>1, <2>2
<1>2. PICK S \in Moves(OnF1, r) :
        /\ S \in SUBSET OnF1
        /\ wpc' = [w \in Waiters |-> IF w \in S THEN "on_f2" ELSE wpc[w]]
        /\ wpc' \in [Waiters -> WaiterPC] /\ f2' \in PiType(Threads)
        /\ Announced' = Announced /\ Woken' = Woken
        /\ Cardinality(NotYet') + n = Cardinality(NotYet)
  BY <1>1, RequeueMoves
<1>3. /\ Cardinality(NotYet') \in Nat /\ THREAD_MAX \in Nat /\ MAX_WAKE_ITERS \in Nat
      /\ task_count \in Nat /\ iters \in Nat /\ n \in Nat
  BY CountedSets, SetOfWaiters, ThreadFacts DEF RequeueTypeOK
<1>4. Untallied = 0 /\ task_count' \in Nat /\ Untallied' \in Nat
      /\ task_count' + Untallied' <= task_count + n
  BY <1>1, <1>3 DEF Untallied, RET_ERROR
<1>5. CountInv'
  <2>1. task_count + Untallied + Cardinality(NotYet) <= THREAD_MAX
    BY DEF CountInv
  <2>2. Cardinality(NotYet) \in Nat /\ Untallied \in Nat
    BY <1>4, CountedSets, SetOfWaiters
  <2>3. Cardinality(NotYet') + n = Cardinality(NotYet)
    BY <1>2
  <2>4. task_count' + Untallied' + Cardinality(NotYet') <= THREAD_MAX
    BY <1>3, <1>4, <2>1, <2>2, <2>3, WithinBound, Zenon
  <2> QED
    BY <1>1, <1>2, <2>4 DEF CountInv, counters
<1>6. task_count' \in 0 .. THREAD_MAX
  BY <1>3, <1>4, <1>5 DEF CountInv
<1>7. /\ kpc' \in WakerPC /\ kret' \in RET_ERROR .. THREAD_MAX
      /\ iters' \in 0 .. MAX_WAKE_ITERS + THREAD_MAX + 1
      /\ IterInv'
  BY <1>1, <1>3 DEF RequeueTypeOK, IterInv, WakerPC, RET_ERROR
<1>8. RequeueTypeOK'
  BY <1>1, <1>2, <1>6, <1>7
  DEF RequeueTypeOK, PiType, Threads, counters, blockerVars, mainVars
<1>9. ControlInv' /\ ResultInv'
  BY <1>1, <1>2
  DEF ControlInv, ResultInv, Joining, OnF1, RequeueTypeOK, blockerVars, mainVars
<1>10. DeniedInv' /\ StatusInv'
  BY <1>1, <1>2
  DEF DeniedInv, StatusInv, Running, UsesFrame, OnF1, RequeueTypeOK, blockerVars, mainVars
<1> QED
  BY <1>5, <1>7, <1>8, <1>9, <1>10

(* The other steps of the wakers.                                          *)
LEMMA TypeInvWaker == TypeInv /\ WakerStep => TypeInv'
<1> SUFFICES ASSUME TypeInv, WakerStep, ~ broadcast_requeue, ~ signal_requeue
             PROVE  TypeInv'
  BY TypeInvRequeue
<1> USE DEF TypeInv
<1>0. /\ THREAD_MAX \in Nat /\ MAX_WAKE_ITERS \in Nat
      /\ Waker \in Threads /\ Nobody \notin Threads
      /\ opt \in [broadcast : BOOLEAN, owner : BOOLEAN, locked : BOOLEAN, timeout : BOOLEAN]
      /\ f2 \in PiType(Threads) /\ task_count \in Nat /\ iters \in Nat
      /\ kret \in RET_ERROR .. THREAD_MAX /\ kret \in Int /\ Untallied \in Nat
  BY F2Type, ThreadFacts DEF RequeueTypeOK, Threads, Untallied, RET_ERROR
<1>1. UNCHANGED <<opt, counters, waiterVars, mainVars>> /\ kpc # "none" /\ kpc # "exited"
  BY DEF WakerStep, waker_poll, waker_lock, waker_locked, broadcast_test, signal_loop,
         requeue_fail, signal_tally, waker_wake, waker_unlock, waker_exit
<1>2. f2' \in PiType(Threads)
  <2>1. CASE f2' = futex_lock_pi(f2, Waker)
    BY <1>0, <2>1, LockPi
  <2>2. CASE f2' \in futex_unlock_pi(f2, Waker)
    BY <1>0, <2>2, UnlockPi
  <2> QED
    BY <1>0, <2>1, <2>2
    DEF WakerStep, waker_poll, waker_lock, waker_locked, broadcast_test, signal_loop,
        requeue_fail, signal_tally, waker_wake, waker_unlock, waker_exit
<1>3. /\ bret' = bret /\ bpc' \in BlockerPC
      /\ bpc' # "none" => bpc # "none"
      /\ bpc = "none" => bpc' = "none"
  BY DEF WakerStep, waker_poll, waker_lock, waker_locked, broadcast_test, signal_loop,
         requeue_fail, signal_tally, waker_wake, waker_unlock, waker_exit, blockerVars,
         RequeueTypeOK, BlockerPC
<1>4. /\ task_count' \in Nat /\ Untallied' \in Nat
      /\ task_count' + Untallied' <= task_count + Untallied
  <2>1. CASE requeue_fail
    BY <1>0, <2>1 DEF requeue_fail, Untallied, RET_ERROR
  <2>2. CASE signal_tally
    BY <1>0, <2>2 DEF signal_tally, Untallied, RET_ERROR, ControlInv
  <2>3. CASE waker_unlock
    BY <1>0, <2>3 DEF waker_unlock, Untallied
  <2>4. CASE waker_exit
    BY <1>0, <2>4 DEF waker_exit, Untallied
  <2>5. CASE waker_wake
    BY <1>0, <2>5 DEF waker_wake, Untallied
  <2>6. CASE waker_poll \/ waker_lock \/ waker_locked \/ broadcast_test \/ signal_loop
    BY <1>0, <2>6
    DEF waker_poll, waker_lock, waker_locked, broadcast_test, signal_loop, StartRequeue,
        Untallied
  <2> QED
    BY <2>1, <2>2, <2>3, <2>4, <2>5, <2>6 DEF WakerStep
<1>5. CountInv'
  BY <1>0, <1>1, <1>4, CountsKept DEF waiterVars
<1>6. task_count' \in 0 .. THREAD_MAX
  BY <1>0, <1>4, <1>5, CountedSets, SetOfWaiters DEF CountInv
<1>7. /\ kpc' \in WakerPC /\ kpc' # "none"
      /\ iters' \in 0 .. MAX_WAKE_ITERS + THREAD_MAX + 1
      /\ IterInv'
  <2>1. CASE signal_tally
    BY <1>0, <2>1 DEF signal_tally, RequeueTypeOK, IterInv, WakerPC
  <2>2. CASE ~ signal_tally
    BY <1>0, <1>1, <2>2
    DEF WakerStep, waker_poll, waker_lock, waker_locked, broadcast_test, signal_loop,
        requeue_fail, waker_wake, waker_unlock, waker_exit, StartRequeue,
        RequeueTypeOK, IterInv, WakerPC
  <2> QED
    BY <2>1, <2>2
<1>8. kret' \in RET_ERROR .. THREAD_MAX
  BY <1>0, <1>1
  DEF WakerStep, waker_poll, waker_lock, waker_locked, broadcast_test, signal_loop,
      requeue_fail, signal_tally, waker_wake, waker_unlock, waker_exit, RequeueTypeOK,
      RET_ERROR
<1>12. DeniedInv' /\ denied' \subseteq Waiters \cup {Waker}
  BY <1>0, <1>1, ThreadFacts
  DEF WakerStep, waker_poll, waker_lock, waker_locked, broadcast_test, signal_loop,
      requeue_fail, signal_tally, waker_wake, waker_unlock, waker_exit, StartRequeue,
      DeniedInv, RequeueTypeOK, waiterVars
<1>9. RequeueTypeOK'
  BY <1>1, <1>2, <1>3, <1>6, <1>7, <1>8, <1>12
  DEF RequeueTypeOK, PiType, Threads, counters, waiterVars, mainVars
<1>10. /\ kpc' \in {"loop", "tally"} => ~ opt.broadcast
       /\ kpc' = "test" => opt.broadcast
       /\ kpc' \in {"lock", "locking", "unlock"} => opt.locked
  BY <1>0, <1>1
  DEF WakerStep, waker_poll, waker_lock, waker_locked, broadcast_test, signal_loop,
      requeue_fail, signal_tally, waker_wake, waker_unlock, waker_exit, StartRequeue,
      ControlInv
<1>11. ControlInv' /\ ResultInv'
  BY <1>1, <1>3, <1>7, <1>10 DEF ControlInv, ResultInv, Joining, waiterVars, mainVars
<1>13. StatusInv'
  BY <1>1 DEF StatusInv, Running, UsesFrame, mainVars
<1> QED
  BY <1>5, <1>7, <1>9, <1>11, <1>12, <1>13

(* third_party_blocker().                                                  *)
LEMMA TypeInvBlocker ==
  TypeInv /\ (BlockerStep \/ blocker_fail \/ blocker_spurious) => TypeInv'
<1> SUFFICES ASSUME TypeInv, BlockerStep \/ blocker_fail \/ blocker_spurious PROVE TypeInv'
  OBVIOUS
<1> USE DEF TypeInv
<1>0. /\ Blocker \in Threads /\ Nobody \notin Threads /\ f2 \in PiType(Threads)
  BY F2Type, ThreadFacts DEF Threads
<1>1. /\ UNCHANGED <<opt, counters, denied, waiterVars, wakerVars, mainVars>>
      /\ bpc \notin {"none", "exited"} /\ bpc' \in BlockerPC /\ bret' \in {0, RET_ERROR}
  BY DEF BlockerStep, blocker_lock, blocker_locked, blocker_wait, blocker_unlock,
         blocker_fail, blocker_spurious, RequeueTypeOK, BlockerPC, RET_ERROR
<1>2. f2' \in PiType(Threads)
  <2>1. CASE f2' = futex_lock_pi(f2, Blocker)
    BY <1>0, <2>1, LockPi
  <2>2. CASE f2' \in futex_unlock_pi(f2, Blocker)
    BY <1>0, <2>2, UnlockPi
  <2> QED
    BY <1>0, <2>1, <2>2
    DEF BlockerStep, blocker_lock, blocker_locked, blocker_wait, blocker_unlock,
        blocker_fail, blocker_spurious
<1>3. RequeueTypeOK'
  BY <1>1, <1>2
  DEF RequeueTypeOK, PiType, Threads, counters, waiterVars, wakerVars, mainVars
<1>4. CountInv'
  <2>1. /\ UNCHANGED <<counters, wpc>> /\ task_count' = task_count /\ Untallied' = Untallied
    BY <1>1 DEF counters, waiterVars, wakerVars, Untallied
  <2>2. task_count \in Nat /\ Untallied \in Nat
    BY ThreadFacts DEF RequeueTypeOK, Untallied, RET_ERROR
  <2>3. task_count' + Untallied' <= task_count + Untallied
    BY <2>1, <2>2
  <2> QED
    BY <2>1, <2>2, <2>3, CountsKept
<1>5. ControlInv' /\ ResultInv' /\ IterInv'
  BY <1>1 DEF ControlInv, ResultInv, Joining, IterInv, waiterVars, wakerVars, mainVars
<1>6. DeniedInv' /\ StatusInv'
  BY <1>1 DEF DeniedInv, StatusInv, Running, UsesFrame, waiterVars, wakerVars, mainVars
<1> QED
  BY <1>3, <1>4, <1>5, <1>6

(* unit_test().                                                            *)
LEMMA TypeInvMain == TypeInv /\ MainStep => TypeInv'
<1> SUFFICES ASSUME TypeInv, MainStep PROVE TypeInv'
  OBVIOUS
<1> USE DEF TypeInv
<1>0. /\ THREAD_MAX \in Nat /\ THREAD_MAX >= 1 /\ i \in Nat /\ Waiters \subseteq Nat
      /\ \A k \in Nat : k < THREAD_MAX => k \in Waiters
      /\ 0 \in Waiters
      /\ wpc \in [Waiters -> WaiterPC]
  BY ThreadFacts DEF RequeueTypeOK
<1>1. UNCHANGED <<opt, counters, f2, denied, wret, kret, task_count, iters, bret>>
  BY DEF MainStep, create_blocker, create_waiter, create_waker, create_fail, join_call,
         join_waiter, join_blocker, join_waker, main_return, waiterVars, wakerVars,
         blockerVars
<1>5. DeniedInv' /\ StatusInv'
  <2>1. mpc \notin {"usage", "exited"} /\ status = <<>>
    BY DEF MainStep, create_blocker, create_waiter, create_waker, create_fail, join_call,
           join_waiter, join_blocker, join_waker, main_return, StatusInv, Running
  <2>2. mpc' # "usage" /\ (Running' <=> mpc' # "exited") /\ (mpc' = "exited" => status' = <<ret'>>)
    BY <2>1
    DEF MainStep, create_blocker, create_waiter, create_waker, create_fail, join_call,
        join_waiter, join_blocker, join_waker, main_return, Running
  <2>3. \A w \in Waiters : w \in denied => wpc'[w] = wpc[w]
    BY <1>0
    DEF MainStep, create_blocker, create_waiter, create_waker, create_fail, join_call,
        join_waiter, join_blocker, join_waker, main_return, waiterVars, WGoto, DeniedInv,
        ControlInv
  <2>4. kpc' = kpc \/ kpc = "none"
    BY DEF MainStep, create_blocker, create_waiter, create_waker, create_fail, join_call,
           join_waiter, join_blocker, join_waker, main_return, wakerVars, ControlInv
  <2> QED
    BY <1>1, <2>2, <2>3, <2>4 DEF DeniedInv, StatusInv
<1>2. CASE create_waiter
  <2>1. i \in Waiters /\ wpc[i] = "none" /\ i < THREAD_MAX
    BY <1>0, <1>2 DEF create_waiter, ControlInv
  <2>2. /\ wpc' \in [Waiters -> WaiterPC] /\ Announced' = Announced /\ Woken' = Woken
        /\ NotYet' = NotYet
    BY <1>0, <1>2, <2>1
    DEF create_waiter, WGoto, WaiterPC, Announced, Woken, NotYet
  <2>3. CountInv'
    BY <1>1, <1>2, <2>2 DEF create_waiter, CountInv, Untallied, wakerVars, counters
  <2>4. RequeueTypeOK'
    BY <1>0, <1>1, <1>2, <2>1, <2>2
    DEF create_waiter, RequeueTypeOK, MainPC, wakerVars, blockerVars, counters
  <2>5. ControlInv' /\ ResultInv' /\ IterInv'
    BY <1>0, <1>1, <1>2, <2>1
    DEF create_waiter, WGoto, ControlInv, ResultInv, Joining, IterInv, wakerVars, blockerVars
  <2> QED
    BY <1>5, <2>3, <2>4, <2>5
<1>3. CASE create_blocker \/ create_waker \/ create_fail
  <2>1. RequeueTypeOK'
    BY <1>0, <1>1, <1>3
    DEF create_blocker, create_waker, create_fail, RequeueTypeOK, MainPC, WakerPC, BlockerPC,
        wakerVars, waiterVars, blockerVars, counters
  <2>2. ControlInv' /\ ResultInv' /\ IterInv' /\ Untallied' = Untallied
    BY <1>0, <1>1, <1>3
    DEF create_blocker, create_waker, create_fail, ControlInv, ResultInv, Joining, IterInv,
        Untallied, wakerVars, waiterVars, blockerVars
  <2>3. UNCHANGED <<counters, wpc>>
    BY <1>3 DEF create_blocker, create_waker, create_fail, waiterVars
  <2>4. task_count \in Nat /\ Untallied \in Nat
    BY ThreadFacts DEF RequeueTypeOK, Untallied, RET_ERROR
  <2>5. task_count' + Untallied' <= task_count + Untallied
    BY <1>1, <2>2, <2>4
  <2>6. CountInv'
    BY <1>1, <2>2, <2>3, <2>4, <2>5, CountsKept
  <2> QED
    BY <1>5, <2>1, <2>2, <2>6
<1>4. CASE join_call \/ join_waiter \/ join_blocker \/ join_waker \/ main_return
  <2>1. UNCHANGED <<opt, counters, waiterVars, wakerVars, blockerVars>>
    BY <1>4 DEF join_call, join_waiter, join_blocker, join_waker, main_return
  <2>2. task_count \in Nat /\ Untallied \in Nat /\ Untallied' = Untallied
    BY <2>1, ThreadFacts DEF RequeueTypeOK, Untallied, wakerVars, RET_ERROR
  <2>3. CountInv'
    <3>1. task_count' + Untallied' <= task_count + Untallied
      BY <1>1, <2>2
    <3> QED
      BY <1>1, <2>1, <2>2, <3>1, CountsKept DEF waiterVars
  <2>4. ResultInv' /\ IterInv'
    BY <2>1 DEF ResultInv, IterInv, wakerVars, waiterVars
  <2>5. CASE join_waiter
    <3>1. /\ i < THREAD_MAX /\ i' = i + 1 /\ i \in Waiters /\ wpc[i] = "exited"
          /\ waiter_ret' \in {i, waiter_ret}
          /\ UNCHANGED <<f2, denied, ret, status>>
          /\ \A w \in Waiters : w < i => wpc[w] = "exited"
          /\ \/ i' < THREAD_MAX /\ mpc' = "join_call"
             \/ i' = THREAD_MAX /\ mpc' = "join_blocker" /\ opt.owner
             \/ i' = THREAD_MAX /\ mpc' = "join_waker"
      BY <1>0, <2>5 DEF join_waiter, ControlInv, Joining
    <3>2. RequeueTypeOK'
      <4>1. i' \in 0 .. THREAD_MAX
        BY <1>0, <3>1
      <4>2. waiter_ret' \in Waiters /\ mpc' \in MainPC
        BY <3>1 DEF RequeueTypeOK, MainPC
      <4>3. UNCHANGED <<opt, waiters_blocked, waiters_woken, f2, denied, wpc, wret, kpc, kret,
                        task_count, iters, bpc, bret, ret, status>>
        BY <2>1, <3>1 DEF counters, wakerVars, waiterVars, blockerVars
      <4> HIDE DEF TypeInv
      <4>4. RequeueTypeOK
        BY DEF TypeInv
      <4> QED
        BY <4>1, <4>2, <4>3, <4>4 DEF RequeueTypeOK
    <3>3. ControlInv'
      BY <1>0, <2>1, <3>1 DEF ControlInv, Joining, wakerVars, waiterVars, blockerVars
    <3> QED
      BY <1>5, <2>3, <2>4, <3>2, <3>3
  <2>6. CASE join_waker
    <3>1. wpc[waiter_ret] = "exited" /\ wret[waiter_ret] \in {0, RET_ERROR}
      BY <2>6, ThreadFacts DEF join_waker, ControlInv, ResultInv, RequeueTypeOK, Joining
    <3>2. ret' \in {RET_PASS, RET_ERROR}
      BY <2>6, <3>1, ThreadFacts DEF join_waker, RequeueTypeOK, RET_PASS, RET_ERROR
    <3>3. RequeueTypeOK' /\ ControlInv'
      BY <2>1, <2>6, <3>2
      DEF join_waker, RequeueTypeOK, ControlInv, Joining, MainPC, counters, wakerVars,
          waiterVars, blockerVars
    <3> QED
      BY <1>5, <2>3, <2>4, <3>3
  <2>7. CASE join_call \/ join_blocker \/ main_return
    <3>1. RequeueTypeOK' /\ ControlInv'
      BY <1>1, <2>1, <2>7
      DEF join_call, join_blocker, main_return, RequeueTypeOK, ControlInv, Joining, MainPC,
          counters, wakerVars, waiterVars, blockerVars, RET_PASS
    <3> QED
      BY <1>5, <2>3, <2>4, <3>1
  <2> QED
    BY <1>4, <2>5, <2>6, <2>7
<1> QED
  BY <1>2, <1>3, <1>4 DEF MainStep

(* Every step keeps the inductive invariant.                               *)
LEMMA TypeInvNext == TypeInv /\ [Next]_vars => TypeInv'
<1> SUFFICES ASSUME TypeInv, [Next]_vars PROVE TypeInv'
  OBVIOUS
<1>1. CASE UNCHANGED vars
  BY <1>1
  DEF vars, TypeInv, RequeueTypeOK, ControlInv, DeniedInv, StatusInv, Running, UsesFrame,
      ResultInv, Joining, CountInv, IterInv, Announced, Woken, NotYet, Untallied, counters, waiterVars, wakerVars, blockerVars,
      mainVars
<1> QED
  BY <1>1, TypeInvWaiter, TypeInvWaker, TypeInvBlocker, TypeInvMain
  DEF Next, KernelStep, Finished

(* In every reachable state the variables have their types, the counters   *)
(* are exact and unit_test and its threads are in step.                    *)
THEOREM TypeInvariant == Spec => []TypeInv
BY TypeInvInit, TypeInvNext, PTL DEF Spec

(* RequeueTypeOK is an invariant: atomic_t counters, task_count and the    *)
(* loop counter stay within their bounds, and unit_test returns one of the *)
(* two codes it may return, whatever was in args[] to begin with.          *)
THEOREM TypeCorrect == Spec => []RequeueTypeOK
<1>1. TypeInv => RequeueTypeOK
  BY DEF TypeInv
<1> QED
  BY <1>1, TypeInvariant, PTL

-----------------------------------------------------------------------------
(* Who owns f2.                                                            *)
Holders == {t \in Threads : Holds(t)}
Queuers == {t \in Threads : Queues(t)}

(* OwnershipExact says that f2 agrees with the threads' positions.         *)
LEMMA OwnershipAgrees ==
  /\ OwnershipExact <=> Agrees(f2, Threads, Holders, Queuers)
  /\ OwnershipExact' <=> Agrees(f2', Threads, Holders', Queuers')
BY DEF OwnershipExact, Agrees, Holders, Queuers, Threads

(* A step that changes nobody's position towards f2 keeps it so.           *)
LEMMA SameRoles ==
  ASSUME OwnershipExact, f2' = f2, Holders' = Holders, Queuers' = Queuers
  PROVE  OwnershipExact'
BY OwnershipAgrees

(* The positions, thread by thread.                                        *)
LEMMA Roles ==
  /\ Holders \subseteq Threads /\ Queuers \subseteq Threads
  /\ \A w \in Waiters : /\ w \in Threads
                        /\ w \in Holders <=> /\ w \notin denied
                                             /\ wpc[w] \in {"woken_ok", "unlock"}
                        /\ w \in Queuers <=> wpc[w] \in {"on_f2", "locking"}
  /\ Waker \in Holders <=> /\ Waker \notin denied /\ opt.locked
                           /\ \/ kpc \in {"requeue", "test", "unlock"}
                              \/ opt.broadcast /\ kpc = "wake"
  /\ Waker \in Queuers <=> kpc = "locking"
  /\ Blocker \in Holders <=> Blocker \notin denied /\ bpc \in {"wait", "waiting", "unlock"}
  /\ Blocker \in Queuers <=> bpc = "locking"
  /\ Waker \in Threads /\ Blocker \in Threads
BY ThreadFacts DEF Holders, Queuers, Holds, Queues, Threads

(* waiterfn() takes f2, gets it by a requeue, gives up on it or unlocks it. *)
LEMMA OwnershipWaiter ==
  ASSUME TypeInv, OwnershipExact, NEW w \in Waiters, WaiterStep(w) \/ waiter_fail(w)
  PROVE  OwnershipExact'
<1>0. /\ f2 \in PiType(Threads) /\ w \in Threads /\ Nobody \notin Threads
      /\ wpc \in [Waiters -> WaiterPC] /\ w # Waker /\ w # Blocker
      /\ Agrees(f2, Threads, Holders, Queuers)
      /\ w \in denied => wpc[w] \in {"unlock", "exited"}
  BY F2Type, ThreadFacts, OwnershipAgrees DEF Threads, TypeInv, RequeueTypeOK, DeniedInv
<1>1. CASE waiter_requeued(w) \/ waiter_locked(w)
  <2>1. /\ f2' = f2 /\ f2.owner = w
        /\ Holders' = Holders \cup {w} /\ Queuers' = Queuers \ {w}
    BY <1>0, <1>1, ThreadFacts
    DEF waiter_requeued, waiter_locked, WGoto, wakerVars, blockerVars, Holders, Queuers,
        Holds, Queues, Threads
  <2> QED
    BY <1>0, <2>1, AcquirePi, OwnershipAgrees
<1>2. CASE waiter_timeout(w)
  <2>1. f2' = pi_dequeue(f2, w) /\ Holders' = Holders /\ Queuers' = Queuers \ {w}
    BY <1>0, <1>2, ThreadFacts
    DEF waiter_timeout, WGoto, wakerVars, blockerVars, Holders, Queuers, Holds, Queues,
        Threads
  <2>2. f2.owner # w
    BY <1>0, <1>2, Roles DEF waiter_timeout, Agrees
  <2> QED
    BY <1>0, <2>1, <2>2, DequeuePi, OwnershipAgrees
<1>3. CASE waiter_lock(w)
  <2>1. \/ /\ f2' = futex_lock_pi(f2, w) /\ w \notin Holders \cup Queuers
           /\ Holders' = Holders /\ Queuers' = Queuers \cup {w}
        \/ f2' = f2 /\ Holders' = Holders /\ Queuers' = Queuers
    BY <1>0, <1>3, ThreadFacts
    DEF waiter_lock, WGoto, wakerVars, blockerVars, Holders, Queuers, Holds, Queues, Threads
  <2> QED
    BY <1>0, <2>1, LockPi, OwnershipAgrees
<1>4. CASE waiter_unlock(w)
  <2>1. /\ f2' \in futex_unlock_pi(f2, w) /\ w \notin Queuers
        /\ Holders' = Holders \ {w} /\ Queuers' = Queuers
    BY <1>0, <1>4, ThreadFacts
    DEF waiter_unlock, WGoto, wakerVars, blockerVars, Holders, Queuers, Holds, Queues,
        Threads
  <2>2. CASE w \in Holders
    BY <1>0, <2>1, <2>2, UnlockPi, OwnershipAgrees
  <2>3. CASE w \notin Holders
    <3>1. f2' = f2
      BY <1>0, <2>1, <2>3, UnlockPi
    <3>2. Holders' = Holders
      BY <2>1, <2>3
    <3> QED
      BY <2>1, <3>1, <3>2, SameRoles
  <2> QED
    BY <2>2, <2>3
<1>5. CASE waiter_run(w) \/ waiter_call(w) \/ waiter_fail(w) \/ waiter_woke(w)
  <2>1. /\ UNCHANGED <<opt, f2, denied, wakerVars, blockerVars>>
        /\ \A u \in Waiters : /\ wpc'[u] \in {"woken_ok", "unlock"}
                                  <=> wpc[u] \in {"woken_ok", "unlock"}
                              /\ wpc'[u] \in {"on_f2", "locking"}
                                  <=> wpc[u] \in {"on_f2", "locking"}
    BY <1>0, <1>5 DEF waiter_run, waiter_call, waiter_fail, waiter_woke, WGoto
  <2>2. Holders' = Holders /\ Queuers' = Queuers
    BY <2>1 DEF wakerVars, blockerVars, Holders, Queuers, Holds, Queues
  <2> QED
    BY <2>1, <2>2, SameRoles
<1> QED
  BY <1>1, <1>2, <1>3, <1>4, <1>5 DEF WaiterStep

(* The wakers requeue, and take and release f2 themselves with -l.         *)
LEMMA OwnershipWaker ==
  ASSUME TypeInv, OwnershipExact, WakerStep
  PROVE  OwnershipExact'
<1>0. /\ f2 \in PiType(Threads) /\ Waker \in Threads /\ Nobody \notin Threads
      /\ Agrees(f2, Threads, Holders, Queuers)
      /\ opt \in [broadcast : BOOLEAN, owner : BOOLEAN, locked : BOOLEAN, timeout : BOOLEAN]
  BY F2Type, ThreadFacts, OwnershipAgrees DEF Threads, TypeInv, RequeueTypeOK
<1>1. CASE waker_locked
  <2>1. /\ f2' = f2 /\ f2.owner = Waker
        /\ Holders' = Holders \cup {Waker} /\ Queuers' = Queuers \ {Waker}
    BY <1>0, <1>1, ThreadFacts
    DEF waker_locked, TypeInv, ControlInv, DeniedInv, waiterVars, blockerVars, Holders,
        Queuers, Holds, Queues, Threads
  <2> QED
    BY <1>0, <2>1, AcquirePi, OwnershipAgrees
<1>2. CASE waker_lock
  <2>1. \/ /\ f2' = futex_lock_pi(f2, Waker) /\ Waker \notin Holders \cup Queuers
           /\ Holders' = Holders /\ Queuers' = Queuers \cup {Waker}
        \/ f2' = f2 /\ Holders' = Holders /\ Queuers' = Queuers
    BY <1>0, <1>2, ThreadFacts
    DEF waker_lock, waiterVars, blockerVars, Holders, Queuers, Holds, Queues, Threads
  <2> QED
    BY <1>0, <2>1, LockPi, OwnershipAgrees
<1>3. CASE waker_unlock
  <2>1. /\ f2' \in futex_unlock_pi(f2, Waker) /\ Waker \notin Queuers
        /\ Holders' = Holders \ {Waker} /\ Queuers' = Queuers
    BY <1>0, <1>3, ThreadFacts
    DEF waker_unlock, TypeInv, ControlInv, waiterVars, blockerVars, Holders, Queuers, Holds,
        Queues, Threads
  <2>2. CASE Waker \in Holders
    BY <1>0, <2>1, <2>2, UnlockPi, OwnershipAgrees
  <2>3. CASE Waker \notin Holders
    <3>1. f2' = f2
      BY <1>0, <2>1, <2>3, UnlockPi
    <3>2. Holders' = Holders
      BY <2>1, <2>3
    <3> QED
      BY <2>1, <3>1, <3>2, SameRoles
  <2> QED
    BY <2>2, <2>3
<1>4. CASE broadcast_requeue \/ signal_requeue
  <2>1. PICK n, r : Requeue(n, r)
    BY <1>4 DEF broadcast_requeue, signal_requeue
  <2>2. PICK m \in futex_cmp_requeue_pi(OnF1, f2, r) :
          /\ f2' = m.pi
          /\ wpc' = [w \in Waiters |-> IF w \in m.moved THEN "on_f2" ELSE wpc[w]]
    BY <2>1 DEF Requeue
  <2>3. m.moved \in SUBSET OnF1
    BY RequeueCases
  <2>4. OnF1 \in SUBSET Threads /\ OnF1 \cap (Holders \cup Queuers) = {}
    BY Roles DEF OnF1
  <2>5. Agrees(m.pi, Threads, Holders, Queuers \cup m.moved)
    BY <1>0, <2>4, RequeuePiKeeps
  <2>6. /\ \A w \in Waiters : wpc'[w] = IF w \in m.moved THEN "on_f2" ELSE wpc[w]
        /\ opt' = opt /\ denied' = denied /\ bpc' = bpc /\ kpc = "requeue"
        /\ kpc' \notin {"none", "lock", "locking"}
        /\ opt.locked => kpc' \in {"test", "unlock"} \/ (opt.broadcast /\ kpc' = "wake")
    BY <1>0, <1>4, <2>2 DEF broadcast_requeue, signal_requeue, blockerVars
  <2>7. Holders' = Holders /\ Queuers' = Queuers \cup m.moved
    BY <2>3, <2>6, ThreadFacts DEF Holders, Queuers, Holds, Queues, Threads, OnF1
  <2> QED
    BY <2>2, <2>5, <2>7, OwnershipAgrees
<1>5. CASE \/ waker_poll \/ broadcast_test \/ signal_loop \/ requeue_fail \/ signal_tally
           \/ waker_exit \/ waker_wake
  <2>1. f2' = f2 /\ Holders' = Holders /\ Queuers' = Queuers
    BY <1>0, <1>5, ThreadFacts
    DEF waker_poll, broadcast_test, signal_loop, requeue_fail, signal_tally, waker_exit,
        waker_wake, StartRequeue, TypeInv, ControlInv, waiterVars, blockerVars,
        Holders, Queuers, Holds, Queues, Threads
  <2> QED
    BY <2>1, SameRoles
<1> QED
  BY <1>1, <1>2, <1>3, <1>4, <1>5 DEF WakerStep

(* The third party takes f2 and lets it go.                                *)
LEMMA OwnershipBlocker ==
  ASSUME TypeInv, OwnershipExact, BlockerStep \/ blocker_fail \/ blocker_spurious
  PROVE  OwnershipExact'
<1>0. /\ f2 \in PiType(Threads) /\ Blocker \in Threads /\ Nobody \notin Threads
      /\ Agrees(f2, Threads, Holders, Queuers) /\ Blocker \notin denied
  BY F2Type, ThreadFacts, OwnershipAgrees DEF Threads, TypeInv, RequeueTypeOK
<1>1. CASE blocker_locked
  <2>1. /\ f2' = f2 /\ f2.owner = Blocker
        /\ Holders' = Holders \cup {Blocker} /\ Queuers' = Queuers \ {Blocker}
    BY <1>0, <1>1, ThreadFacts
    DEF blocker_locked, waiterVars, wakerVars, Holders, Queuers, Holds, Queues, Threads
  <2> QED
    BY <1>0, <2>1, AcquirePi, OwnershipAgrees
<1>2. CASE blocker_lock
  <2>1. \/ /\ f2' = futex_lock_pi(f2, Blocker) /\ Blocker \notin Holders \cup Queuers
           /\ Holders' = Holders /\ Queuers' = Queuers \cup {Blocker}
        \/ f2' = f2 /\ Holders' = Holders /\ Queuers' = Queuers
    BY <1>0, <1>2, ThreadFacts
    DEF blocker_lock, waiterVars, wakerVars, Holders, Queuers, Holds, Queues, Threads
  <2> QED
    BY <1>0, <2>1, LockPi, OwnershipAgrees
<1>3. CASE blocker_unlock
  <2>1. /\ f2' \in futex_unlock_pi(f2, Blocker)
        /\ Blocker \in Holders /\ Blocker \notin Queuers
        /\ Holders' = Holders \ {Blocker} /\ Queuers' = Queuers
    BY <1>0, <1>3, ThreadFacts
    DEF blocker_unlock, waiterVars, wakerVars, Holders, Queuers, Holds, Queues, Threads
  <2> QED
    BY <1>0, <2>1, UnlockPi, OwnershipAgrees
<1>4. CASE blocker_wait \/ blocker_fail \/ blocker_spurious
  <2>1. f2' = f2 /\ Holders' = Holders /\ Queuers' = Queuers
    BY <1>4, ThreadFacts
    DEF blocker_wait, blocker_fail, blocker_spurious, waiterVars, wakerVars, Holders,
        Queuers, Holds, Queues, Threads
  <2> QED
    BY <2>1, SameRoles
<1> QED
  BY <1>1, <1>2, <1>3, <1>4 DEF BlockerStep

(* unit_test() does not touch f2.                                          *)
LEMMA OwnershipMain ==
  ASSUME TypeInv, OwnershipExact, MainStep \/ UNCHANGED vars
  PROVE  OwnershipExact'
<1>1. CASE create_waiter
  <2>1. i \in Waiters /\ wpc[i] = "none" /\ wpc \in [Waiters -> WaiterPC]
    BY <1>1, ThreadFacts DEF create_waiter, TypeInv, ControlInv, RequeueTypeOK
  <2>2. f2' = f2 /\ Holders' = Holders /\ Queuers' = Queuers
    BY <1>1, <2>1, ThreadFacts
    DEF create_waiter, WGoto, wakerVars, blockerVars, Holders, Queuers, Holds, Queues,
        Threads
  <2> QED
    BY <2>2, SameRoles
<1>2. CASE MainStep /\ ~ create_waiter
  <2>1. f2' = f2 /\ Holders' = Holders /\ Queuers' = Queuers
    BY <1>2, ThreadFacts
    DEF MainStep, create_blocker, create_waker, create_fail, join_call, join_waiter,
        join_blocker, join_waker, main_return, TypeInv, ControlInv, waiterVars, wakerVars,
        blockerVars, Holders, Queuers, Holds, Queues, Threads
  <2> QED
    BY <2>1, SameRoles
<1>3. CASE UNCHANGED vars
  <2>1. f2' = f2 /\ Holders' = Holders /\ Queuers' = Queuers
    BY <1>3
    DEF vars, waiterVars, wakerVars, blockerVars, Holders, Queuers, Holds, Queues, Threads
  <2> QED
    BY <2>1, SameRoles
<1> QED
  BY <1>1, <1>2, <1>3

(* OwnershipExact holds for every number of waiters, every command line    *)
(* and every failure: a futex_unlock_pi(&f2) of waiterfn, of a waker or of *)
(* the third party is made by the owner of f2, or, after a futex_lock_pi   *)
(* whose failure went unnoticed, by a thread that does not own it and is   *)
(* refused; and nobody exits owning f2.                                    *)
THEOREM Ownership == Spec => []OwnershipExact
<1>1. Init => OwnershipExact
  BY ThreadFacts
  DEF Init, OwnershipExact, Holds, Queues, PI_INITIALIZER, Threads
<1>2. TypeInv /\ OwnershipExact /\ [Next]_vars => OwnershipExact'
  BY OwnershipWaiter, OwnershipWaker, OwnershipBlocker, OwnershipMain
  DEF Next, KernelStep, Finished
<1> QED
  BY <1>1, <1>2, TypeInvariant, PTL DEF Spec

-----------------------------------------------------------------------------
(* No waiter is left behind.                                               *)
WorkInv == BroadcastInv /\ DoneInv

(* The waiters to be taken, the ones on f2 and the ones that have counted  *)
(* themselves are different waiters.                                       *)
LEMMA ThreeSets ==
  /\ Cardinality(NotYet) \in Nat /\ Cardinality(OnF2) \in Nat /\ Cardinality(Woken) \in Nat
  /\ Cardinality(NotYet) + Cardinality(OnF2) + Cardinality(Woken) <= THREAD_MAX
  /\ Cardinality(NotYet) = 0 => NotYet = {}
<1>1. /\ NotYet \cap OnF2 = {} /\ (NotYet \cup OnF2) \cap Woken = {}
      /\ NotYet \cup OnF2 \in SUBSET Waiters
      /\ (NotYet \cup OnF2) \cup Woken \in SUBSET Waiters
  BY DEF NotYet, OnF2, Woken
<1>2. Cardinality(NotYet \cup OnF2) = Cardinality(NotYet) + Cardinality(OnF2)
  BY <1>1, CountedSets, TwoSets
<1>3. Cardinality((NotYet \cup OnF2) \cup Woken)
        = Cardinality(NotYet \cup OnF2) + Cardinality(Woken)
  BY <1>1, CountedSets, TwoSets
<1>4. Cardinality((NotYet \cup OnF2) \cup Woken) <= THREAD_MAX
  BY <1>1, SetOfWaiters
<1>5. /\ Cardinality(NotYet) \in Nat /\ Cardinality(OnF2) \in Nat
      /\ Cardinality(Woken) \in Nat /\ (Cardinality(NotYet) = 0 => NotYet = {})
  BY CountedSets, SetOfWaiters
<1> QED
  BY <1>2, <1>3, <1>4, <1>5

(* With f2 in the broadcaster's hands and no timeout no waiter leaves f2.  *)
LEMMA WorkInvWaiter ==
  ASSUME TypeInv, OwnershipExact, WorkInv, NEW w \in Waiters, WaiterStep(w) \/ waiter_fail(w)
  PROVE  WorkInv'
<1>0. wpc \in [Waiters -> WaiterPC] /\ w # Waker
  BY ThreadFacts DEF TypeInv, RequeueTypeOK
<1>1. UNCHANGED <<opt, wakerVars>>
  BY DEF WaiterStep, waiter_run, waiter_call, waiter_fail, waiter_requeued, waiter_timeout,
         waiter_woke, waiter_lock, waiter_locked, waiter_unlock
<1>2. NotYet' \subseteq NotYet
  BY <1>0
  DEF WaiterStep, waiter_run, waiter_call, waiter_fail, waiter_requeued, waiter_timeout,
      waiter_woke, waiter_lock, waiter_locked, waiter_unlock, WGoto, NotYet
<1>3. ASSUME kpc \in {"requeue", "test"}, BroadcastLocked PROVE OnF2' = OnF2
  <2>1. f2.owner = Waker /\ ~ opt.timeout
    BY <1>3 DEF OwnershipExact, Holds, BroadcastLocked
  <2> QED
    BY <1>0, <1>3, <2>1
    DEF WaiterStep, waiter_run, waiter_call, waiter_fail, waiter_requeued, waiter_timeout,
        waiter_woke, waiter_lock, waiter_locked, waiter_unlock, WGoto, OnF2
<1>4. Waker \in denied' <=> Waker \in denied
  BY <1>0
  DEF WaiterStep, waiter_run, waiter_call, waiter_fail, waiter_requeued, waiter_timeout,
      waiter_woke, waiter_lock, waiter_locked, waiter_unlock
<1> QED
  BY <1>1, <1>2, <1>3, <1>4
  DEF WorkInv, BroadcastInv, DoneInv, BroadcastLocked, wakerVars

(* The conditions on which the wakers stop.                                *)
LEMMA WorkInvWaker ==
  ASSUME TypeInv, OwnershipExact, WorkInv, WakerStep
  PROVE  WorkInv'
<1>0. /\ THREAD_MAX \in Nat /\ task_count \in Nat /\ kret \in Int
      /\ opt \in [broadcast : BOOLEAN, owner : BOOLEAN, locked : BOOLEAN, timeout : BOOLEAN]
      /\ waiters_woken = Cardinality(Woken)
      /\ Untallied \in Nat /\ task_count + Untallied + Cardinality(NotYet) <= THREAD_MAX
  BY ThreadFacts DEF TypeInv, RequeueTypeOK, CountInv, Untallied, RET_ERROR
<1>1. CASE broadcast_requeue
  <2>1. PICK n \in 0 .. THREAD_MAX :
          /\ Requeue(n, THREAD_MAX)
          /\ \/ task_count' = task_count + n /\ kpc' = "test"
             \/ kret' = RET_ERROR /\ kpc' = "wake"
    BY <1>1 DEF broadcast_requeue
  <2>2. opt' = opt /\ kpc = "requeue" /\ BroadcastLocked' = BroadcastLocked
    BY <1>1 DEF broadcast_requeue, BroadcastLocked
  <2>3. Cardinality(OnF2') = Cardinality(OnF2) + n
    BY <2>1, RequeueMoves DEF TypeInv
  <2>4. Cardinality(OnF2) \in Nat
    BY ThreeSets
  <2> QED
    BY <1>0, <2>1, <2>2, <2>3, <2>4 DEF WorkInv, BroadcastInv, DoneInv, RET_ERROR
<1>2. CASE broadcast_test
  <2>1. /\ NotYet' = NotYet /\ OnF2' = OnF2 /\ UNCHANGED <<opt, kret, task_count>>
        /\ kpc = "test" /\ opt.broadcast /\ BroadcastLocked' = BroadcastLocked
    BY <1>2, SameWaiters DEF broadcast_test, waiterVars, TypeInv, ControlInv, BroadcastLocked
  <2>2. ASSUME kpc' = "wake", BroadcastLocked PROVE NotYet = {}
    <3>1. task_count >= THREAD_MAX - Cardinality(Woken) /\ task_count <= Cardinality(OnF2)
      BY <1>0, <1>2, <2>1, <2>2, ThreeSets DEF broadcast_test, WorkInv, BroadcastInv
    <3>2. Cardinality(NotYet) = 0
      BY <1>0, <3>1, ThreeSets
    <3> QED
      BY <3>2, ThreeSets
  <2> QED
    BY <1>2, <2>1, <2>2 DEF broadcast_test, WorkInv, BroadcastInv, DoneInv
<1>3. CASE signal_loop
  <2>1. NotYet' = NotYet /\ UNCHANGED <<opt, kret, task_count>> /\ ~ opt.broadcast
    BY <1>3, SameWaiters DEF signal_loop, waiterVars, TypeInv, ControlInv
  <2>2. ASSUME kpc' = "wake" PROVE NotYet = {}
    <3>1. task_count >= THREAD_MAX \/ Cardinality(Woken) >= THREAD_MAX
      BY <1>0, <1>3, <2>2, ThreeSets DEF signal_loop, StartRequeue
    <3>2. Cardinality(NotYet) = 0
      BY <1>0, <3>1, ThreeSets
    <3> QED
      BY <3>2, ThreeSets
  <2> QED
    BY <1>3, <2>1, <2>2
    DEF signal_loop, StartRequeue, WorkInv, BroadcastInv, DoneInv
<1>4. CASE signal_requeue
  BY <1>4 DEF signal_requeue, WorkInv, BroadcastInv, DoneInv
<1>5. CASE requeue_fail \/ signal_tally
  BY <1>0, <1>5
  DEF requeue_fail, signal_tally, TypeInv, ControlInv, WorkInv, BroadcastInv, DoneInv,
      BroadcastLocked, RET_ERROR
<1>6. CASE waker_poll \/ waker_lock \/ waker_locked
  <2>1. task_count' = task_count /\ opt' = opt /\ kret' = kret
    BY <1>6 DEF waker_poll, waker_lock, waker_locked
  <2>2. kpc' \in {"lock", "locking", "loop", "requeue"}
        /\ kpc \in {"poll", "lock", "locking"}
    BY <1>6 DEF waker_poll, waker_lock, waker_locked, StartRequeue
  <2>3. Cardinality(OnF2') \in Nat
    BY CountedSets, SetOfWaiters
  <2> QED
    BY <2>1, <2>2, <2>3 DEF WorkInv, BroadcastInv, DoneInv
<1>7. CASE waker_wake \/ waker_unlock \/ waker_exit
  <2>1. /\ NotYet' = NotYet /\ opt' = opt /\ task_count' = task_count
        /\ BroadcastLocked' = BroadcastLocked
    BY <1>7, SameWaiters DEF waker_wake, waker_unlock, waker_exit, waiterVars, BroadcastLocked
  <2> QED
    BY <1>0, <1>7, <2>1
    DEF waker_wake, waker_unlock, waker_exit, WorkInv, BroadcastInv, DoneInv
<1> QED
  BY <1>1, <1>2, <1>3, <1>4, <1>5, <1>6, <1>7 DEF WakerStep

(* The other threads do not interfere.                                     *)
LEMMA WorkInvOther ==
  ASSUME TypeInv, WorkInv,
         BlockerStep \/ blocker_fail \/ blocker_spurious \/ MainStep \/ UNCHANGED vars
  PROVE  WorkInv'
<1>1. CASE create_waiter
  <2>1. kpc = "none" /\ UNCHANGED <<opt, wakerVars>>
    BY <1>1 DEF create_waiter, TypeInv, ControlInv
  <2> QED
    BY <2>1 DEF wakerVars, WorkInv, BroadcastInv, DoneInv
<1>2. CASE create_waker
  BY <1>2
  DEF create_waker, TypeInv, ControlInv, WorkInv, BroadcastInv, DoneInv
<1>3. CASE ~ create_waiter /\ ~ create_waker
  <2>1. UNCHANGED <<opt, denied, wpc, wakerVars>>
    BY <1>3
    DEF BlockerStep, blocker_lock, blocker_locked, blocker_wait, blocker_unlock,
        blocker_fail, blocker_spurious, MainStep, create_blocker, create_fail, join_call,
        join_waiter, join_blocker, join_waker, main_return, vars, waiterVars
  <2>2. NotYet' = NotYet /\ OnF2' = OnF2
    BY <2>1, SameWaiters
  <2> QED
    BY <2>1, <2>2 DEF wakerVars, WorkInv, BroadcastInv, DoneInv, BroadcastLocked
<1> QED
  BY <1>1, <1>2, <1>3

(* NoWaiterLeftBehind holds for every number of waiters: the signaller,    *)
(* and the broadcaster with -l and without -t whose futex_lock_pi worked,  *)
(* end without an error only when no waiter is left on f1 or on its way    *)
(* there.                                                                  *)
THEOREM NobodyLeftBehind == Spec => []NoWaiterLeftBehind
<1>1. Init => WorkInv
  BY DEF Init, WorkInv, BroadcastInv, DoneInv
<1>2. TypeInv /\ OwnershipExact /\ WorkInv /\ [Next]_vars => WorkInv'
  BY WorkInvWaiter, WorkInvWaker, WorkInvOther DEF Next, KernelStep, Finished
<1>3. WorkInv => NoWaiterLeftBehind
  BY DEF WorkInv, DoneInv, NoWaiterLeftBehind
<1> QED
  BY <1>1, <1>2, <1>3, TypeInvariant, Ownership, PTL DEF Spec

-----------------------------------------------------------------------------
(* The joins and the verdict.                                              *)

(* While a thread runs that unit_test() has not joined, unit_test() has    *)
(* not returned, or has returned an error without a waker, and neither the *)
(* thread's step nor anything it writes can make a difference to that.     *)
LEMMA LostFrame ==
  ASSUME TypeInv, ReturnInv, Running, UsesFrame, UNCHANGED <<mpc, ret, status>>,
         kpc = "none" => kpc' = "none"
  PROVE  FrameOutlivesThreads' /\ VerdictSound'
<1>1. status # <<0>> /\ status' = status
  BY DEF Running
<1>2. CASE ~ Returned
  BY <1>1, <1>2 DEF FrameOutlivesThreads, VerdictSound, Returned
<1>3. CASE Returned
  <2>1. -1 \in create_rt_thread /\ kpc = "none" /\ ret = RET_ERROR
    BY <1>3 DEF ReturnInv, FrameOutlivesThreads
  <2> QED
    BY <1>1, <2>1
    DEF FrameOutlivesThreads, VerdictSound, Returned, AllWell, Running, create_rt_thread,
        RET_PASS, RET_ERROR
<1> QED
  BY <1>2, <1>3

(* A waiter that has been joined does not move any more.                   *)
LEMMA ReturnInvWaiter ==
  ASSUME TypeInv, ReturnInv, Running, NEW w \in Waiters, WaiterStep(w) \/ waiter_fail(w)
  PROVE  ReturnInv'
<1>0. /\ wpc \in [Waiters -> WaiterPC] /\ wret \in [Waiters -> {RET_ERROR} \cup Garbage]
      /\ waiter_ret \in Waiters /\ Waiters \subseteq Nat
  BY ThreadFacts DEF TypeInv, RequeueTypeOK
<1>1. /\ UNCHANGED <<opt, wakerVars, blockerVars, mainVars>>
      /\ wpc[w] \notin {"none", "exited"}
      /\ \A u \in Waiters \ {w} : wpc'[u] = wpc[u] /\ wret'[u] = wret[u]
  BY <1>0
  DEF WaiterStep, waiter_run, waiter_call, waiter_fail, waiter_requeued, waiter_timeout,
      waiter_woke, waiter_lock, waiter_locked, waiter_unlock, WGoto
<1>2. JoinInv'
  <2>1. Joining => ~ (w < i)
    BY <1>1 DEF TypeInv, ControlInv
  <2>2. \A u \in Waiters : Joining /\ u < i => wret'[u] = wret[u]
    BY <1>1, <2>1
  <2>3. Joining /\ i > 0 => wret'[waiter_ret] = wret[waiter_ret]
    BY <1>0, <2>2 DEF ReturnInv, JoinInv
  <2> QED
    BY <1>1, <2>2, <2>3
    DEF ReturnInv, JoinInv, Joining, wakerVars, blockerVars, mainVars
<1>3. UsesFrame
  BY <1>1 DEF UsesFrame
<1>4. FrameOutlivesThreads' /\ VerdictSound'
  BY <1>1, <1>3, LostFrame DEF wakerVars, mainVars
<1> QED
  BY <1>2, <1>4 DEF ReturnInv

(* Neither do the waker and the third party, once they have been joined.   *)
LEMMA ReturnInvHelpers ==
  ASSUME TypeInv, ReturnInv, Running,
         WakerStep \/ BlockerStep \/ blocker_fail \/ blocker_spurious
  PROVE  ReturnInv'
<1>1. /\ UNCHANGED <<opt, wret, mainVars>>
      /\ kpc' = "none" <=> kpc = "none"
      /\ bpc = "exited" => bpc' = "exited"
  BY DEF WakerStep, waker_poll, waker_lock, waker_locked, broadcast_requeue, broadcast_test,
         signal_loop, signal_requeue, requeue_fail, signal_tally, waker_wake, waker_unlock,
         waker_exit, StartRequeue, BlockerStep, blocker_lock, blocker_locked, blocker_wait,
         blocker_unlock, blocker_fail, blocker_spurious, waiterVars, wakerVars, blockerVars
<1>2. JoinInv'
  BY <1>1 DEF ReturnInv, JoinInv, Joining, mainVars
<1>3. UsesFrame
  BY DEF WakerStep, waker_poll, waker_lock, waker_locked, broadcast_requeue, broadcast_test,
         signal_loop, signal_requeue, requeue_fail, signal_tally, waker_wake, waker_unlock,
         waker_exit, BlockerStep, blocker_lock, blocker_locked, blocker_wait,
         blocker_unlock, blocker_fail, blocker_spurious, UsesFrame
<1> QED
  BY <1>1, <1>2, <1>3, LostFrame DEF mainVars, ReturnInv

(* unit_test() joins its threads one after the other.                      *)
LEMMA ReturnInvMain ==
  ASSUME TypeInv, ReturnInv, MainStep
  PROVE  ReturnInv'
<1>0. /\ THREAD_MAX \in Nat /\ THREAD_MAX >= 1 /\ i \in Nat /\ Waiters \subseteq Nat
      /\ \A w \in Waiters : w < THREAD_MAX
      /\ 0 \in Waiters /\ waiter_ret \in Waiters
  <2>1. i \in 0 .. THREAD_MAX /\ waiter_ret \in Waiters
    BY DEF TypeInv, RequeueTypeOK
  <2> QED
    BY <2>1, ThreadFacts
<1>9. status = <<>> /\ status # <<0>>
  BY DEF MainStep, create_blocker, create_waiter, create_waker, create_fail, join_call,
         join_waiter, join_blocker, join_waker, main_return, TypeInv, StatusInv, Running
<1>1. CASE create_blocker \/ create_waiter \/ create_fail
  <2>1. /\ kpc' = "none" /\ status' = status
        /\ mpc' \in {"create_blocker", "create", "create_waker"}
             \/ (mpc' = "returned" /\ ret' = RET_ERROR /\ -1 \in create_rt_thread)
    BY <1>1 DEF create_blocker, create_waiter, create_fail, TypeInv, ControlInv, wakerVars
  <2> QED
    BY <1>9, <2>1
    DEF ReturnInv, JoinInv, Joining, FrameOutlivesThreads, VerdictSound, Returned, AllWell,
        create_rt_thread, RET_PASS, RET_ERROR
<1>2. CASE create_waker
  BY <1>0, <1>2, <1>9
  DEF create_waker, ReturnInv, JoinInv, Joining, FrameOutlivesThreads, VerdictSound, Returned
<1>3. CASE join_call
  BY <1>0, <1>3, <1>9
  DEF join_call, ReturnInv, JoinInv, Joining, FrameOutlivesThreads, VerdictSound, Returned,
      waiterVars, wakerVars, blockerVars
<1>4. CASE join_waiter
  <2>1. /\ mpc \in {"join_null", "join_store"} /\ i < THREAD_MAX /\ i' = i + 1
        /\ waiter_ret' = IF mpc = "join_store" THEN i ELSE waiter_ret
        /\ wret' = wret /\ opt' = opt /\ bpc' = bpc /\ kpc' = kpc /\ kpc # "none"
        /\ mpc' \in {"join_call", "join_blocker", "join_waker"}
        /\ mpc' = "join_waker" => ~ opt.owner
        /\ status' = status
    BY <1>0, <1>4
    DEF join_waiter, TypeInv, ControlInv, ReturnInv, JoinInv, Joining, waiterVars, wakerVars,
        blockerVars
  <2>2. /\ i' > 0 /\ waiter_ret' < i'
    BY <1>0, <2>1 DEF ReturnInv, JoinInv, Joining
  <2>3. ASSUME wret[waiter_ret'] = 0, NEW w \in Waiters, w < i' PROVE wret[w] = 0
    <3>1. CASE i = 0
      BY <1>0, <2>1, <2>3, <3>1 DEF ReturnInv, JoinInv, Joining
    <3>2. CASE i > 0
      BY <1>0, <2>1, <2>3, <3>2 DEF ReturnInv, JoinInv, Joining
    <3> QED
      BY <1>0, <3>1, <3>2
  <2> QED
    BY <1>0, <1>9, <2>1, <2>2, <2>3
    DEF ReturnInv, JoinInv, Joining, FrameOutlivesThreads, VerdictSound, Returned
<1>5. CASE join_blocker
  BY <1>0, <1>5, <1>9
  DEF join_blocker, ReturnInv, JoinInv, Joining, FrameOutlivesThreads, VerdictSound, Returned,
      waiterVars, wakerVars, blockerVars
<1>6. CASE join_waker
  <2>1. /\ i = THREAD_MAX /\ kpc = "exited" /\ mpc' = "returned"
        /\ UNCHANGED <<opt, waiterVars, wakerVars, blockerVars>>
        /\ \A w \in Waiters : wpc[w] = "exited" /\ wret[w] \in {0, RET_ERROR}
        /\ bpc \in {"none", "exited"}
    BY <1>0, <1>6
    DEF join_waker, TypeInv, ControlInv, ResultInv, ReturnInv, JoinInv, Joining
  <2>2. FrameOutlivesThreads'
    BY <2>1 DEF FrameOutlivesThreads, UsesFrame, waiterVars, wakerVars, blockerVars
  <2>3. wret[waiter_ret] = 0 => \A w \in Waiters : wret[w] = 0
    BY <1>0, <1>6, <2>1 DEF join_waker, ReturnInv, JoinInv, Joining
  <2>4. kret \in Int /\ kret >= -1 /\ bret \in {0, RET_ERROR}
    BY ThreadFacts DEF TypeInv, RequeueTypeOK, RET_ERROR
  <2>5. VerdictSound'
    BY <1>0, <1>6, <1>9, <2>1, <2>3, <2>4
    DEF join_waker, VerdictSound, AllWell, RET_PASS, RET_ERROR, waiterVars, wakerVars,
        blockerVars
  <2> QED
    BY <2>1, <2>2, <2>5 DEF ReturnInv, JoinInv, Joining
<1>7. CASE main_return
  <2>1. /\ UNCHANGED <<wpc, wret, kpc, kret, bpc, bret, ret>>
        /\ mpc = "returned" /\ mpc' = "exited" /\ status' = <<ret>>
    BY <1>7 DEF main_return, waiterVars, wakerVars, blockerVars
  <2>2. status' = <<0>> => ret = 0
    BY <2>1
  <2>3. UsesFrame' = UsesFrame /\ AllWell' = AllWell
    BY <2>1 DEF UsesFrame, AllWell
  <2> QED
    BY <2>1, <2>2, <2>3
    DEF ReturnInv, JoinInv, Joining, FrameOutlivesThreads, VerdictSound, Returned,
        create_rt_thread, RET_PASS
<1> QED
  BY <1>1, <1>2, <1>3, <1>4, <1>5, <1>6, <1>7 DEF MainStep

(* What the joins and the verdict rest on is invariant.                    *)
THEOREM JoinsInOrder == Spec => []ReturnInv
<1>1. Init => ReturnInv
  <2> SUFFICES ASSUME Init PROVE ReturnInv
    OBVIOUS
  <2>1. mpc \in {"usage", "create_blocker", "create"} /\ (status # <<>> => mpc = "usage")
    BY DEF Init
  <2>2. <<0>> # <<>>
    OBVIOUS
  <2> QED
    BY <2>1, <2>2
    DEF ReturnInv, JoinInv, Joining, FrameOutlivesThreads, VerdictSound, Returned
<1>2. ReturnInv /\ UNCHANGED vars => ReturnInv'
  BY DEF vars, ReturnInv, JoinInv, Joining, FrameOutlivesThreads, VerdictSound, Returned,
      UsesFrame, AllWell, create_rt_thread, waiterVars, wakerVars, blockerVars, mainVars
<1>3. TypeInv /\ ReturnInv /\ [Next]_vars => ReturnInv'
  BY <1>2, ReturnInvWaiter, ReturnInvHelpers, ReturnInvMain
  DEF Next, WaiterStep, WakerStep, BlockerStep, KernelStep, Finished
<1> QED
  BY <1>1, <1>3, TypeInvariant, PTL DEF Spec

(* FrameOutlivesThreads, for every number of waiters: unit_test returns    *)
(* while a thread still holds a pointer into its frame only after a        *)
(* create_rt_thread has failed; there is no waker then, and the program    *)
(* reports and returns an error whatever those threads write.              *)
THEOREM FrameOutlives == Spec => []FrameOutlivesThreads
<1>1. ReturnInv => FrameOutlivesThreads
  BY DEF ReturnInv
<1> QED
  BY <1>1, JoinsInOrder, PTL

(* VerdictSound: unit_test reports an error exactly if a thread could not  *)
(* be created or ended in one, for every content args[] may have had, and  *)
(* the program exits with 0 only if none did or it was asked for help.     *)
THEOREM Verdict == Spec => []VerdictSound
<1>1. ReturnInv => VerdictSound
  BY DEF ReturnInv
<1> QED
  BY <1>1, JoinsInOrder, PTL

=============================================================================

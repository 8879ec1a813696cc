----------------------------- MODULE WaitReturn -----------------------------
(***************************************************************************)
(* functional/futex_wait_timeout.c and functional/futex_wait_wouldblock.c: *)
(* one FUTEX_WAIT on a word nobody else knows of, which must return with   *)
(* ETIMEDOUT in the one, and with EWOULDBLOCK, because the value expected  *)
(* is f1 + 1, in the other.                                                *)
(***************************************************************************)
EXTENDS TestMain, Futex

CONSTANT NSEC   \* nanoseconds in a second

EWOULDBLOCK == 11
EINVAL == 22
ETIMEDOUT == 110
Errnos == {EWOULDBLOCK, EINVAL, ETIMEDOUT}

VARIABLES prog,           \* which of the two programs it is
          timeout_ns,
          res, errno,     \* what futex_wait returned; errno is 0 until then
          ret, pc

vars == <<prog, timeout_ns, res, errno, ret, pc, io>>

(* The options of main(): the timeout program takes -t as well; the other  *)
(* one lets getopt accept it, but meets it with usage().                   *)
timeout_options(argv) == getopt({"c", "h", "t", "v"}, argv)
wouldblock_options(argv) == getopt({"c", "h", "v"}, argv)

Init ==
  /\ prog \in {"timeout", "wouldblock"}
  /\ \E argv \in Commands :
       LET o == IF prog = "timeout" THEN timeout_options(argv)
                                    ELSE wouldblock_options(argv)
       IN  MainInit(o) /\ timeout_ns = o.timeout_ns
  /\ begun = Running
  /\ res = 0 /\ errno = 0
  /\ ret = RET_PASS
  /\ pc = IF Running THEN "call" ELSE "exited"

(* What the kernel does with a wait for val on a word that is 0, given     *)
(* to = {0, timeout_ns}: it refuses a tv_nsec that is not below one        *)
(* second, and looks at the word next.                                     *)
WaitErrno(val) ==
  CASE timeout_ns \notin 0 .. NSEC - 1 -> EINVAL
    [] timeout_ns \in 0 .. NSEC - 1 /\ ~ futex_wait_blocks(FUTEX_INITIALIZER, val) -> EWOULDBLOCK
    [] OTHER -> ETIMEDOUT

FutexWait(val) ==
  /\ pc = "call"
  /\ \/ res' = -1 /\ errno' = WaitErrno(val)
     \/ "kernel" \in MayFail /\ res' = -1 /\ errno' \in Errnos
     \/ "kernel" \in MayFail /\ res' = 0 /\ errno' = errno
  /\ pc' = "check"
  /\ UNCHANGED <<prog, timeout_ns, ret, io>>

timeout_call == prog = "timeout" /\ FutexWait(FUTEX_INITIALIZER)
wouldblock_call == prog = "wouldblock" /\ FutexWait(FUTEX_INITIALIZER + 1)

(* if (!res || errno != expected)                                          *)
Check(expected) ==
  /\ pc = "check"
  /\ \/ /\ res = 0 \/ errno # expected
        /\ ret' = RET_FAIL /\ Say("FAIL")
     \/ /\ res # 0 /\ errno = expected
        /\ UNCHANGED <<ret, io>>
  /\ pc' = "print"
  /\ UNCHANGED <<prog, timeout_ns, res, errno>>

timeout_check == prog = "timeout" /\ Check(ETIMEDOUT)
wouldblock_check == prog = "wouldblock" /\ Check(EWOULDBLOCK)

print ==
  /\ pc = "print"
  /\ Report(ret)
  /\ pc' = "return"
  /\ UNCHANGED <<prog, timeout_ns, res, errno, ret>>

return ==
  /\ pc = "return"
  /\ Exit(ret)
  /\ pc' = "exited"
  /\ UNCHANGED <<prog, timeout_ns, res, errno, ret>>

Next ==
  \/ timeout_call \/ wouldblock_call \/ timeout_check \/ wouldblock_check
  \/ print \/ return

Spec == Init /\ [][Next]_vars

-----------------------------------------------------------------------------
WaitTypeOK ==
  /\ TestTypeOK
  /\ prog \in {"timeout", "wouldblock"} /\ timeout_ns \in Int
  /\ res \in {-1, 0} /\ errno \in Errnos \cup {0}
  /\ ret \in {RET_PASS, RET_FAIL}
  /\ pc \in {"call", "check", "print", "return", "exited"}

Expected == IF prog = "timeout" THEN ETIMEDOUT ELSE EWOULDBLOCK

(* A kernel is passed exactly if the call returned an error and that error *)
(* is the one the test is about.                                           *)
VerdictExact ==
  printed # <<>> => (printed = <<"PASS">> <=> res = -1 /\ errno = Expected)

=============================================================================

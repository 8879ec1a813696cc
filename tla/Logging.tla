------------------------------ MODULE Logging -------------------------------
(* include/logging.h: the return codes of the functional tests, the name   *)
(* print_result() gives them, and which messages a verbosity lets through. *)
(* Colours and the wording of messages are not modelled.                   *)
EXTENDS Integers

RET_PASS == 0
RET_ERROR == -1
RET_FAIL == -2

VQUIET == 0
VCRITICAL == 1
VINFO == 2
VMAX == VINFO

(* What _verbose becomes.                                                  *)
log_verbosity(level) ==
  CASE level > VMAX -> VMAX
    [] level < 0 -> 0
    [] OTHER -> level

(* Whether error() and fail() write their message.                         *)
Shown(_verbose) == _verbose >= VCRITICAL

print_result(ret) ==
  CASE ret = RET_PASS -> "PASS"
    [] ret = RET_ERROR -> "ERROR"
    [] ret = RET_FAIL -> "FAIL"
    [] OTHER -> "Unknown return code"

=============================================================================

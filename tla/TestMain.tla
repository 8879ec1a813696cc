------------------------------ MODULE TestMain ------------------------------
(***************************************************************************)
(* What the small functional tests have in common: the getopt loop at the  *)
(* start of main(), the result line and the exit.                          *)
(***************************************************************************)
EXTENDS Logging, Sequences, FiniteSetsExt

CONSTANTS Commands,   \* the command lines to consider
          MayFail     \* what may go wrong

ASSUME FailAssumption ==
  MayFail \subseteq {"sigaction", "mmap", "create", "wait", "requeue", "wake",
                     "lock", "detection", "zero_page", "kernel"}

(* An option's argument is what atoi() has made of it.                     *)
ASSUME CommandAssumption ==
  \A argv \in Commands : argv \in Seq([opt : STRING, arg : Int])

VARIABLES printed,    \* the result lines on stdout
          said,       \* the kinds of messages, ERROR or FAIL, on stderr
          status,     \* <<>> while the program runs, <<code>> once it has exited
          begun,      \* history: main() has got all it needs for the test
          _verbose

io == <<printed, said, status, begun, _verbose>>

Protocol == INSTANCE TestProtocol

Running == status = <<>>

(* An option with its argument (0 if it takes none).                       *)
Opt(c, n) == [opt |-> c, arg |-> n]

(* while ((c = getopt(argc, argv, "ch...v:")) != -1).  The loop ends the   *)
(* program at the first -h, or with usage() and exit(1) at the first       *)
(* option that is not in `handled'; of -v and -t the last one before that  *)
(* counts.                                                                 *)
getopt(handled, argv) ==
  LET Stops == {k \in DOMAIN argv : argv[k].opt \notin handled \ {"h"}}
      Met(c) == {k \in DOMAIN argv : argv[k].opt = c /\ \A j \in Stops : k < j}
      LastArg(c, default) == IF Met(c) = {} THEN default ELSE argv[Max(Met(c))].arg
  IN  [verbose |-> log_verbosity(LastArg("v", VCRITICAL)),
       timeout_ns |-> LastArg("t", 1),
       exit |-> CASE Stops = {} -> <<>>
                  [] Stops # {} /\ argv[Min(Stops)].opt = "h" -> <<0>>
                  [] OTHER -> <<1>>]

(* Where main() stands after the loop: at work, or gone.                   *)
MainInit(o) ==
  /\ printed = <<>> /\ said = {}
  /\ status = o.exit
  /\ _verbose = o.verbose

(* The common settings, for the tests whose only options are -c, -h, -v.   *)
PlainInit == \E argv \in Commands : MainInit(getopt({"c", "h", "v"}, argv))

(* error() and fail(); print_result(); the return from main(), or exit().  *)
Say(kind) ==
  /\ said' = IF Shown(_verbose) THEN said \cup {kind} ELSE said
  /\ UNCHANGED <<printed, status, begun, _verbose>>

Report(ret) ==
  /\ printed' = Append(printed, print_result(ret))
  /\ UNCHANGED <<said, status, begun, _verbose>>

Exit(code) ==
  /\ status' = <<code>>
  /\ UNCHANGED <<printed, said, begun, _verbose>>

(* A call that main() needs before it can test anything: it succeeds, or   *)
(* main() says why and exits.                                              *)
Prepared == begun' = TRUE /\ UNCHANGED <<printed, said, status, _verbose>>

Unprepared ==
  /\ said' = IF Shown(_verbose) THEN said \cup {"ERROR"} ELSE said
  /\ status' = <<1>>
  /\ UNCHANGED <<printed, begun, _verbose>>

-----------------------------------------------------------------------------
TestTypeOK ==
  /\ printed \in Seq({"PASS", "ERROR", "FAIL"}) /\ said \subseteq {"ERROR", "FAIL"}
  /\ begun \in BOOLEAN /\ _verbose \in VQUIET .. VMAX

(* The output is that of a functional test: one of three results, printed  *)
(* once, and the matching exit status; and no exit without a result once   *)
(* main() has got all it needs.                                            *)
ImplementsTestProtocol == Protocol!Spec

(* The messages on stderr agree with the result: a test that has printed   *)
(* PASS has said nothing of an error or a failure, and one that has        *)
(* printed something else has said why, unless it was told to be quiet.    *)
MessagesMatchResult ==
  /\ printed = <<"PASS">> => said = {}
  /\ printed = <<"ERROR">> /\ Shown(_verbose) => "ERROR" \in said
  /\ printed = <<"FAIL">> /\ Shown(_verbose) => "FAIL" \in said

=============================================================================

--------------------------- MODULE TestMainProofs ---------------------------
(***************************************************************************)
(* What the option loop of the functional tests leaves behind, for every   *)
(* command line, and how their output steps relate to TestProtocol: the    *)
(* lemmas the proofs about the single programs share.                      *)
(***************************************************************************)
EXTENDS TestMain, WellFoundedInduction, TLAPS

(* A set of numbers that is not empty has a least member ...               *)
LEMMA LeastExists ==
  ASSUME NEW T \in SUBSET Nat, T # {}
  PROVE  \E x \in T : \A y \in T : x <= y
<1>1. PICK x \in T : \A y \in T : ~ (<<y, x>> \in OpToRel(<, Nat))
  BY NatLessThanWellFounded, WFMin
<1>2. \A y \in T : ~ (y < x)
  BY <1>1 DEF OpToRel
<1> QED
  BY <1>2

(* ... and a set of positions in a command line a greatest one.            *)
LEMMA MaxIsMember ==
  ASSUME NEW n \in Nat, NEW S \in SUBSET (1 .. n), S # {}
  PROVE  Max(S) \in S
<1> DEFINE T == {m \in Nat : \E k \in S : m = n - k}
<1>1. PICK j \in S : TRUE
  OBVIOUS
<1>2. n - j \in T
  BY <1>1
<1> HIDE DEF T
<1>3. PICK x \in T : \A y \in T : x <= y
  BY <1>2, LeastExists DEF T
<1>4. PICK k \in S : x = n - k
  BY DEF T
<1>5. ASSUME NEW l \in S PROVE k >= l
  <2>1. n - l \in T
    BY DEF T
  <2>2. n - k <= n - l
    BY <1>3, <1>4, <2>1
  <2> QED
    BY <2>2
<1> QED
  BY <1>5 DEF Max

Settings == [verbose : VQUIET .. VMAX, timeout_ns : Int, exit : {<<>>, <<0>>, <<1>>}]

(* Whatever the command line, the verbosity is one that logging.h knows,   *)
(* and the program is at work or has exited with 0 or 1.                   *)
LEMMA GetoptType ==
  ASSUME NEW handled, NEW argv \in Commands
  PROVE  getopt(handled, argv) \in Settings
<1> DEFINE Stops == {k \in DOMAIN argv : argv[k].opt \notin handled \ {"h"}}
           Met(c) == {k \in DOMAIN argv : argv[k].opt = c /\ \A j \in Stops : k < j}
           LastArg(c, default) == IF Met(c) = {} THEN default ELSE argv[Max(Met(c))].arg
           Left == CASE Stops = {} -> <<>>
                     [] Stops # {} /\ argv[Min(Stops)].opt = "h" -> <<0>>
                     [] OTHER -> <<1>>
<1>1. argv \in Seq([opt : STRING, arg : Int])
  BY CommandAssumption
<1>2. /\ Len(argv) \in Nat /\ DOMAIN argv = 1 .. Len(argv)
      /\ \A k \in DOMAIN argv : argv[k].arg \in Int
  <2> DEFINE O == [opt : STRING, arg : Int]
  <2>1. \A a \in O : a.arg \in Int
    OBVIOUS
  <2> HIDE DEF O
  <2>2. argv \in Seq(O)
    BY <1>1 DEF O
  <2>3. /\ Len(argv) \in Nat /\ DOMAIN argv = 1 .. Len(argv)
        /\ \A k \in 1 .. Len(argv) : argv[k] \in O
    BY <2>2
  <2> QED
    BY <2>1, <2>3
<1>3. ASSUME NEW c, NEW default \in Int PROVE LastArg(c, default) \in Int
  <2>1. CASE Met(c) = {}
    BY <2>1
  <2>2. CASE Met(c) # {}
    <3>1. Met(c) \in SUBSET (1 .. Len(argv))
      BY <1>2
    <3> HIDE DEF Met
    <3>2. Max(Met(c)) \in 1 .. Len(argv)
      BY <1>2, <2>2, <3>1, MaxIsMember
    <3>3. argv[Max(Met(c))].arg \in Int
      BY <1>2, <3>2
    <3> QED
      BY <2>2, <3>3
  <2> QED
    BY <2>1, <2>2
<1>4. Left \in {<<>>, <<0>>, <<1>>}
  OBVIOUS
<1> HIDE DEF Stops, Met, LastArg, Left
<1>5. LastArg("v", VCRITICAL) \in Int /\ LastArg("t", 1) \in Int
  BY <1>3 DEF VCRITICAL
<1>6. log_verbosity(LastArg("v", VCRITICAL)) \in VQUIET .. VMAX
  BY <1>5 DEF log_verbosity, VQUIET, VMAX, VINFO
<1>7. getopt(handled, argv) = [verbose |-> log_verbosity(LastArg("v", VCRITICAL)),
                               timeout_ns |-> LastArg("t", 1), exit |-> Left]
  BY DEF getopt, Stops, Met, LastArg, Left
<1> QED
  BY <1>4, <1>5, <1>6, <1>7 DEF Settings

(* The name of a result identifies it.                                     *)
LEMMA ResultNames ==
  ASSUME NEW r \in {RET_PASS, RET_ERROR, RET_FAIL}
  PROVE  /\ <<print_result(r)>> \in Seq({"PASS", "ERROR", "FAIL"})
         /\ <<print_result(r)>> = <<"PASS">> <=> r = RET_PASS
         /\ <<print_result(r)>> = <<"ERROR">> <=> r = RET_ERROR
         /\ <<print_result(r)>> = <<"FAIL">> <=> r = RET_FAIL
         /\ <<print_result(r)>> # <<>>
         /\ Append(<<>>, print_result(r)) = <<print_result(r)>>
<1> DEFINE p == print_result(r)
<1>1. /\ p \in {"PASS", "ERROR", "FAIL"}
      /\ (p = "PASS" <=> r = RET_PASS) /\ (p = "ERROR" <=> r = RET_ERROR)
      /\ (p = "FAIL" <=> r = RET_FAIL)
  BY DEF print_result, RET_PASS, RET_ERROR, RET_FAIL
<1> HIDE DEF p
<1>2. /\ <<p>> \in Seq({"PASS", "ERROR", "FAIL"}) /\ <<p>> # <<>>
      /\ Append(<<>>, p) = <<p>>
      /\ \A q : <<p>> = <<q>> <=> p = q
  BY <1>1
<1> QED
  BY <1>1, <1>2 DEF p

(* So main() starts with nothing printed, in a state TestProtocol allows.  *)
LEMMA StartsClean ==
  ASSUME NEW o \in Settings, MainInit(o), begun = FALSE \/ begun = Running
  PROVE  /\ TestTypeOK /\ Protocol!Init
         /\ printed = <<>> /\ said = {} /\ status \in {<<>>, <<0>>, <<1>>}
<1>1. begun \in BOOLEAN /\ (begun => status = <<>>)
  BY DEF Running
<1>2. /\ printed = <<>> /\ said = {} /\ status \in {<<>>, <<0>>, <<1>>}
      /\ _verbose \in VQUIET .. VMAX
  BY DEF MainInit, Settings
<1> QED
  BY <1>1, <1>2 DEF TestTypeOK, Protocol!Init

(* The same for the programs whose options are -c, -h and -v.              *)
LEMMA PlainStartsClean ==
  ASSUME PlainInit, begun = FALSE \/ begun = Running
  PROVE  /\ TestTypeOK /\ Protocol!Init
         /\ printed = <<>> /\ said = {} /\ status \in {<<>>, <<0>>, <<1>>}
BY GetoptType, StartsClean DEF PlainInit

-----------------------------------------------------------------------------
(* The codes and names that TestProtocol uses are those of logging.h.      *)
LEMMA SameNames ==
  /\ Protocol!RET_PASS = RET_PASS /\ Protocol!RET_ERROR = RET_ERROR
  /\ Protocol!RET_FAIL = RET_FAIL
  /\ \A r : Protocol!print_result(r) = print_result(r)
BY DEF Protocol!RET_PASS, Protocol!RET_ERROR, Protocol!RET_FAIL, Protocol!print_result,
       RET_PASS, RET_ERROR, RET_FAIL, print_result

(* print_result(), called once, is a step of TestProtocol, ...             *)
LEMMA ProtocolReport ==
  ASSUME NEW r \in {RET_PASS, RET_ERROR, RET_FAIL}, status = <<>>, begun, printed = <<>>,
         printed' = Append(printed, print_result(r)), status' = status, begun' = begun
  PROVE  Protocol!Next
<1>1. printed' = <<Protocol!print_result(r)>>
  BY ResultNames, SameNames
<1>2. Protocol!Report(r)
  BY <1>1 DEF Protocol!Report
<1> QED
  BY <1>2, SameNames DEF Protocol!Next

(* ... and so is the return of the code that was printed, ...              *)
LEMMA ProtocolReturn ==
  ASSUME NEW r \in {RET_PASS, RET_ERROR, RET_FAIL}, status = <<>>,
         printed = <<print_result(r)>>, status' = <<r>>, printed' = printed, begun' = begun
  PROVE  Protocol!Next
<1>1. printed = <<Protocol!print_result(r)>>
  BY SameNames
<1>2. Protocol!Return(r)
  BY <1>1 DEF Protocol!Return
<1> QED
  BY <1>2, SameNames DEF Protocol!Next

(* ... and so is a call without which there is no test, ...                *)
LEMMA ProtocolBegin == status = <<>> /\ ~ begun /\ Prepared => Protocol!Next
BY DEF Prepared, Protocol!Next, Protocol!Begin

(* ... and the exit(1) when it has failed.                                 *)
LEMMA ProtocolAbandon == status = <<>> /\ ~ begun /\ Unprepared => Protocol!Next
BY DEF Unprepared, Protocol!Next, Protocol!Abandon

-----------------------------------------------------------------------------
Codes == {RET_PASS, RET_ERROR, RET_FAIL}

(* The results printed, pr, and the exit status, st, of a program that is  *)
(* at p with the result r.                                                 *)
Output(p, r, pr, st) ==
  /\ p = "exited" <=> st # <<>>
  /\ p \notin {"return", "exited"} => pr = <<>>
  /\ p = "return" => pr = <<print_result(r)>>
  /\ p = "exited" => pr = <<>> \/ pr = <<print_result(r)>>
  /\ st \in {<<>>, <<0>>, <<1>>, <<RET_ERROR>>, <<RET_FAIL>>}

(* A result other than a pass has been explained, with verbosity v.        *)
Explained(r, v, sd) ==
  /\ r = RET_ERROR /\ Shown(v) => "ERROR" \in sd
  /\ r = RET_FAIL /\ Shown(v) => "FAIL" \in sd

(* How the output develops: nothing happens before the result is printed.  *)
LEMMA OutputStays ==
  ASSUME NEW p, NEW q, NEW r, NEW s, NEW pr, NEW st, Output(p, r, pr, st),
         p \notin {"return", "exited"}, q \notin {"return", "exited"}
  PROVE  Output(q, s, pr, st)
BY DEF Output

(* It is printed once, ...                                                 *)
LEMMA OutputPrints ==
  ASSUME NEW p, NEW r \in Codes, NEW s, NEW pr, NEW st, Output(p, s, pr, st),
         p \notin {"return", "exited"}
  PROVE  Output("return", r, Append(pr, print_result(r)), st)
<1>1. pr = <<>> /\ Append(<<>>, print_result(r)) = <<print_result(r)>>
  BY ResultNames DEF Output, Codes
<1> QED
  BY <1>1 DEF Output

(* ... and returned, ...                                                   *)
LEMMA OutputReturns ==
  ASSUME NEW r \in Codes, NEW pr, NEW st, Output("return", r, pr, st)
  PROVE  Output("exited", r, pr, <<r>>)
BY DEF Output, Codes, RET_PASS

(* ... unless the program exits before.                                    *)
LEMMA OutputAbandons ==
  ASSUME NEW p, NEW r, NEW s, NEW pr, NEW st, Output(p, r, pr, st),
         p \notin {"return", "exited"}
  PROVE  Output("exited", s, pr, <<1>>)
BY DEF Output

(* What is printed has the type of a result, and stands for one.           *)
LEMMA OutputMeans ==
  ASSUME NEW p, NEW r \in Codes, NEW pr, NEW st, Output(p, r, pr, st)
  PROVE  /\ pr \in Seq({"PASS", "ERROR", "FAIL"})
         /\ pr = <<"PASS">> => r = RET_PASS /\ p \in {"return", "exited"}
         /\ pr = <<"ERROR">> => r = RET_ERROR
         /\ pr = <<"FAIL">> => r = RET_FAIL
         /\ pr # <<>> => p \in {"return", "exited"} /\ pr = <<print_result(r)>>
<1>1. pr = <<>> \/ (pr = <<print_result(r)>> /\ p \in {"return", "exited"})
  BY DEF Output
<1>2. CASE pr = <<>>
  BY <1>2
<1>3. CASE pr = <<print_result(r)>> /\ p \in {"return", "exited"}
  BY <1>3, ResultNames DEF Codes
<1> QED
  BY <1>1, <1>2, <1>3

(* The messages match a result that is explained.                          *)
LEMMA MessagesMatch ==
  ASSUME NEW p, NEW r \in Codes, Output(p, r, printed, status), Explained(r, _verbose, said),
         printed = <<"PASS">> => said = {}
  PROVE  MessagesMatchResult
BY OutputMeans DEF MessagesMatchResult, Explained

=============================================================================

------------------------- MODULE MCFunctionalTests --------------------------
(* The small functional tests, for TLC: with and without messages, and the *)
(* ways in which the option loop ends a program.  One second has 10        *)
(* nanoseconds here; the default timeout of 100 microseconds is 1.         *)
EXTENDS FunctionalTests

CommandLines == {<<Opt("c", 0)>>, <<Opt("v", 0)>>, <<Opt("v", 3)>>,
                 <<Opt("h", 0), Opt("x", 0)>>, <<Opt("v", -1), Opt("x", 0), Opt("h", 0)>>,
                 <<Opt("t", 9)>>, <<Opt("t", 20), Opt("v", 2)>>, <<Opt("t", -1)>>}
=============================================================================

-------------------------- MODULE MCSignalRestart ---------------------------
(* The signal-restart test, for TLC: with and without messages, and the    *)
(* two ways in which the option loop ends the program.                     *)
EXTENDS SignalRestart

CommandLines == {<<Opt("c", 0)>>, <<Opt("v", 0)>>, <<Opt("h", 0), Opt("x", 0)>>,
                 <<Opt("v", -1), Opt("x", 0), Opt("h", 0)>>}
Plain == {<<>>}
=============================================================================

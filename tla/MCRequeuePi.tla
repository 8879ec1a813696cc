---------------------------- MODULE MCRequeuePi -----------------------------
(* futex_requeue_pi for TLC: the command lines of functional/run.sh, two   *)
(* that end in the option loop, and some of them by themselves.            *)
EXTENDS RequeuePi

RunSh == {<<>>, <<"b">>, <<"b", "l">>, <<"b", "o">>, <<"l">>, <<"o">>,
          <<"b", "l", "t">>, <<"l", "t">>, <<"b", "t">>, <<"t">>, <<"b", "o", "t">>}

CommandLines == RunSh \cup {<<"c", "v", "h">>, <<"b", "x", "h">>}

OnlyB == {<<"b">>}
OnlyO == {<<"o">>}
=============================================================================

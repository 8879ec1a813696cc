------------------------ MODULE MCUninitializedHeap -------------------------
(* The uninitialised-heap test, for TLC: with and without messages.        *)
EXTENDS UninitializedHeap

CommandLines == {<<Opt("c", 0)>>, <<Opt("v", 0)>>, <<Opt("v", 3)>>,
                 <<Opt("h", 0), Opt("x", 0)>>, <<Opt("v", -1), Opt("x", 0), Opt("h", 0)>>}
Plain == {<<>>}
=============================================================================
